------------------------- MODULE TransactionManager -------------------------
(***************************************************************************)
(* The rollback manager of the backend                                     *)
(* (core/rollback/transaction-manager.service.ts) and the operations that  *)
(* run inside withTransaction().  An operation performs external effects   *)
(* (useradd, mkdir, a row), each followed by the registration of its undo, *)
(* and rewrites configuration files, each one snapshotted first and then   *)
(* written with `tee`.  It returns, and is committed, or throws, and is    *)
(* rolled back.  One action is the code between two awaits, so operations  *)
(* of several requests interleave at every await.                          *)
(***************************************************************************)
EXTENDS Naturals, Sequences

CONSTANTS Tx,          \* transaction identifiers: one withTransaction() call each
          File,        \* paths of configuration files
          Content,     \* what a file can contain
          Absent,      \* the file does not exist
          Unseen,      \* the transaction has not snapshotted the file
          FilesOf,     \* FilesOf[t]: the files the operation of t may rewrite
          MaxEffects,  \* bound on the external effects of one operation
          MaxCrashes   \* bound on restarts of the panel process

ASSUME FilesAssumption   == File # {} /\ FilesOf \in [Tx -> SUBSET File]
ASSUME ContentAssumption == Absent \notin Content /\ Unseen \notin Content
                            /\ Absent # Unseen
ASSUME BoundAssumption   == MaxEffects \in Nat /\ MaxCrashes \in Nat

VARIABLES
  disk,       \* the files
  pc,         \* where the withTransaction() call of each transaction is
  cur,        \* the file a snapshot or a write in progress is about
  actions,    \* transaction.rollbackActions
  snapshots,  \* transaction.fileSnapshots
  kept,       \* indices of the snapshots whose backup file exists
  left,       \* rollback actions of the reversed copy still to run
  next,       \* the snapshot the commit or restore loop is at
  errors,     \* what rollback() collected: the steps whose undo failed
  silent,     \* history: undos whose command failed without an exception
  done,       \* history: external effects in place
  acted,      \* history: how many external effects were performed
  before,     \* history: what a file held when it was snapshotted
  written,    \* history: what the transaction last wrote in a file
  crashes     \* how often the process restarted

txVars == <<cur, actions, snapshots, kept, left, next, errors, silent, done, acted,
            before, written>>
vars   == <<disk, pc, txVars, crashes>>

Stored == Content \cup {Absent}

\* The closures pushed on rollbackActions, and the file restorations, by what
\* they undo.
Undo(n)    == [kind |-> "undo", effect |-> n]
Unlink(f)  == [kind |-> "unlink", file |-> f]
Restore(f) == [kind |-> "restore", file |-> f]
Undos    == [kind : {"undo"}, effect : 1..MaxEffects]
Unlinks  == [kind : {"unlink"}, file : File]
Restores == [kind : {"restore"}, file : File]
Snapshot == [file : File, content : Content]

Open   == {"running", "copying", "writing", "committing", "rolling", "restoring",
           "unbacking"}
Ended  == {"returned", "threw", "lost", "torn"}
Labels == {"idle"} \cup Open \cup Ended

\* activeTransactions: a transaction is in the map from its start until its
\* commit or its rollback has ended, and the map dies with the process.
active == {t \in Tx : pc[t] \in Open}

Touched(t) == {f \in File : before[t][f] # Unseen}

\* No other operation may rewrite a file of t.
Undisturbed(t) == \A u \in Tx \ {t} : FilesOf[u] \cap FilesOf[t] = {}

Init ==
  /\ disk \in [File -> Stored]
  /\ pc        = [t \in Tx |-> "idle"]
  /\ cur       = [t \in Tx |-> CHOOSE f \in File : TRUE]
  /\ actions   = [t \in Tx |-> <<>>]
  /\ snapshots = [t \in Tx |-> <<>>]
  /\ kept      = [t \in Tx |-> {}]
  /\ left      = [t \in Tx |-> 0]
  /\ next      = [t \in Tx |-> 1]
  /\ errors    = [t \in Tx |-> {}]
  /\ silent    = [t \in Tx |-> {}]
  /\ done      = [t \in Tx |-> {}]
  /\ acted     = [t \in Tx |-> 0]
  /\ before    = [t \in Tx |-> [f \in File |-> Unseen]]
  /\ written   = [t \in Tx |-> [f \in File |-> Unseen]]
  /\ crashes   = 0

Goto(t, label) == pc' = [pc EXCEPT ![t] = label]

\* The operation throws: withTransaction() catches and calls rollback(), which
\* copies the registered actions, reversed, before its first await.
Fail(t) ==
  /\ Goto(t, "rolling")
  /\ left' = [left EXCEPT ![t] = Len(actions[t])]

-----------------------------------------------------------------------------
(* startTransaction() and the steps an operation is made of.               *)

Start(t) ==
  /\ pc[t] = "idle"
  /\ Goto(t, "running")
  /\ UNCHANGED <<disk, txVars, crashes>>

\* An external effect succeeded; its undo is registered in the same turn.
Act(t) ==
  LET n == acted[t] + 1 IN
  /\ pc[t] = "running" /\ acted[t] < MaxEffects
  /\ acted'   = [acted EXCEPT ![t] = n]
  /\ done'    = [done EXCEPT ![t] = @ \cup {n}]
  /\ actions' = [actions EXCEPT ![t] = Append(@, Undo(n))]
  /\ UNCHANGED <<disk, pc, cur, snapshots, kept, left, next, errors, silent, before,
                 written, crashes>>

\* A command failed or a check of the operation did: it throws.
Throw(t) ==
  /\ pc[t] = "running"
  /\ Fail(t)
  /\ UNCHANGED <<disk, cur, actions, snapshots, kept, next, errors, silent, done, acted,
                 before, written, crashes>>

\* snapshotFile() of a file that does not exist: undoing means deleting it.
\* The callers snapshot a path at most once in a transaction.
SnapshotAbsent(t, f) ==
  /\ pc[t] = "running" /\ f \in FilesOf[t] \ Touched(t)
  /\ disk[f] = Absent
  /\ actions' = [actions EXCEPT ![t] = Append(@, Unlink(f))]
  /\ before'  = [before EXCEPT ![t][f] = Absent]
  /\ cur'     = [cur EXCEPT ![t] = f]
  /\ Goto(t, "writing")
  /\ UNCHANGED <<disk, snapshots, kept, left, next, errors, silent, done, acted, written,
                 crashes>>

\* Mutant: copyFile is not awaited before the snapshot is recorded.
SnapshotStart_NotAwaited(t, f) ==
  /\ pc[t] = "running" /\ f \in FilesOf[t] \ Touched(t)
  /\ disk[f] # Absent
  /\ snapshots' = [snapshots EXCEPT
                     ![t] = Append(@, [file |-> f, content |-> disk[f]])]
  /\ before' = [before EXCEPT ![t][f] = disk[f]]
  /\ cur' = [cur EXCEPT ![t] = f]
  /\ Goto(t, "writing")
  /\ UNCHANGED <<disk, actions, kept, left, next, errors, silent, done, acted,
                 written, crashes>>

\* snapshotFile() of an existing file: copyFile is awaited ...
SnapshotStart(t, f) ==
  /\ pc[t] = "running" /\ f \in FilesOf[t] \ Touched(t)
  /\ disk[f] # Absent
  /\ cur' = [cur EXCEPT ![t] = f]
  /\ Goto(t, "copying")
  /\ UNCHANGED <<disk, actions, snapshots, kept, left, next, errors, silent, done, acted,
                 before, written, crashes>>

\* ... and the backup is recorded when it has been made.
SnapshotCopied(t) ==
  LET f == cur[t] IN
  /\ pc[t] = "copying" /\ disk[f] # Absent
  /\ snapshots' = [snapshots EXCEPT
                     ![t] = Append(@, [file |-> f, content |-> disk[f]])]
  /\ kept'   = [kept EXCEPT ![t] = @ \cup {Len(snapshots[t]) + 1}]
  /\ before' = [before EXCEPT ![t][f] = disk[f]]
  /\ Goto(t, "writing")
  /\ UNCHANGED <<disk, cur, actions, left, next, errors, silent, done, acted, written,
                 crashes>>

SnapshotFails(t) ==
  /\ pc[t] = "copying"
  /\ Fail(t)
  /\ UNCHANGED <<disk, cur, actions, snapshots, kept, next, errors, silent, done, acted,
                 before, written, crashes>>

Write(t) ==
  /\ pc[t] = "writing"
  /\ \E c \in Content :
       /\ disk'    = [disk EXCEPT ![cur[t]] = c]
       /\ written' = [written EXCEPT ![t][cur[t]] = c]
  /\ Goto(t, "running")
  /\ UNCHANGED <<cur, actions, snapshots, kept, left, next, errors, silent, done, acted,
                 before, crashes>>

\* `tee` failed or was killed at its timeout; the file is as it was or holds
\* whatever part had been written.
WriteFails(t) ==
  /\ pc[t] = "writing"
  /\ \E c \in Content \cup {disk[cur[t]]} : disk' = [disk EXCEPT ![cur[t]] = c]
  /\ Fail(t)
  /\ UNCHANGED <<cur, actions, snapshots, kept, next, errors, silent, done, acted, before,
                 written, crashes>>

-----------------------------------------------------------------------------
(* commit()                                                                *)

\* Mutant: the loop over the snapshots starts one too early.
CommitStart_FromZero(t) ==
  /\ pc[t] = "running"
  /\ Goto(t, "committing")
  /\ next' = [next EXCEPT ![t] = 0]
  /\ UNCHANGED <<disk, cur, actions, snapshots, kept, left, errors, silent, done,
                 acted, before, written, crashes>>

CommitStart(t) ==
  /\ pc[t] = "running"
  /\ Goto(t, "committing")
  /\ next' = [next EXCEPT ![t] = 1]
  /\ UNCHANGED <<disk, cur, actions, snapshots, kept, left, errors, silent, done, acted,
                 before, written, crashes>>

\* A backup that cannot be deleted is only logged.
CommitUnlink(t) ==
  /\ pc[t] = "committing" /\ next[t] <= Len(snapshots[t])
  /\ \/ kept' = [kept EXCEPT ![t] = @ \ {next[t]}]
     \/ UNCHANGED kept
  /\ next' = [next EXCEPT ![t] = @ + 1]
  /\ UNCHANGED <<disk, pc, cur, actions, snapshots, left, errors, silent, done, acted,
                 before, written, crashes>>

CommitEnd(t) ==
  /\ pc[t] = "committing" /\ next[t] > Len(snapshots[t])
  /\ Goto(t, "returned")
  /\ UNCHANGED <<disk, txVars, crashes>>

-----------------------------------------------------------------------------
(* rollback()                                                              *)

\* Mutant: the closures of one transaction undo the effects of all.
UndoSucceeds_AllTransactions(t) ==
  LET a == actions[t][left[t]] IN
  /\ pc[t] = "rolling" /\ left[t] > 0
  /\ \/ a.kind = "undo" /\ done' = [u \in Tx |-> done[u] \ {a.effect}] /\ UNCHANGED disk
     \/ a.kind = "unlink" /\ disk' = [disk EXCEPT ![a.file] = Absent] /\ UNCHANGED done
  /\ left' = [left EXCEPT ![t] = @ - 1]
  /\ UNCHANGED <<pc, cur, actions, snapshots, kept, next, errors, silent, acted,
                 before, written, crashes>>

UndoSucceeds(t) ==
  LET a == actions[t][left[t]] IN
  /\ pc[t] = "rolling" /\ left[t] > 0
  /\ \/ /\ a.kind = "undo"
        /\ done' = [done EXCEPT ![t] = @ \ {a.effect}]
        /\ UNCHANGED disk
     \/ /\ a.kind = "unlink"
        /\ disk' = [disk EXCEPT ![a.file] = Absent]
        /\ UNCHANGED done
  /\ left' = [left EXCEPT ![t] = @ - 1]
  /\ UNCHANGED <<pc, cur, actions, snapshots, kept, next, errors, silent, acted, before,
                 written, crashes>>

\* Mutant: the first failing action ends the loop.
UndoFails_StopsLoop(t) ==
  /\ pc[t] = "rolling" /\ left[t] > 0
  /\ errors' = [errors EXCEPT ![t] = @ \cup {actions[t][left[t]]}]
  /\ left'   = [left EXCEPT ![t] = 0]
  /\ UNCHANGED <<disk, pc, cur, actions, snapshots, kept, next, silent, done, acted,
                 before, written, crashes>>

\* An action that throws is recorded and the loop goes on.
UndoFails(t) ==
  /\ pc[t] = "rolling" /\ left[t] > 0
  /\ errors' = [errors EXCEPT ![t] = @ \cup {actions[t][left[t]]}]
  /\ left'   = [left EXCEPT ![t] = @ - 1]
  /\ UNCHANGED <<disk, pc, cur, actions, snapshots, kept, next, silent, done, acted,
                 before, written, crashes>>

\* Most registered undos await CommandExecutorService.execute(), which reports
\* a failed command in its result and never throws: nobody looks at it.
UndoSwallowed(t) ==
  LET a == actions[t][left[t]] IN
  /\ pc[t] = "rolling" /\ left[t] > 0 /\ a.kind = "undo"
  /\ silent' = [silent EXCEPT ![t] = @ \cup {a}]
  /\ left'   = [left EXCEPT ![t] = @ - 1]
  /\ UNCHANGED <<disk, pc, cur, actions, snapshots, kept, next, errors, done, acted,
                 before, written, crashes>>

\* Mutant: the loop stops one action short.
UndoEnd_OneShort(t) ==
  /\ pc[t] = "rolling" /\ left[t] <= 1
  /\ Goto(t, "restoring")
  /\ next' = [next EXCEPT ![t] = 1]
  /\ UNCHANGED <<disk, cur, actions, snapshots, kept, left, errors, silent, done,
                 acted, before, written, crashes>>

UndoEnd(t) ==
  /\ pc[t] = "rolling" /\ left[t] = 0
  /\ Goto(t, "restoring")
  /\ next' = [next EXCEPT ![t] = 1]
  /\ UNCHANGED <<disk, cur, actions, snapshots, kept, left, errors, silent, done, acted,
                 before, written, crashes>>

\* The restore loop runs over fileSnapshots in the order they were taken.
RestoreCopy(t) ==
  LET s == snapshots[t][next[t]] IN
  /\ pc[t] = "restoring" /\ next[t] <= Len(snapshots[t]) /\ next[t] \in kept[t]
  /\ disk' = [disk EXCEPT ![s.file] = s.content]
  /\ Goto(t, "unbacking")
  /\ UNCHANGED <<txVars, crashes>>

\* A failed copy leaves the file in whatever state it reached.
RestoreFails(t) ==
  LET s == snapshots[t][next[t]] IN
  /\ pc[t] = "restoring" /\ next[t] <= Len(snapshots[t]) /\ next[t] \in kept[t]
  /\ \E c \in Stored : disk' = [disk EXCEPT ![s.file] = c]
  /\ errors' = [errors EXCEPT ![t] = @ \cup {Restore(s.file)}]
  /\ next'   = [next EXCEPT ![t] = @ + 1]
  /\ UNCHANGED <<pc, cur, actions, snapshots, kept, left, silent, done, acted, before,
                 written, crashes>>

RestoreUnlink(t) ==
  LET s == snapshots[t][next[t]] IN
  /\ pc[t] = "unbacking"
  /\ \/ /\ kept' = [kept EXCEPT ![t] = @ \ {next[t]}]
        /\ UNCHANGED errors
     \/ /\ errors' = [errors EXCEPT ![t] = @ \cup {Restore(s.file)}]
        /\ UNCHANGED kept
  /\ next' = [next EXCEPT ![t] = @ + 1]
  /\ Goto(t, "restoring")
  /\ UNCHANGED <<disk, cur, actions, snapshots, left, silent, done, acted, before, written,
                 crashes>>

\* Mutant: a rollback with errors throws before it leaves the map.
RollbackEnd_ThrowsFirst(t) ==
  /\ pc[t] = "restoring" /\ next[t] > Len(snapshots[t]) /\ errors[t] = {}
  /\ Goto(t, "threw")
  /\ UNCHANGED <<disk, txVars, crashes>>

RollbackEnd(t) ==
  /\ pc[t] = "restoring" /\ next[t] > Len(snapshots[t])
  /\ Goto(t, "threw")
  /\ UNCHANGED <<disk, txVars, crashes>>

-----------------------------------------------------------------------------
(* The panel restarts: the map of transactions is only in memory.  An      *)
(* operation caught in commit() is "torn", any other is "lost".            *)
Crash ==
  /\ crashes < MaxCrashes /\ active # {}
  /\ crashes' = crashes + 1
  /\ pc' = [t \in Tx |-> CASE pc[t] = "committing"  -> "torn"
                           [] pc[t] \in Open \ {"committing"} -> "lost"
                           [] OTHER -> pc[t]]
  /\ UNCHANGED <<disk, txVars>>

Operate(t) ==
  \/ Start(t) \/ Act(t) \/ Throw(t)
  \/ \E f \in File : SnapshotAbsent(t, f) \/ SnapshotStart(t, f)
  \/ SnapshotCopied(t) \/ SnapshotFails(t) \/ Write(t) \/ WriteFails(t)
  \/ CommitStart(t) \/ CommitUnlink(t) \/ CommitEnd(t)
  \/ UndoSucceeds(t) \/ UndoFails(t) \/ UndoSwallowed(t) \/ UndoEnd(t)
  \/ RestoreCopy(t) \/ RestoreFails(t) \/ RestoreUnlink(t) \/ RollbackEnd(t)

\* Every await of an operation settles, and its next turn is then run.
Fairness == \A t \in Tx : WF_vars(Operate(t) /\ pc[t] # "idle")

Next == (\E t \in Tx : Operate(t)) \/ Crash

Spec == Init /\ [][Next]_vars

FairSpec == Spec /\ Fairness
-----------------------------------------------------------------------------
(* Properties                                                              *)

TypeOK ==
  /\ disk \in [File -> Stored]
  /\ pc \in [Tx -> Labels]
  /\ cur \in [Tx -> File]
  /\ actions \in [Tx -> Seq(Undos \cup Unlinks)]
  /\ snapshots \in [Tx -> Seq(Snapshot)]
  /\ kept \in [Tx -> SUBSET (Nat \ {0})]
  /\ left \in [Tx -> Nat]
  /\ next \in [Tx -> Nat \ {0}]
  /\ errors \in [Tx -> SUBSET (Undos \cup Unlinks \cup Restores)]
  /\ silent \in [Tx -> SUBSET Undos]
  /\ done \in [Tx -> SUBSET (1..MaxEffects)]
  /\ acted \in [Tx -> 0..MaxEffects]
  /\ before \in [Tx -> [File -> Stored \cup {Unseen}]]
  /\ written \in [Tx -> [File -> Content \cup {Unseen}]]
  /\ crashes \in 0..MaxCrashes

\* A rolled back operation leaves nothing behind but what rollback() reported
\* or what a failed command hid from it: a failing undo never keeps another one
\* from running, and every file no other operation rewrites has the content it
\* had before the operation (or is absent again), whatever mixture of new
\* files, existing files and half-written files it got to.
RollbackExact ==
  \A t \in Tx : pc[t] = "threw" =>
    /\ \A n \in done[t] : Undo(n) \in errors[t] \cup silent[t]
    /\ Undisturbed(t) =>
         \A f \in Touched(t) :
           disk[f] = before[t][f] \/ {Unlink(f), Restore(f)} \cap errors[t] # {}

\* An operation that returned to its caller has all of its effects and the
\* files it wrote as it last wrote them: nothing of it was undone, by its own
\* commit or by the rollback of another operation.
ReturnedIsKept ==
  \A t \in Tx : pc[t] = "returned" =>
    /\ done[t] = 1..acted[t]
    /\ Undisturbed(t) => \A f \in Touched(t) : disk[f] = written[t][f]

\* When the process restarts in the middle of an operation nothing rolls it
\* back, but what is needed to do it by hand is on disk: every file it reached
\* is as before, did not exist before, or has a backup with its content.  Only
\* an operation caught in commit() may have lost a backup.
LostIsRecoverable ==
  \A t \in Tx : pc[t] = "lost" /\ Undisturbed(t) =>
    \A f \in Touched(t) :
      \/ before[t][f] \in {disk[f], Absent}
      \/ \E i \in kept[t] : snapshots[t][i] = [file |-> f, content |-> before[t][f]]
      \/ Restore(f) \in errors[t]

\* Every operation that started comes to an end: it returns, throws after its
\* rollback, or is cut off by a restart; its map entry is gone then.
EveryOperationEnds == \A t \in Tx : pc[t] = "running" ~> t \notin active
\* The abstract view of a transaction.  It counts as kept as soon as commit()
\* has begun, because only a failure of the operation itself rolls it back.
Outcome(t) ==
  CASE pc[t] \in {"committing", "returned", "torn"} -> "kept"
    [] pc[t] = "threw" /\ errors[t] = {} /\ silent[t] = {} -> "reverted"
    [] pc[t] = "threw" /\ errors[t] \cup silent[t] # {} -> "broken"
    [] pc[t] = "lost" -> "broken"
    [] OTHER -> "open"

BehindOpen(f) == {t \in Tx : Outcome(t) = "open" /\ f \in Touched(t)}

Abstract == INSTANCE AtomicOperation WITH
  Effect  <- 1..MaxEffects,
  outcome <- [t \in Tx |-> Outcome(t)],
  store   <- [f \in File |-> IF BehindOpen(f) = {} THEN disk[f]
                             ELSE before[CHOOSE t \in BehindOpen(f) : TRUE][f]],
  effects <- [t \in Tx |-> IF Outcome(t) = "open" THEN {} ELSE done[t]]

\* Operations on files of their own are atomic: whatever fails, and however
\* their steps interleave, each is kept whole, reverted whole or reported.
IsAtomic == Abstract!Spec
=============================================================================
