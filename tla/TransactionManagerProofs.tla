--------------------- MODULE TransactionManagerProofs ---------------------
(***************************************************************************)
(* Proofs about TransactionManager: its type invariant, that a rollback is *)
(* exact, that a returned operation is kept and that a lost one can be     *)
(* recovered, for every set of transactions, files and contents.           *)
(***************************************************************************)
EXTENDS TransactionManager, TLAPS

-----------------------------------------------------------------------------
(* The inductive invariant behind these properties, by parts.  Forward: the  *)
(* operation itself is running; Backward: rollback() is.                     *)

Forward  == {"running", "copying", "writing"}
Backward == {"restoring", "unbacking", "threw"}

\* Nothing happened before the operation started.
IdleIsFresh(t) ==
  pc[t] = "idle" =>
    /\ done[t] = {} /\ acted[t] = 0 /\ actions[t] = <<>> /\ snapshots[t] = <<>>
    /\ \A f \in File : before[t][f] = Unseen

\* Registered undos and snapshots are about the transaction's own files and
\* record what the files held.
UndoesOwn(t) ==
  /\ \A i \in 1..Len(actions[t]) : \A f \in File :
       actions[t][i] = Unlink(f) => f \in FilesOf[t] /\ before[t][f] = Absent
  /\ \A i \in 1..Len(snapshots[t]) :
       /\ snapshots[t][i].file \in FilesOf[t]
       /\ before[t][snapshots[t][i].file] = snapshots[t][i].content
  /\ Touched(t) \subseteq FilesOf[t]
  /\ pc[t] = "copying" => cur[t] \in FilesOf[t] /\ before[t][cur[t]] = Unseen
  /\ pc[t] = "writing" => cur[t] \in Touched(t)

\* The loops stay within their lists.
Bounded ==
  \A t \in Tx : /\ left[t] <= Len(actions[t])
                /\ pc[t] = "unbacking" => next[t] <= Len(snapshots[t])

\* The backups still needed exist.
BackupsKept(t) ==
  /\ \A i \in 1..Len(snapshots[t]) :
       pc[t] \in Forward \cup {"rolling"} => i \in kept[t]
  /\ \A i \in 1..Len(snapshots[t]) :
       pc[t] \in {"restoring", "unbacking"} /\ i >= next[t] => i \in kept[t]

\* Every effect in place has an undo to come, or one that failed.
EffectsCovered(t) ==
  /\ pc[t] \in Forward \cup {"committing", "returned"} => done[t] = 1..acted[t]
  /\ pc[t] \in Forward =>
       \A n \in done[t] : \E i \in 1..Len(actions[t]) : actions[t][i] = Undo(n)
  /\ pc[t] = "rolling" =>
       \A n \in done[t] : \/ \E i \in 1..left[t] : actions[t][i] = Undo(n)
                          \/ Undo(n) \in errors[t] \cup silent[t]
  /\ pc[t] \in Backward => \A n \in done[t] : Undo(n) \in errors[t] \cup silent[t]

\* Every file created will be deleted, is, or could not be.
NewFilesCovered(t) ==
  \A f \in File : before[t][f] = Absent =>
    /\ pc[t] \in Forward => \E i \in 1..Len(actions[t]) : actions[t][i] = Unlink(f)
    /\ pc[t] = "rolling" => \/ \E i \in 1..left[t] : actions[t][i] = Unlink(f)
                            \/ disk[f] = Absent
                            \/ Unlink(f) \in errors[t]
    /\ pc[t] \in Backward => disk[f] = Absent \/ Unlink(f) \in errors[t]

\* Every file that existed will be restored, is, or could not be.
OldFilesCovered(t) ==
  \A f \in File : before[t][f] \in Content =>
    /\ pc[t] \in Forward \cup {"rolling"} =>
         \E i \in 1..Len(snapshots[t]) : snapshots[t][i].file = f
    /\ pc[t] = "restoring" =>
         \/ \E i \in next[t]..Len(snapshots[t]) : snapshots[t][i].file = f
         \/ disk[f] = before[t][f] \/ Restore(f) \in errors[t]
    /\ pc[t] = "unbacking" =>
         \/ \E i \in (next[t] + 1)..Len(snapshots[t]) : snapshots[t][i].file = f
         \/ disk[f] = before[t][f] \/ Restore(f) \in errors[t]
    /\ pc[t] = "threw" => disk[f] = before[t][f] \/ Restore(f) \in errors[t]

\* What the operation wrote is what the file holds.
WritesInPlace(t) ==
  /\ pc[t] \in {"running", "committing", "returned"} =>
       \A f \in Touched(t) : disk[f] = written[t][f]
  /\ pc[t] \in {"copying", "writing"} =>
       \A f \in Touched(t) \ {cur[t]} : disk[f] = written[t][f]

\* After a restart, what was written over is still in a backup.
LostCovered(t) ==
  pc[t] = "lost" =>
    \A f \in Touched(t) :
      \/ before[t][f] \in {disk[f], Absent}
      \/ \E i \in kept[t] : snapshots[t][i] = [file |-> f, content |-> before[t][f]]
      \/ Restore(f) \in errors[t]

TxInv(t) ==
  /\ IdleIsFresh(t) /\ UndoesOwn(t) /\ BackupsKept(t) /\ EffectsCovered(t)
  /\ Undisturbed(t) =>
       NewFilesCovered(t) /\ OldFilesCovered(t) /\ WritesInPlace(t) /\ LostCovered(t)

IInv == TypeOK /\ Bounded /\ \A t \in Tx : TxInv(t)
-----------------------------------------------------------------------------
USE FilesAssumption, ContentAssumption, BoundAssumption

\* What Append() does to the elements of a sequence.
LEMMA AppendElements ==
  ASSUME NEW S, NEW s \in Seq(S), NEW e \in S
  PROVE  /\ Len(Append(s, e)) = Len(s) + 1
         /\ Append(s, e)[Len(s) + 1] = e
         /\ \A i \in 1..Len(s) : Append(s, e)[i] = s[i]
         /\ \A i \in 1..Len(Append(s, e)) :
              \/ i \in 1..Len(s) /\ Append(s, e)[i] = s[i]
              \/ Append(s, e)[i] = e
OBVIOUS

LEMMA SnapshotTypes ==
  ASSUME TypeOK, NEW t \in Tx, NEW i \in 1..Len(snapshots[t])
  PROVE  /\ snapshots[t][i] \in Snapshot
         /\ snapshots[t][i].file \in File /\ snapshots[t][i].content \in Content
<1>1. snapshots[t] \in Seq(Snapshot) BY DEF TypeOK
<1>2. snapshots[t][i] \in Snapshot BY <1>1
<1> QED BY <1>2 DEF Snapshot

LEMMA ActionTypes ==
  /\ \A n \in 1..MaxEffects : Undo(n) \in Undos
  /\ \A f \in File : Unlink(f) \in Unlinks
  /\ \A n \in 1..MaxEffects, f \in File : Undo(n) # Unlink(f)
  /\ \A f, g : Unlink(f) = Unlink(g) => f = g
  /\ \A m, n : Undo(m) = Undo(n) => m = n
BY DEF Undo, Undos, Unlink, Unlinks

\* Every step of every operation keeps the type invariant.
LEMMA TypeStep ==
  ASSUME TypeOK, Bounded, NEW t \in Tx, Operate(t) PROVE TypeOK'
<1> USE DEF TypeOK, txVars, Goto, Fail
<1>0. Open \subseteq Labels /\ Ended \subseteq Labels BY DEF Labels
<1>a. left[t] > 0 => actions[t][left[t]] \in Undos \cup Unlinks
  BY DEF Bounded
<1>b. pc[t] \in {"restoring", "unbacking"} /\ next[t] <= Len(snapshots[t]) =>
        snapshots[t][next[t]] \in Snapshot
  OBVIOUS
<1>c. \A s \in Snapshot : /\ s.file \in File /\ s.content \in Stored
                          /\ Restore(s.file) \in Restores
  BY DEF Snapshot, Stored, Restore, Restores
<1>d. \A u \in Undos \cup Unlinks :
        /\ u.kind = "undo" => u \in Undos
        /\ u.kind = "unlink" => u.file \in File
  BY DEF Undos, Unlinks
<1>e. Absent \in Stored BY DEF Stored
<1>1. CASE Start(t) BY <1>1, <1>0 DEF Start, Open
<1>2. CASE Act(t)
  <2>1. acted[t] + 1 \in 1..MaxEffects BY <1>2 DEF Act
  <2>2. Undo(acted[t] + 1) \in Undos BY <2>1 DEF Undo, Undos
  <2>3. Append(actions[t], Undo(acted[t] + 1)) \in Seq(Undos \cup Unlinks) BY <2>2
  <2> QED BY <1>2, <2>1, <2>3, SMTT(30) DEF Act
<1>3. CASE Throw(t)
  <2>1. /\ pc' = [pc EXCEPT ![t] = "rolling"] /\ left' = [left EXCEPT ![t] = Len(actions[t])]
        /\ UNCHANGED <<disk, cur, actions, snapshots, kept, next, errors, silent, done, acted,
                       before, written, crashes>>
    BY <1>3 DEF Throw
  <2>2. "rolling" \in Labels /\ Len(actions[t]) \in Nat
    BY <1>0 DEF Open
  <2> QED BY <2>1, <2>2
<1>4. ASSUME NEW f \in File, SnapshotAbsent(t, f) PROVE TypeOK'
  <2>1. Unlink(f) \in Unlinks BY DEF Unlink, Unlinks
  <2>2. Append(actions[t], Unlink(f)) \in Seq(Undos \cup Unlinks) BY <2>1
  <2> QED BY <1>4, <1>0, <2>2 DEF SnapshotAbsent, Open, Stored
<1>5. ASSUME NEW f \in File, SnapshotStart(t, f) PROVE TypeOK'
  BY <1>5, <1>0 DEF SnapshotStart, Open
<1>6. CASE SnapshotCopied(t)
  <2>1. [file |-> cur[t], content |-> disk[cur[t]]] \in Snapshot
    BY <1>6 DEF SnapshotCopied, Snapshot, Stored
  <2>2. Append(snapshots[t], [file |-> cur[t], content |-> disk[cur[t]]])
          \in Seq(Snapshot)
    BY <2>1
  <2>3. Len(snapshots[t]) + 1 \in Nat \ {0} OBVIOUS
  <2> QED BY <1>6, <1>0, <2>2, <2>3 DEF SnapshotCopied, Open, Stored
<1>7. CASE SnapshotFails(t) BY <1>7, <1>0 DEF SnapshotFails, Open
<1>8. CASE Write(t)
  <2>1. PICK c \in Content : /\ disk' = [disk EXCEPT ![cur[t]] = c]
                             /\ written' = [written EXCEPT ![t][cur[t]] = c]
    BY <1>8 DEF Write
  <2>2. written' \in [Tx -> [File -> Content \cup {Unseen}]] BY <2>1
  <2> QED BY <1>8, <1>0, <2>1, <2>2 DEF Write, Open, Stored
<1>9. CASE WriteFails(t) BY <1>9, <1>0, SMTT(30) DEF WriteFails, Open, Stored
<1>10. CASE CommitStart(t) BY <1>10, <1>0 DEF CommitStart, Open
<1>11. CASE CommitUnlink(t)
  <2>0. kept' = [kept EXCEPT ![t] = @ \ {next[t]}] \/ kept' = kept
    BY <1>11 DEF CommitUnlink
  <2>1. kept' \in [Tx -> SUBSET (Nat \ {0})]
    <3> DEFINE rest == kept[t] \ {next[t]}
    <3>1. rest \in SUBSET (Nat \ {0}) OBVIOUS
    <3>2. kept' = [kept EXCEPT ![t] = rest] \/ kept' = kept BY <2>0
    <3> HIDE DEF rest
    <3> QED BY <3>1, <3>2
  <2>2. next' \in [Tx -> Nat \ {0}] BY <1>11 DEF CommitUnlink
  <2> QED BY <1>11, <2>1, <2>2 DEF CommitUnlink
<1>12. CASE CommitEnd(t) BY <1>12, <1>0 DEF CommitEnd, Ended
<1>13. CASE UndoSucceeds(t)
  <2>1. disk' \in [File -> Stored] BY <1>13, <1>a, <1>d, <1>e DEF UndoSucceeds
  <2>0. \/ done' = [done EXCEPT ![t] = @ \ {actions[t][left[t]].effect}]
        \/ done' = done
    BY <1>13 DEF UndoSucceeds
  <2>2. done' \in [Tx -> SUBSET (1..MaxEffects)]
    <3> DEFINE rest == done[t] \ {actions[t][left[t]].effect}
    <3>1. rest \in SUBSET (1..MaxEffects) OBVIOUS
    <3>2. done' = [done EXCEPT ![t] = rest] \/ done' = done BY <2>0
    <3> HIDE DEF rest
    <3> QED BY <3>1, <3>2
  <2>3. left' \in [Tx -> Nat] BY <1>13 DEF UndoSucceeds
  <2> QED BY <1>13, <2>1, <2>2, <2>3 DEF UndoSucceeds
<1>14. CASE UndoFails(t) BY <1>14, <1>a, SMTT(30) DEF UndoFails
<1>15. CASE UndoSwallowed(t) BY <1>15, <1>a, <1>d, SMTT(30) DEF UndoSwallowed
<1>16. CASE UndoEnd(t) BY <1>16, <1>0 DEF UndoEnd, Open
<1>17. CASE RestoreCopy(t) BY <1>17, <1>0, <1>b, <1>c DEF RestoreCopy, Open
<1>18. CASE RestoreFails(t) BY <1>18, <1>b, <1>c, SMTT(30) DEF RestoreFails
<1>19. CASE RestoreUnlink(t)
  <2>1. Restore(snapshots[t][next[t]].file) \in Restores
    BY <1>19, <1>b, <1>c DEF RestoreUnlink, Bounded
  <2>0. /\ kept' = [kept EXCEPT ![t] = @ \ {next[t]}] \/ kept' = kept
        /\ \/ errors' = errors
           \/ errors' = [errors EXCEPT
                           ![t] = @ \cup {Restore(snapshots[t][next[t]].file)}]
    BY <1>19 DEF RestoreUnlink
  <2>2. kept' \in [Tx -> SUBSET (Nat \ {0})]
    <3> DEFINE rest == kept[t] \ {next[t]}
    <3>1. rest \in SUBSET (Nat \ {0}) OBVIOUS
    <3>2. kept' = [kept EXCEPT ![t] = rest] \/ kept' = kept BY <2>0
    <3> HIDE DEF rest
    <3> QED BY <3>1, <3>2
  <2>3. errors' \in [Tx -> SUBSET (Undos \cup Unlinks \cup Restores)]
    <3> DEFINE more == errors[t] \cup {Restore(snapshots[t][next[t]].file)}
    <3>1. more \in SUBSET (Undos \cup Unlinks \cup Restores) BY <2>1
    <3>2. errors' = [errors EXCEPT ![t] = more] \/ errors' = errors BY <2>0
    <3> HIDE DEF more
    <3> QED BY <3>1, <3>2
  <2>4. next' \in [Tx -> Nat \ {0}] BY <1>19 DEF RestoreUnlink
  <2> QED BY <1>19, <1>0, <2>2, <2>3, <2>4 DEF RestoreUnlink, Open
<1>20. CASE RollbackEnd(t) BY <1>20, <1>0 DEF RollbackEnd, Ended
<1> QED
  BY <1>1, <1>2, <1>3, <1>4, <1>5, <1>6, <1>7, <1>8, <1>9, <1>10, <1>11, <1>12,
     <1>13, <1>14, <1>15, <1>16, <1>17, <1>18, <1>19, <1>20 DEF Operate

\* And every step keeps the loops within their lists.
LEMMA BoundedStep ==
  ASSUME TypeOK, Bounded, NEW t \in Tx, Operate(t) PROVE Bounded'
<1> USE DEF TypeOK, Bounded, txVars, Goto, Fail
<1>1. CASE Act(t)
  <2>1. Len(Append(actions[t], Undo(acted[t] + 1))) = Len(actions[t]) + 1
    OBVIOUS
  <2> QED BY <1>1, <2>1 DEF Act
<1>2. ASSUME NEW f \in File, SnapshotAbsent(t, f) PROVE Bounded'
  <2>1. Len(Append(actions[t], Unlink(f))) = Len(actions[t]) + 1 OBVIOUS
  <2> QED BY <1>2, <2>1 DEF SnapshotAbsent
<1>3. CASE SnapshotCopied(t) BY <1>3 DEF SnapshotCopied
<1>4. CASE RestoreCopy(t) BY <1>4 DEF RestoreCopy
<1>5. CASE RestoreUnlink(t) BY <1>5 DEF RestoreUnlink
<1>6. ASSUME NEW f \in File, SnapshotStart(t, f) PROVE Bounded'
  BY <1>6 DEF SnapshotStart
<1>7. CASE UndoSucceeds(t) BY <1>7 DEF UndoSucceeds
<1>8. CASE UndoFails(t) BY <1>8 DEF UndoFails
<1>9. CASE UndoSwallowed(t) BY <1>9 DEF UndoSwallowed
<1>10. CASE Start(t) \/ Throw(t) \/ SnapshotFails(t) \/ Write(t) \/ WriteFails(t)
  BY <1>10, SMTT(30) DEF Start, Throw, SnapshotFails, Write, WriteFails
<1>11. CASE CommitStart(t) \/ CommitUnlink(t) \/ CommitEnd(t)
  BY <1>11 DEF CommitStart, CommitUnlink, CommitEnd
<1>12. CASE UndoEnd(t) \/ RestoreFails(t) \/ RollbackEnd(t)
  BY <1>12 DEF UndoEnd, RestoreFails, RollbackEnd
<1> QED
  BY <1>1, <1>2, <1>3, <1>4, <1>5, <1>6, <1>7, <1>8, <1>9, <1>10, <1>11, <1>12
  DEF Operate

LEMMA TypeCrash == ASSUME TypeOK, Bounded, Crash PROVE TypeOK' /\ Bounded'
BY DEF TypeOK, Bounded, Crash, Labels, Open, Ended, txVars

LEMMA TypeInit == ASSUME Init PROVE TypeOK /\ Bounded
BY DEF Init, TypeOK, Bounded, Labels, Stored

LEMMA TypeNext == TypeOK /\ Bounded /\ [Next]_vars => TypeOK' /\ Bounded'
<1> SUFFICES ASSUME TypeOK, Bounded, [Next]_vars PROVE TypeOK' /\ Bounded' OBVIOUS
<1>1. CASE Next BY <1>1, TypeStep, BoundedStep, TypeCrash DEF Next
<1>2. CASE UNCHANGED vars BY <1>2 DEF vars, txVars, TypeOK, Bounded
<1> QED BY <1>1, <1>2

\* The variables have the types TypeOK gives them.
THEOREM TypeCorrect == Spec => []TypeOK
BY TypeInit, TypeNext, PTL DEF Spec

-----------------------------------------------------------------------------
(* A step of one operation leaves the others and their files alone.        *)

SameTx(u) ==
  /\ pc'[u] = pc[u] /\ cur'[u] = cur[u] /\ actions'[u] = actions[u]
  /\ snapshots'[u] = snapshots[u] /\ kept'[u] = kept[u] /\ left'[u] = left[u]
  /\ next'[u] = next[u] /\ errors'[u] = errors[u] /\ silent'[u] = silent[u]
  /\ done'[u] = done[u] /\ acted'[u] = acted[u] /\ before'[u] = before[u]
  /\ written'[u] = written[u]

LEMMA OthersUnchanged ==
  ASSUME TypeOK, NEW t \in Tx, Operate(t), NEW u \in Tx \ {t} PROVE SameTx(u)
<1> USE DEF TypeOK, SameTx, txVars, Goto, Fail
<1>1. CASE Start(t) \/ Act(t) \/ Throw(t) BY <1>1 DEF Start, Act, Throw
<1>2. ASSUME NEW f \in File, SnapshotAbsent(t, f) \/ SnapshotStart(t, f)
      PROVE SameTx(u)
  BY <1>2 DEF SnapshotAbsent, SnapshotStart
<1>3. CASE SnapshotCopied(t) \/ SnapshotFails(t) \/ Write(t) \/ WriteFails(t)
  <2>1. CASE SnapshotCopied(t) BY <2>1 DEF SnapshotCopied
  <2>2. CASE SnapshotFails(t) BY <2>2 DEF SnapshotFails
  <2>3. CASE Write(t) BY <2>3 DEF Write
  <2>4. CASE WriteFails(t) BY <2>4 DEF WriteFails
  <2> QED BY <1>3, <2>1, <2>2, <2>3, <2>4
<1>4. CASE CommitStart(t) \/ CommitUnlink(t) \/ CommitEnd(t)
  <2>1. CASE CommitStart(t) BY <2>1 DEF CommitStart
  <2>2. CASE CommitUnlink(t) BY <2>2 DEF CommitUnlink
  <2>3. CASE CommitEnd(t) BY <2>3 DEF CommitEnd
  <2> QED BY <1>4, <2>1, <2>2, <2>3
<1>5. CASE UndoSucceeds(t) \/ UndoFails(t) \/ UndoSwallowed(t) \/ UndoEnd(t)
  <2>1. CASE UndoSucceeds(t) BY <2>1 DEF UndoSucceeds
  <2>2. CASE UndoFails(t) BY <2>2 DEF UndoFails
  <2>3. CASE UndoSwallowed(t) BY <2>3 DEF UndoSwallowed
  <2>4. CASE UndoEnd(t) BY <2>4 DEF UndoEnd
  <2> QED BY <1>5, <2>1, <2>2, <2>3, <2>4
<1>6. CASE RestoreCopy(t) \/ RestoreFails(t) \/ RestoreUnlink(t) \/ RollbackEnd(t)
  <2>1. CASE RestoreCopy(t) BY <2>1 DEF RestoreCopy
  <2>2. CASE RestoreFails(t) BY <2>2 DEF RestoreFails
  <2>3. CASE RestoreUnlink(t) BY <2>3 DEF RestoreUnlink
  <2>4. CASE RollbackEnd(t) BY <2>4 DEF RollbackEnd
  <2> QED BY <1>6, <2>1, <2>2, <2>3, <2>4
<1> QED BY <1>1, <1>2, <1>3, <1>4, <1>5, <1>6 DEF Operate

LEMMA OnlyOwnFiles ==
  ASSUME TypeOK, Bounded, NEW t \in Tx, UndoesOwn(t), Operate(t),
         NEW g \in File, g \notin FilesOf[t]
  PROVE  disk'[g] = disk[g]
<1> USE DEF TypeOK, txVars
<1>1. CASE Write(t) \/ WriteFails(t)
  <2>1. cur[t] \in FilesOf[t] BY <1>1 DEF Write, WriteFails, UndoesOwn
  <2> QED BY <1>1, <2>1 DEF Write, WriteFails
<1>2. CASE UndoSucceeds(t)
  <2> DEFINE a == actions[t][left[t]]
  <2>1. left[t] \in 1..Len(actions[t]) BY <1>2 DEF UndoSucceeds, Bounded
  <2>2. a \in Undos \cup Unlinks BY <2>1
  <2>3. a.kind = "unlink" => a.file \in File /\ a = Unlink(a.file)
    BY <2>2 DEF Undos, Unlinks, Unlink
  <2>4. a.kind = "unlink" => a.file \in FilesOf[t] BY <2>1, <2>3 DEF UndoesOwn
  <2> QED BY <1>2, <2>4 DEF UndoSucceeds
<1>3. CASE RestoreCopy(t) \/ RestoreFails(t)
  <2>1. snapshots[t][next[t]].file \in FilesOf[t]
    BY <1>3 DEF RestoreCopy, RestoreFails, UndoesOwn
  <2> QED BY <1>3, <2>1 DEF RestoreCopy, RestoreFails
<1>4. CASE UNCHANGED disk BY <1>4
<1> QED
  BY <1>1, <1>2, <1>3, <1>4
  DEF Operate, Start, Act, Throw, SnapshotAbsent, SnapshotStart, SnapshotCopied,
      SnapshotFails, CommitStart, CommitUnlink, CommitEnd, UndoFails,
      UndoSwallowed, UndoEnd, RestoreUnlink, RollbackEnd

LEMMA OthersKeepInv ==
  ASSUME TypeOK, Bounded, NEW t \in Tx, UndoesOwn(t), Operate(t),
         NEW u \in Tx \ {t}, TxInv(u)
  PROVE  TxInv(u)'
<1>1. SameTx(u) BY OthersUnchanged
<1>2. Touched(u)' = Touched(u) BY <1>1 DEF SameTx, Touched
<1>3. Undisturbed(u) => \A f \in Touched(u) : disk'[f] = disk[f]
  BY OnlyOwnFiles DEF Undisturbed, TxInv, UndoesOwn, Touched
<1>4. IdleIsFresh(u)' /\ UndoesOwn(u)' /\ BackupsKept(u)' /\ EffectsCovered(u)'
  BY <1>1, <1>2
  DEF SameTx, TxInv, IdleIsFresh, UndoesOwn, BackupsKept, EffectsCovered
<1>5. ASSUME Undisturbed(u)
      PROVE  NewFilesCovered(u)' /\ OldFilesCovered(u)'
  BY <1>1, <1>3, <1>5
  DEF SameTx, TxInv, NewFilesCovered, OldFilesCovered, Touched
<1>6. ASSUME Undisturbed(u)
      PROVE  WritesInPlace(u)' /\ LostCovered(u)'
  BY <1>1, <1>2, <1>3, <1>6 DEF SameTx, TxInv, WritesInPlace, LostCovered
<1> QED BY <1>4, <1>5, <1>6 DEF TxInv, Undisturbed

-----------------------------------------------------------------------------
(* A step of an operation keeps its own part of the invariant.             *)

LEMMA OwnIdle ==
  ASSUME TypeOK, NEW t \in Tx, Operate(t) PROVE IdleIsFresh(t)'
BY DEF TypeOK, txVars, Goto, Fail, IdleIsFresh, Operate, Start, Act, Throw,
       SnapshotAbsent, SnapshotStart, SnapshotCopied, SnapshotFails, Write,
       WriteFails, CommitStart, CommitUnlink, CommitEnd, UndoSucceeds, UndoFails,
       UndoSwallowed, UndoEnd, RestoreCopy, RestoreFails, RestoreUnlink,
       RollbackEnd

LEMMA OwnUndoes ==
  ASSUME TypeOK, Bounded, NEW t \in Tx, Operate(t), UndoesOwn(t)
  PROVE  UndoesOwn(t)'
<1> USE DEF TypeOK, txVars, Goto, Fail, UndoesOwn, Touched
<1>1. CASE Act(t)
  <2>1. \A f \in File, n \in Nat : Undo(n) # Unlink(f) BY DEF Undo, Unlink
  <2>2. \A i \in 1..Len(actions'[t]) : \/ i \in 1..Len(actions[t])
                                          /\ actions'[t][i] = actions[t][i]
                                       \/ actions'[t][i] = Undo(acted[t] + 1)
    <3>1. acted[t] + 1 \in 1..MaxEffects BY <1>1 DEF Act
    <3>2. actions'[t] = Append(actions[t], Undo(acted[t] + 1)) BY <1>1 DEF Act
    <3> QED BY <3>1, <3>2, AppendElements, ActionTypes
  <2>3. acted[t] + 1 \in Nat OBVIOUS
  <2>4. UNCHANGED <<snapshots, before, cur, pc>> BY <1>1 DEF Act
  <2> QED BY <2>1, <2>2, <2>3, <2>4, ZenonT(40)
<1>2. ASSUME NEW g \in File, SnapshotAbsent(t, g) PROVE UndoesOwn(t)'
  <2>1. \A f \in File : Unlink(g) = Unlink(f) => f = g BY DEF Unlink
  <2>2. \A i \in 1..Len(actions'[t]) : \/ i \in 1..Len(actions[t])
                                          /\ actions'[t][i] = actions[t][i]
                                       \/ actions'[t][i] = Unlink(g)
    <3>1. actions'[t] = Append(actions[t], Unlink(g)) BY <1>2 DEF SnapshotAbsent
    <3> QED BY <3>1, AppendElements, ActionTypes
  <2>3. before'[t][g] = Absent /\ g \in FilesOf[t] /\ g \notin Touched(t)
        /\ cur'[t] = g
    BY <1>2 DEF SnapshotAbsent
  <2>4. \A f \in File \ {g} : before'[t][f] = before[t][f]
    BY <1>2 DEF SnapshotAbsent
  <2>9. before[t][g] = Unseen BY <2>3
  <2>10. \A i \in 1..Len(snapshots[t]) :
           before[t][snapshots[t][i].file] \in Content
    BY SnapshotTypes
  <2>5. \A i \in 1..Len(snapshots[t]) : snapshots[t][i].file # g
    BY <2>9, <2>10
  <2>6. pc'[t] = "writing" /\ snapshots' = snapshots BY <1>2 DEF SnapshotAbsent
  <2>7. \A i \in 1..Len(snapshots[t]) : snapshots[t][i].file \in File
    BY SnapshotTypes
  <2>8. \A i \in 1..Len(actions'[t]) : \A f \in File :
          actions'[t][i] = Unlink(f) => f \in FilesOf[t] /\ before'[t][f] = Absent
    <3> SUFFICES ASSUME NEW i \in 1..Len(actions'[t]), NEW f \in File,
                        actions'[t][i] = Unlink(f)
                 PROVE  f \in FilesOf[t] /\ before'[t][f] = Absent
      OBVIOUS
    <3>1. CASE actions'[t][i] = Unlink(g) BY <3>1, <2>1, <2>3
    <3>2. CASE i \in 1..Len(actions[t]) /\ actions'[t][i] = actions[t][i]
      <4>1. f \in FilesOf[t] /\ before[t][f] = Absent BY <3>2
      <4>2. f # g BY <4>1, <2>9
      <4> QED BY <4>1, <4>2, <2>4
    <3> QED BY <3>1, <3>2, <2>2
  <2> QED BY <2>3, <2>4, <2>5, <2>6, <2>7, <2>8
<1>3. ASSUME NEW g \in File, SnapshotStart(t, g) PROVE UndoesOwn(t)'
  BY <1>3 DEF SnapshotStart
<1>4. CASE SnapshotCopied(t)
  <2> DEFINE g == cur[t]
  <2>1. g \in FilesOf[t] /\ before[t][g] = Unseen /\ disk[g] \in Content
    BY <1>4 DEF SnapshotCopied, Stored
  <2>2. \A i \in 1..Len(snapshots'[t]) :
          \/ i \in 1..Len(snapshots[t]) /\ snapshots'[t][i] = snapshots[t][i]
          \/ snapshots'[t][i] = [file |-> g, content |-> disk[g]]
    <3>1. [file |-> g, content |-> disk[g]] \in Snapshot BY <2>1 DEF Snapshot
    <3>2. snapshots'[t] = Append(snapshots[t], [file |-> g, content |-> disk[g]])
      BY <1>4 DEF SnapshotCopied
    <3> QED BY <3>1, <3>2, AppendElements
  <2>3. before'[t][g] = disk[g] /\ \A f \in File \ {g} : before'[t][f] = before[t][f]
    BY <1>4 DEF SnapshotCopied
  <2>4. \A i \in 1..Len(snapshots[t]) :
          snapshots[t][i].file # g /\ snapshots[t][i].file \in File
    BY <2>1, SnapshotTypes, ZenonT(40)
  <2>5. pc'[t] = "writing" /\ actions' = actions /\ cur' = cur
    BY <1>4 DEF SnapshotCopied
  <2>6. \A i \in 1..Len(snapshots'[t]) :
          /\ snapshots'[t][i].file \in FilesOf[t]
          /\ before'[t][snapshots'[t][i].file] = snapshots'[t][i].content
    <3> SUFFICES ASSUME NEW i \in 1..Len(snapshots'[t])
                 PROVE  /\ snapshots'[t][i].file \in FilesOf[t]
                        /\ before'[t][snapshots'[t][i].file] = snapshots'[t][i].content
      OBVIOUS
    <3>1. CASE i \in 1..Len(snapshots[t]) /\ snapshots'[t][i] = snapshots[t][i]
      <4>1. /\ snapshots[t][i].file \in FilesOf[t]
            /\ before[t][snapshots[t][i].file] = snapshots[t][i].content
        BY <3>1
      <4>2. before'[t][snapshots[t][i].file] = before[t][snapshots[t][i].file]
        BY <3>1, <2>3, <2>4
      <4> QED BY <3>1, <4>1, <4>2
    <3>2. CASE snapshots'[t][i] = [file |-> g, content |-> disk[g]]
      <4>1. snapshots'[t][i].file = g /\ snapshots'[t][i].content = disk[g] BY <3>2
      <4> QED BY <4>1, <2>1, <2>3
    <3> QED BY <3>1, <3>2, <2>2
  <2>7. \A i \in 1..Len(actions[t]) : \A f \in File :
          actions[t][i] = Unlink(f) => f # g
    BY <2>1
  <2> QED BY <2>1, <2>3, <2>5, <2>6, <2>7, ZenonT(40)
<1>5. CASE UNCHANGED <<actions, snapshots, before, cur>>
           /\ (pc'[t] \in {"copying", "writing"} => pc'[t] = pc[t])
  BY <1>5
<1> QED
  BY <1>1, <1>2, <1>3, <1>4, <1>5, ZenonT(40)
  DEF Operate, Start, Throw, SnapshotFails, Write, WriteFails, CommitStart,
      CommitUnlink, CommitEnd, UndoSucceeds, UndoFails, UndoSwallowed, UndoEnd,
      RestoreCopy, RestoreFails, RestoreUnlink, RollbackEnd

LEMMA OwnBackups ==
  ASSUME TypeOK, NEW t \in Tx, Operate(t), IdleIsFresh(t), BackupsKept(t)
  PROVE  BackupsKept(t)'
<1> USE DEF TypeOK, txVars, Goto, Fail, BackupsKept, Forward
<1>1. CASE Start(t)
  BY <1>1 DEF Start, IdleIsFresh
<1>2. CASE SnapshotCopied(t)
  <2>1. [file |-> cur[t], content |-> disk[cur[t]]] \in Snapshot
    BY <1>2 DEF SnapshotCopied, Snapshot, Stored
  <2>2. Len(snapshots'[t]) = Len(snapshots[t]) + 1
    BY <1>2, <2>1, AppendElements DEF SnapshotCopied
  <2>3. pc[t] = "copying" /\ pc'[t] = "writing"
        /\ kept'[t] = kept[t] \cup {Len(snapshots[t]) + 1}
    BY <1>2 DEF SnapshotCopied
  <2> QED BY <2>2, <2>3
<1>3. CASE CommitStart(t) \/ CommitUnlink(t) \/ CommitEnd(t)
  BY <1>3 DEF CommitStart, CommitUnlink, CommitEnd
<1>4. CASE UndoEnd(t) BY <1>4 DEF UndoEnd
<1>5. CASE RestoreCopy(t) BY <1>5 DEF RestoreCopy
<1>6. CASE RestoreFails(t) BY <1>6 DEF RestoreFails
<1>7. CASE RestoreUnlink(t)
  <2>1. pc[t] = "unbacking" /\ pc'[t] = "restoring" /\ next'[t] = next[t] + 1
        /\ snapshots' = snapshots
    BY <1>7 DEF RestoreUnlink
  <2>3. next[t] \in Nat /\ Len(snapshots[t]) \in Nat OBVIOUS
  <2>4. \A i \in 1..Len(snapshots[t]) : i >= next[t] => i \in kept[t] BY <2>1
  <2>5. \A i \in 1..Len(snapshots[t]) : i >= next[t] + 1 => i >= next[t] /\ i # next[t]
    BY <2>3
  <2>2. \A i \in kept[t] : i # next[t] => i \in kept'[t] BY <1>7 DEF RestoreUnlink
  <2> QED BY <2>1, <2>2, <2>4, <2>5
<1>8. CASE RollbackEnd(t) BY <1>8 DEF RollbackEnd
<1>9. CASE UNCHANGED <<snapshots, kept>>
           /\ pc[t] \in Forward \cup {"rolling"} /\ pc'[t] \in Forward \cup {"rolling"}
  BY <1>9
<1> QED
  BY <1>1, <1>2, <1>3, <1>4, <1>5, <1>6, <1>7, <1>8, <1>9
  DEF Operate, Act, Throw, SnapshotAbsent, SnapshotStart, SnapshotFails, Write,
      WriteFails, UndoSucceeds, UndoFails, UndoSwallowed

LEMMA OwnEffects ==
  ASSUME TypeOK, Bounded, NEW t \in Tx, Operate(t), IdleIsFresh(t),
         EffectsCovered(t)
  PROVE  EffectsCovered(t)'
<1> USE DEF TypeOK, txVars, Goto, Fail, EffectsCovered, Forward, Backward
<1>1. CASE Start(t) BY <1>1 DEF Start, IdleIsFresh
<1>2. CASE Act(t)
  <2> DEFINE n == acted[t] + 1
  <2>1. /\ n \in 1..MaxEffects /\ pc' = pc /\ pc[t] = "running"
        /\ actions'[t] = Append(actions[t], Undo(n))
        /\ done'[t] = done[t] \cup {n} /\ acted'[t] = n
    BY <1>2 DEF Act
  <2>2. /\ Len(actions'[t]) = Len(actions[t]) + 1
        /\ actions'[t][Len(actions[t]) + 1] = Undo(n)
        /\ \A i \in 1..Len(actions[t]) : actions'[t][i] = actions[t][i]
    BY <2>1, AppendElements, ActionTypes
  <2>3. done'[t] = 1..acted'[t] BY <2>1
  <2>4. \A m \in done'[t] : \E i \in 1..Len(actions'[t]) : actions'[t][i] = Undo(m)
    <3> SUFFICES ASSUME NEW m \in done'[t]
                 PROVE  \E i \in 1..Len(actions'[t]) : actions'[t][i] = Undo(m)
      OBVIOUS
    <3>1. CASE m = n
      <4>1. Len(actions[t]) + 1 \in 1..Len(actions'[t]) BY <2>2
      <4> QED BY <4>1, <2>2, <3>1
    <3>2. CASE m \in done[t]
      <4>1. PICK i \in 1..Len(actions[t]) : actions[t][i] = Undo(m) BY <3>2, <2>1
      <4>2. i \in 1..Len(actions'[t]) BY <2>2
      <4> QED BY <4>1, <4>2, <2>2
    <3> QED BY <3>1, <3>2, <2>1
  <2> QED BY <2>1, <2>3, <2>4
<1>3. CASE Throw(t) \/ SnapshotFails(t) \/ WriteFails(t)
  BY <1>3 DEF Throw, SnapshotFails, WriteFails
<1>4. ASSUME NEW f \in File, SnapshotAbsent(t, f) PROVE EffectsCovered(t)'
  <2>1. /\ Len(actions'[t]) = Len(actions[t]) + 1
        /\ \A i \in 1..Len(actions[t]) : actions'[t][i] = actions[t][i]
    <3>1. actions'[t] = Append(actions[t], Unlink(f)) BY <1>4 DEF SnapshotAbsent
    <3> QED BY <3>1, AppendElements, ActionTypes
  <2>2. pc[t] = "running" /\ pc'[t] = "writing" /\ UNCHANGED <<done, acted>>
    BY <1>4 DEF SnapshotAbsent
  <2>3. ASSUME NEW m \in done[t]
        PROVE  \E i \in 1..Len(actions'[t]) : actions'[t][i] = Undo(m)
    <3>1. PICK i \in 1..Len(actions[t]) : actions[t][i] = Undo(m) BY <2>2
    <3>2. i \in 1..Len(actions'[t]) BY <2>1
    <3> QED BY <3>1, <3>2, <2>1
  <2> QED BY <2>2, <2>3
<1>5. ASSUME NEW f \in File, SnapshotStart(t, f) PROVE EffectsCovered(t)'
  BY <1>5 DEF SnapshotStart
<1>6. CASE SnapshotCopied(t) \/ Write(t) BY <1>6 DEF SnapshotCopied, Write
<1>7. CASE CommitStart(t) \/ CommitUnlink(t) \/ CommitEnd(t)
  BY <1>7 DEF CommitStart, CommitUnlink, CommitEnd
<1>8. CASE UndoSucceeds(t)
  <2> DEFINE a == actions[t][left[t]]
  <2>1. /\ pc[t] = "rolling" /\ pc'[t] = "rolling" /\ left[t] > 0
        /\ left'[t] = left[t] - 1
        /\ UNCHANGED <<actions, errors, silent>>
    BY <1>8 DEF UndoSucceeds
  <2>2. a \in Undos \cup Unlinks
    <3>1. left[t] \in 1..Len(actions[t]) BY <2>1 DEF Bounded
    <3> QED BY <3>1
  <2>3. /\ a.kind = "undo" => done'[t] = done[t] \ {a.effect}
        /\ a.kind = "unlink" => done' = done
    BY <1>8, <2>2 DEF UndoSucceeds, Undos, Unlinks
  <2>4. \A n \in done'[t] : n \in done[t] /\ a # Undo(n)
    <3> SUFFICES ASSUME NEW n \in done'[t] PROVE n \in done[t] /\ a # Undo(n)
      OBVIOUS
    <3>1. Undo(n).kind = "undo" /\ Undo(n).effect = n BY DEF Undo
    <3>2. CASE a.kind = "undo" BY <3>1, <3>2, <2>3
    <3>3. CASE a.kind = "unlink" BY <3>1, <3>3, <2>3
    <3> QED BY <3>2, <3>3, <2>2 DEF Undos, Unlinks
  <2>5. \A i \in 1..left[t] : i \in 1..left'[t] \/ i = left[t] BY <2>1
  <2> QED BY <2>1, <2>4, <2>5
<1>9. CASE UndoFails(t)
  <2>1. /\ pc[t] = "rolling" /\ pc'[t] = "rolling" /\ left[t] > 0
        /\ left'[t] = left[t] - 1
        /\ errors'[t] = errors[t] \cup {actions[t][left[t]]}
        /\ UNCHANGED <<actions, silent, done>>
    BY <1>9 DEF UndoFails
  <2>2. \A i \in 1..left[t] : i \in 1..left'[t] \/ i = left[t] BY <2>1
  <2> QED BY <2>1, <2>2
<1>10. CASE UndoSwallowed(t)
  <2>1. /\ pc[t] = "rolling" /\ pc'[t] = "rolling" /\ left[t] > 0
        /\ left'[t] = left[t] - 1
        /\ silent'[t] = silent[t] \cup {actions[t][left[t]]}
        /\ UNCHANGED <<actions, errors, done>>
    BY <1>10 DEF UndoSwallowed
  <2>2. \A i \in 1..left[t] : i \in 1..left'[t] \/ i = left[t] BY <2>1
  <2> QED BY <2>1, <2>2
<1>11. CASE UndoEnd(t) BY <1>11 DEF UndoEnd
<1>12. CASE RestoreCopy(t) \/ RollbackEnd(t) BY <1>12 DEF RestoreCopy, RollbackEnd
<1>13. CASE RestoreFails(t) \/ RestoreUnlink(t)
  <2>1. /\ pc[t] \in Backward /\ pc'[t] \in Backward /\ errors[t] \subseteq errors'[t]
        /\ UNCHANGED <<silent, done>>
    BY <1>13 DEF RestoreFails, RestoreUnlink
  <2> QED BY <2>1
<1> QED
  BY <1>1, <1>2, <1>3, <1>4, <1>5, <1>6, <1>7, <1>8, <1>9, <1>10, <1>11, <1>12,
     <1>13 DEF Operate

LEMMA OwnNewFiles ==
  ASSUME TypeOK, Bounded, NEW t \in Tx, Operate(t), IdleIsFresh(t), UndoesOwn(t),
         NewFilesCovered(t)
  PROVE  NewFilesCovered(t)'
<1> SUFFICES ASSUME NEW f \in File, before'[t][f] = Absent
             PROVE  /\ pc'[t] \in Forward =>
                         \E i \in 1..Len(actions'[t]) : actions'[t][i] = Unlink(f)
                    /\ pc'[t] = "rolling" =>
                         \/ \E i \in 1..left'[t] : actions'[t][i] = Unlink(f)
                         \/ disk'[f] = Absent
                         \/ Unlink(f) \in errors'[t]
                    /\ pc'[t] \in Backward =>
                         disk'[f] = Absent \/ Unlink(f) \in errors'[t]
  BY DEF NewFilesCovered
<1>old. before[t][f] = Absent =>
          /\ pc[t] \in Forward =>
               \E i \in 1..Len(actions[t]) : actions[t][i] = Unlink(f)
          /\ pc[t] = "rolling" =>
               \/ \E i \in 1..left[t] : actions[t][i] = Unlink(f)
               \/ disk[f] = Absent
               \/ Unlink(f) \in errors[t]
          /\ pc[t] \in Backward => disk[f] = Absent \/ Unlink(f) \in errors[t]
  BY DEF NewFilesCovered
<1> USE DEF TypeOK, txVars, Goto, Fail, Forward, Backward
<1>1. CASE Start(t) BY <1>1 DEF Start, IdleIsFresh
<1>2. CASE Act(t)
  <2>1. /\ Len(actions'[t]) = Len(actions[t]) + 1
        /\ \A i \in 1..Len(actions[t]) : actions'[t][i] = actions[t][i]
    <3>1. actions'[t] = Append(actions[t], Undo(acted[t] + 1)) BY <1>2 DEF Act
    <3>2. acted[t] + 1 \in 1..MaxEffects BY <1>2 DEF Act
    <3> QED BY <3>1, <3>2, AppendElements, ActionTypes
  <2>2. pc[t] = "running" /\ pc'[t] = "running" /\ before' = before
    BY <1>2 DEF Act
  <2>3. PICK i \in 1..Len(actions[t]) : actions[t][i] = Unlink(f) BY <1>old, <2>2
  <2>4. i \in 1..Len(actions'[t]) BY <2>1
  <2> QED BY <2>1, <2>2, <2>3, <2>4
<1>3. ASSUME NEW g \in File, SnapshotAbsent(t, g)
      PROVE  /\ pc'[t] = "writing"
             /\ \E i \in 1..Len(actions'[t]) : actions'[t][i] = Unlink(f)
  <2>1. /\ Len(actions'[t]) = Len(actions[t]) + 1
        /\ actions'[t][Len(actions[t]) + 1] = Unlink(g)
        /\ \A i \in 1..Len(actions[t]) : actions'[t][i] = actions[t][i]
    <3>1. actions'[t] = Append(actions[t], Unlink(g)) BY <1>3 DEF SnapshotAbsent
    <3> QED BY <3>1, AppendElements, ActionTypes
  <2>2. pc[t] = "running" /\ pc'[t] = "writing"
        /\ (f # g => before'[t][f] = before[t][f])
    BY <1>3 DEF SnapshotAbsent
  <2>3. CASE f = g
    <3>1. Len(actions[t]) + 1 \in 1..Len(actions'[t]) BY <2>1
    <3> QED BY <3>1, <2>1, <2>2, <2>3
  <2>4. CASE f # g
    <3>1. PICK i \in 1..Len(actions[t]) : actions[t][i] = Unlink(f)
      BY <1>old, <2>2, <2>4
    <3>2. i \in 1..Len(actions'[t]) BY <2>1
    <3> QED BY <3>1, <3>2, <2>1, <2>2
  <2> QED BY <2>3, <2>4
<1>4. ASSUME NEW g \in File, SnapshotStart(t, g)
      PROVE  /\ pc[t] = "running" /\ pc'[t] = "copying"
             /\ UNCHANGED <<actions, before>>
  BY <1>4 DEF SnapshotStart
<1>5. CASE SnapshotCopied(t)
  <2>1. before'[t][f] = before[t][f]
    BY <1>5 DEF SnapshotCopied
  <2> QED BY <1>5, <2>1, <1>old DEF SnapshotCopied
<1>6. CASE Throw(t) \/ SnapshotFails(t) \/ WriteFails(t)
  BY <1>6, <1>old DEF Throw, SnapshotFails, WriteFails
<1>7. CASE Write(t) BY <1>7, <1>old DEF Write
<1>8. CASE CommitStart(t) \/ CommitUnlink(t) \/ CommitEnd(t)
  BY <1>8 DEF CommitStart, CommitUnlink, CommitEnd
<1>9. CASE UndoSucceeds(t)
  <2> DEFINE a == actions[t][left[t]]
  <2>1. /\ pc[t] = "rolling" /\ pc'[t] = "rolling" /\ left[t] > 0
        /\ left'[t] = left[t] - 1
        /\ UNCHANGED <<actions, errors, before>>
    BY <1>9 DEF UndoSucceeds
  <2>2. \A i \in 1..left[t] : i \in 1..left'[t] \/ i = left[t] BY <2>1
  <2>3. a = Unlink(f) => disk'[f] = Absent BY <1>9 DEF UndoSucceeds, Unlink
  <2>4. disk'[f] = disk[f] \/ disk'[f] = Absent BY <1>9 DEF UndoSucceeds
  <2> QED BY <1>old, <2>1, <2>2, <2>3, <2>4
<1>10. CASE UndoFails(t) \/ UndoSwallowed(t)
  <2>1. /\ pc[t] = "rolling" /\ pc'[t] = "rolling" /\ left[t] > 0
        /\ left'[t] = left[t] - 1 /\ errors[t] \subseteq errors'[t]
        /\ UNCHANGED <<actions, before, disk>>
    BY <1>10 DEF UndoFails, UndoSwallowed
  <2>2. \A i \in 1..left[t] : i \in 1..left'[t] \/ i = left[t] BY <2>1
  <2>3. actions[t][left[t]] = Unlink(f) => Unlink(f) \in errors'[t]
    BY <1>10 DEF UndoFails, UndoSwallowed, Unlink
  <2> QED BY <1>old, <2>1, <2>2, <2>3
<1>11. CASE UndoEnd(t) BY <1>11, <1>old DEF UndoEnd
<1>12. CASE RestoreCopy(t) \/ RestoreFails(t)
  <2>1. /\ pc[t] \in Backward /\ pc'[t] \in Backward /\ before' = before
        /\ errors[t] \subseteq errors'[t] /\ next[t] \in 1..Len(snapshots[t])
    BY <1>12 DEF RestoreCopy, RestoreFails
  <2>2. snapshots[t][next[t]].file # f
    <3>1. snapshots[t][next[t]].content \in Content BY <2>1, SnapshotTypes
    <3>2. before[t][snapshots[t][next[t]].file] = snapshots[t][next[t]].content
      BY <2>1 DEF UndoesOwn
    <3> QED BY <3>1, <3>2, <2>1
  <2>3. disk'[f] = disk[f] BY <1>12, <2>2 DEF RestoreCopy, RestoreFails
  <2> QED BY <1>old, <2>1, <2>3
<1>13. CASE RestoreUnlink(t) \/ RollbackEnd(t)
  <2>1. /\ pc[t] \in Backward /\ pc'[t] \in Backward
        /\ errors[t] \subseteq errors'[t] /\ UNCHANGED <<before, disk>>
    BY <1>13 DEF RestoreUnlink, RollbackEnd
  <2> QED BY <1>old, <2>1
<1> QED
  BY <1>1, <1>2, <1>3, <1>4, <1>5, <1>6, <1>7, <1>8, <1>9, <1>10, <1>11, <1>12,
     <1>13, <1>old DEF Operate

\* File f is among the snapshots of t from the k-th on.
Listed(t, f, k) == \E i \in k..Len(snapshots[t]) : snapshots[t][i].file = f
Settled(t, f)   == disk[f] = before[t][f] \/ Restore(f) \in errors[t]

LEMMA OwnOldFiles ==
  ASSUME TypeOK, Bounded, NEW t \in Tx, Operate(t), IdleIsFresh(t), UndoesOwn(t),
         OldFilesCovered(t)
  PROVE  OldFilesCovered(t)'
<1> SUFFICES ASSUME NEW f \in File, before'[t][f] \in Content
             PROVE  /\ pc'[t] \in Forward \cup {"rolling"} => Listed(t, f, 1)'
                    /\ pc'[t] = "restoring" =>
                         Listed(t, f, next[t])' \/ Settled(t, f)'
                    /\ pc'[t] = "unbacking" =>
                         Listed(t, f, next[t] + 1)' \/ Settled(t, f)'
                    /\ pc'[t] = "threw" => Settled(t, f)'
  BY DEF OldFilesCovered, Listed, Settled
<1>old. before[t][f] \in Content =>
          /\ pc[t] \in Forward \cup {"rolling"} => Listed(t, f, 1)
          /\ pc[t] = "restoring" => Listed(t, f, next[t]) \/ Settled(t, f)
          /\ pc[t] = "unbacking" => Listed(t, f, next[t] + 1) \/ Settled(t, f)
          /\ pc[t] = "threw" => Settled(t, f)
  BY DEF OldFilesCovered, Listed, Settled
<1> USE DEF TypeOK, txVars, Goto, Fail, Forward
<1>1. CASE Start(t) BY <1>1 DEF Start, IdleIsFresh
<1>2. CASE /\ pc[t] \in Forward \cup {"rolling"}
           /\ pc'[t] \in Forward \cup {"rolling"}
           /\ UNCHANGED <<snapshots, before>>
  <2>1. Listed(t, f, 1) BY <1>2, <1>old
  <2>2. Listed(t, f, 1)' BY <1>2, <2>1 DEF Listed
  <2> QED BY <1>2, <2>2
<1>3. ASSUME NEW g \in File, SnapshotAbsent(t, g)
      PROVE  pc'[t] = "writing" /\ Listed(t, f, 1)'
  <2>1. /\ pc[t] = "running" /\ pc'[t] = "writing" /\ snapshots' = snapshots
        /\ before'[t][f] = IF f = g THEN Absent ELSE before[t][f]
    BY <1>3 DEF SnapshotAbsent
  <2>2. f # g BY <2>1
  <2>3. Listed(t, f, 1) BY <2>1, <2>2, <1>old
  <2> QED BY <2>1, <2>3 DEF Listed
<1>4. CASE SnapshotCopied(t)
  <2> DEFINE g == cur[t]
             s == [file |-> g, content |-> disk[g]]
  <2>1. /\ pc[t] = "copying" /\ pc'[t] = "writing"
        /\ snapshots'[t] = Append(snapshots[t], s)
        /\ f # g => before'[t][f] = before[t][f]
    BY <1>4 DEF SnapshotCopied
  <2>2. s \in Snapshot BY <1>4 DEF SnapshotCopied, Snapshot, Stored
  <2>3. /\ Len(snapshots'[t]) = Len(snapshots[t]) + 1
        /\ snapshots'[t][Len(snapshots[t]) + 1] = s
        /\ \A i \in 1..Len(snapshots[t]) : snapshots'[t][i] = snapshots[t][i]
    <3> HIDE DEF s
    <3> QED BY <2>1, <2>2, AppendElements
  <2>4. CASE f = g
    <3>1. Len(snapshots[t]) + 1 \in 1..Len(snapshots'[t]) BY <2>3
    <3>2. snapshots'[t][Len(snapshots[t]) + 1].file = f BY <2>3, <2>4
    <3> QED BY <3>1, <3>2, <2>1 DEF Listed
  <2>5. CASE f # g
    <3>1. Listed(t, f, 1) BY <2>1, <2>5, <1>old
    <3>2. PICK i \in 1..Len(snapshots[t]) : snapshots[t][i].file = f
      BY <3>1 DEF Listed
    <3>3. i \in 1..Len(snapshots'[t]) BY <2>3
    <3> QED BY <3>2, <3>3, <2>1, <2>3 DEF Listed
  <2> QED BY <2>4, <2>5
<1>5. CASE CommitStart(t) \/ CommitUnlink(t) \/ CommitEnd(t)
  BY <1>5 DEF CommitStart, CommitUnlink, CommitEnd
<1>6. CASE UndoEnd(t)
  <2>1. /\ pc[t] = "rolling" /\ pc'[t] = "restoring" /\ next'[t] = 1
        /\ UNCHANGED <<snapshots, before>>
    BY <1>6 DEF UndoEnd
  <2>2. Listed(t, f, 1) BY <2>1, <1>old
  <2> QED BY <2>1, <2>2 DEF Listed
<1>7. CASE RestoreCopy(t) \/ RestoreFails(t)
  <2> DEFINE s == snapshots[t][next[t]]
  <2>1. /\ pc[t] = "restoring" /\ next[t] \in 1..Len(snapshots[t])
        /\ UNCHANGED <<snapshots, before>>
        /\ errors[t] \subseteq errors'[t]
        /\ \/ pc'[t] = "unbacking" /\ next'[t] = next[t]
              /\ disk' = [disk EXCEPT ![s.file] = s.content]
           \/ /\ pc'[t] = "restoring" /\ next'[t] = next[t] + 1
              /\ Restore(s.file) \in errors'[t]
              /\ \E c \in Stored : disk' = [disk EXCEPT ![s.file] = c]
    BY <1>7 DEF RestoreCopy, RestoreFails
  <2>2. s.file \in File /\ s.content = before[t][s.file]
    BY <2>1, SnapshotTypes DEF UndoesOwn
  <2>3. CASE f = s.file
    <3>1. Settled(t, f)' BY <2>1, <2>2, <2>3 DEF Settled
    <3> QED BY <2>1, <3>1
  <2>4. CASE f # s.file
    <3>1. Listed(t, f, next[t]) => Listed(t, f, next[t] + 1)
      BY <2>1, <2>4 DEF Listed
    <3>2. Settled(t, f) => Settled(t, f)' BY <2>1, <2>2, <2>4 DEF Settled
    <3>3. Listed(t, f, next[t] + 1) \/ Settled(t, f)' BY <3>1, <3>2, <2>1, <1>old
    <3> QED BY <2>1, <3>3 DEF Listed
  <2> QED BY <2>3, <2>4
<1>8. CASE RestoreUnlink(t)
  <2>1. /\ pc[t] = "unbacking" /\ pc'[t] = "restoring"
        /\ next'[t] = next[t] + 1
        /\ UNCHANGED <<snapshots, before, disk>>
        /\ errors[t] \subseteq errors'[t]
    BY <1>8 DEF RestoreUnlink
  <2>2. Listed(t, f, next[t] + 1) \/ Settled(t, f) BY <2>1, <1>old
  <2> QED BY <2>1, <2>2 DEF Listed, Settled
<1>9. CASE RollbackEnd(t)
  <2>1. /\ pc[t] = "restoring" /\ pc'[t] = "threw"
        /\ next[t] > Len(snapshots[t]) /\ UNCHANGED <<before, disk, errors>>
    BY <1>9 DEF RollbackEnd
  <2>2. ~ Listed(t, f, next[t]) BY <2>1 DEF Listed
  <2> QED BY <2>1, <2>2, <1>old DEF Settled
<1> QED
  BY <1>1, <1>2, <1>3, <1>4, <1>5, <1>6, <1>7, <1>8, <1>9
  DEF Operate, Act, Throw, SnapshotStart, SnapshotFails, Write, WriteFails,
      UndoSucceeds, UndoFails, UndoSwallowed

LEMMA OwnWrites ==
  ASSUME TypeOK, NEW t \in Tx, Operate(t), IdleIsFresh(t), UndoesOwn(t),
         WritesInPlace(t)
  PROVE  WritesInPlace(t)'
<1> USE DEF TypeOK, txVars, Goto, Fail, WritesInPlace, Touched
<1>1. CASE Start(t) BY <1>1 DEF Start, IdleIsFresh
<1>2. CASE Act(t) \/ Throw(t) BY <1>2 DEF Act, Throw
<1>3. ASSUME NEW g \in File, SnapshotAbsent(t, g) PROVE WritesInPlace(t)'
  BY <1>3 DEF SnapshotAbsent
<1>4. ASSUME NEW g \in File, SnapshotStart(t, g) PROVE WritesInPlace(t)'
  BY <1>4 DEF SnapshotStart
<1>5. CASE SnapshotCopied(t) BY <1>5 DEF SnapshotCopied
<1>6. CASE Write(t)
  <2>1. PICK c \in Content : /\ disk' = [disk EXCEPT ![cur[t]] = c]
                             /\ written' = [written EXCEPT ![t][cur[t]] = c]
    BY <1>6 DEF Write
  <2>2. pc[t] = "writing" /\ pc'[t] = "running" /\ before' = before
    BY <1>6 DEF Write
  <2>3. \A f \in Touched(t) : disk'[f] = written'[t][f] BY <2>1, <2>2
  <2> QED BY <2>2, <2>3
<1>7. CASE SnapshotFails(t) \/ WriteFails(t) BY <1>7 DEF SnapshotFails, WriteFails
<1>8. CASE CommitStart(t) \/ CommitUnlink(t) \/ CommitEnd(t)
  BY <1>8 DEF CommitStart, CommitUnlink, CommitEnd
<1>9. CASE UndoSucceeds(t) \/ UndoFails(t) \/ UndoSwallowed(t) \/ UndoEnd(t)
  BY <1>9 DEF UndoSucceeds, UndoFails, UndoSwallowed, UndoEnd
<1>10. CASE RestoreCopy(t) \/ RestoreFails(t) \/ RestoreUnlink(t) \/ RollbackEnd(t)
  BY <1>10 DEF RestoreCopy, RestoreFails, RestoreUnlink, RollbackEnd
<1> QED BY <1>1, <1>2, <1>3, <1>4, <1>5, <1>6, <1>7, <1>8, <1>9, <1>10 DEF Operate

LEMMA NotLost ==
  ASSUME TypeOK, NEW t \in Tx, Operate(t) PROVE LostCovered(t)'
BY DEF TypeOK, txVars, Goto, Fail, LostCovered, Operate, Start, Act, Throw,
       SnapshotAbsent, SnapshotStart, SnapshotCopied, SnapshotFails, Write,
       WriteFails, CommitStart, CommitUnlink, CommitEnd, UndoSucceeds, UndoFails,
       UndoSwallowed, UndoEnd, RestoreCopy, RestoreFails, RestoreUnlink,
       RollbackEnd

-----------------------------------------------------------------------------
(* A restart: what an interrupted operation still needs is on disk.        *)

LEMMA CrashCovers ==
  ASSUME TypeOK, NEW t \in Tx, TxInv(t), Undisturbed(t), pc[t] \in Open,
         pc[t] # "committing", NEW f \in Touched(t)
  PROVE  \/ before[t][f] \in {disk[f], Absent}
         \/ \E i \in kept[t] : snapshots[t][i] = [file |-> f, content |-> before[t][f]]
         \/ Restore(f) \in errors[t]
<1>1. f \in File /\ (before[t][f] = Absent \/ before[t][f] \in Content)
  BY DEF TypeOK, Touched, Stored
<1>2. SUFFICES ASSUME before[t][f] \in Content, disk[f] # before[t][f],
                      Restore(f) \notin errors[t]
               PROVE  \E i \in kept[t] :
                        snapshots[t][i] = [file |-> f, content |-> before[t][f]]
  BY <1>1
<1>3. PICK i \in 1..Len(snapshots[t]) : /\ snapshots[t][i].file = f
                                        /\ pc[t] \in {"restoring", "unbacking"} =>
                                             i >= next[t]
  BY <1>1, <1>2 DEF TxInv, OldFilesCovered, Open, Forward, TypeOK
<1>4. i \in kept[t] BY <1>3 DEF TxInv, BackupsKept, Open, Forward
<1>5. snapshots[t][i] \in Snapshot /\ snapshots[t][i].content = before[t][f]
  BY <1>3, SnapshotTypes DEF TxInv, UndoesOwn
<1>6. snapshots[t][i] = [file |-> f, content |-> before[t][f]]
  BY <1>3, <1>5 DEF Snapshot
<1> QED BY <1>4, <1>6

LEMMA CrashKeepsInv ==
  ASSUME TypeOK, Crash, NEW t \in Tx, TxInv(t) PROVE TxInv(t)'
<1> DEFINE Frozen == /\ UNCHANGED <<disk, cur, actions, snapshots, kept, left, next>>
                     /\ UNCHANGED <<errors, silent, done, acted, before, written>>
<1>1. Frozen /\ Touched(t)' = Touched(t) BY DEF Crash, txVars, Touched
<1>2. CASE pc[t] \in Open
  <2>1. pc'[t] \in {"torn", "lost"} BY <1>2 DEF Crash, TypeOK, Open
  <2>2. pc'[t] = "lost" => pc[t] # "committing" BY <1>2 DEF Crash, TypeOK, Open
  <2>3. Undisturbed(t) => LostCovered(t)'
    BY <1>1, <1>2, <2>2, CrashCovers DEF LostCovered
  <2>4. IdleIsFresh(t)' /\ UndoesOwn(t)' /\ BackupsKept(t)' /\ EffectsCovered(t)'
    BY <1>1, <2>1
    DEF TxInv, IdleIsFresh, UndoesOwn, BackupsKept, EffectsCovered, Forward, Backward
  <2>5. NewFilesCovered(t)' /\ OldFilesCovered(t)' /\ WritesInPlace(t)'
    BY <2>1 DEF NewFilesCovered, OldFilesCovered, WritesInPlace, Forward, Backward
  <2> QED BY <2>3, <2>4, <2>5 DEF TxInv, Undisturbed
<1>3. CASE pc[t] \notin Open
  <2>1. pc'[t] = pc[t] BY <1>3 DEF Crash, TypeOK, Open
  <2> QED
    BY <1>1, <2>1
    DEF TxInv, IdleIsFresh, UndoesOwn, BackupsKept, EffectsCovered,
        NewFilesCovered, OldFilesCovered, WritesInPlace, LostCovered, Undisturbed
<1> QED BY <1>2, <1>3

-----------------------------------------------------------------------------
(* The invariant and what it implies.                                      *)

LEMMA InvInit == Init => IInv
<1> SUFFICES ASSUME Init PROVE IInv OBVIOUS
<1>1. ASSUME NEW t \in Tx PROVE TxInv(t)
  BY DEF Init, TxInv, IdleIsFresh, UndoesOwn, BackupsKept, EffectsCovered,
         NewFilesCovered, OldFilesCovered, WritesInPlace, LostCovered, Touched,
         Forward, Backward
<1> QED BY <1>1, TypeInit DEF IInv

LEMMA InvNext == IInv /\ [Next]_vars => IInv'
<1> SUFFICES ASSUME IInv, [Next]_vars PROVE IInv' OBVIOUS
<1>1. TypeOK' /\ Bounded' BY TypeNext DEF IInv
<1>2. ASSUME NEW t \in Tx, Operate(t), NEW u \in Tx PROVE TxInv(u)'
  <2>1. CASE u = t
    <3>1. IdleIsFresh(t)' /\ UndoesOwn(t)' /\ BackupsKept(t)' /\ EffectsCovered(t)'
      BY <1>2, OwnIdle, OwnUndoes, OwnBackups, OwnEffects DEF IInv, TxInv
    <3>2. ASSUME Undisturbed(t)
          PROVE  NewFilesCovered(t)' /\ OldFilesCovered(t)' /\ WritesInPlace(t)'
                 /\ LostCovered(t)'
      BY <1>2, <3>2, OwnNewFiles, OwnOldFiles, OwnWrites, NotLost DEF IInv, TxInv
    <3> QED BY <2>1, <3>1, <3>2 DEF TxInv, Undisturbed
  <2>2. CASE u # t BY <1>2, <2>2, OthersKeepInv DEF IInv, TxInv
  <2> QED BY <2>1, <2>2
<1>3. ASSUME Crash, NEW u \in Tx PROVE TxInv(u)' BY <1>3, CrashKeepsInv DEF IInv
<1>4. ASSUME UNCHANGED vars, NEW u \in Tx PROVE TxInv(u)'
  BY <1>4
  DEF IInv, vars, txVars, TxInv, IdleIsFresh, UndoesOwn, BackupsKept,
      EffectsCovered, NewFilesCovered, OldFilesCovered, WritesInPlace,
      LostCovered, Undisturbed, Touched
<1> QED BY <1>1, <1>2, <1>3, <1>4 DEF IInv, Next

LEMMA InvariantHolds == Spec => []IInv
BY InvInit, InvNext, PTL DEF Spec

\* A rolled back operation leaves behind only what was reported or hidden.
THEOREM RollbackIsExact == Spec => []RollbackExact
<1>1. IInv => RollbackExact
  <2> SUFFICES ASSUME IInv, NEW t \in Tx, pc[t] = "threw"
               PROVE  /\ \A n \in done[t] : Undo(n) \in errors[t] \cup silent[t]
                      /\ Undisturbed(t) =>
                           \A f \in Touched(t) :
                             \/ disk[f] = before[t][f]
                             \/ {Unlink(f), Restore(f)} \cap errors[t] # {}
    BY DEF RollbackExact
  <2>1. \A n \in done[t] : Undo(n) \in errors[t] \cup silent[t]
    BY DEF IInv, TxInv, EffectsCovered, Backward
  <2>2. ASSUME Undisturbed(t), NEW f \in Touched(t)
        PROVE  disk[f] = before[t][f] \/ {Unlink(f), Restore(f)} \cap errors[t] # {}
    <3>1. f \in File /\ (before[t][f] = Absent \/ before[t][f] \in Content)
      BY DEF IInv, TypeOK, Touched, Stored
    <3>2. CASE before[t][f] = Absent
      BY <2>2, <3>1, <3>2 DEF IInv, TxInv, NewFilesCovered, Backward
    <3>3. CASE before[t][f] \in Content
      BY <2>2, <3>1, <3>3 DEF IInv, TxInv, OldFilesCovered
    <3> QED BY <3>1, <3>2, <3>3
  <2> QED BY <2>1, <2>2
<1> QED BY <1>1, InvariantHolds, PTL

\* An operation that returned has its effects and its writes.
THEOREM ReturnedStaysInPlace == Spec => []ReturnedIsKept
<1>1. IInv => ReturnedIsKept
  BY DEF IInv, TxInv, ReturnedIsKept, EffectsCovered, WritesInPlace
<1> QED BY <1>1, InvariantHolds, PTL

\* What an interrupted operation needs to be undone by hand is on disk.
THEOREM LostCanBeRecovered == Spec => []LostIsRecoverable
<1>1. IInv => LostIsRecoverable
  BY DEF IInv, TxInv, LostIsRecoverable, LostCovered
<1> QED BY <1>1, InvariantHolds, PTL

-----------------------------------------------------------------------------
(* The manager implements AtomicOperation for operations on files of their  *)
(* own: each step is one of the abstract operation, or a stutter.           *)

Apart == \A t \in Tx : Undisturbed(t)

\* What the abstract view shows: of a file, of the effects of an operation.
Shown(f)    == IF BehindOpen(f) = {} THEN disk[f] ELSE before[CHOOSE t \in BehindOpen(f) : TRUE][f]
Counting(t) == IF Outcome(t) = "open" THEN {} ELSE done[t]

Outcomes == [t \in Tx |-> Outcome(t)]
Store    == [f \in File |-> IF BehindOpen(f) = {} THEN disk[f]
                            ELSE before[CHOOSE t \in BehindOpen(f) : TRUE][f]]
Effects  == [t \in Tx |-> IF Outcome(t) = "open" THEN {} ELSE done[t]]

LEMMA OnlyOne ==
  ASSUME NEW S, NEW e, \A x \in S : x = e
  PROVE  (e \notin S => S = {}) /\ (S # {} => (CHOOSE x \in S : TRUE) = e)
OBVIOUS

LEMMA OutcomeOf ==
  ASSUME NEW t \in Tx
  PROVE  /\ pc[t] \in {"committing", "returned", "torn"} => Outcome(t) = "kept"
         /\ pc[t] = "threw" /\ errors[t] \cup silent[t] = {} => Outcome(t) = "reverted"
         /\ pc[t] = "threw" /\ errors[t] \cup silent[t] # {} => Outcome(t) = "broken"
         /\ pc[t] = "lost" => Outcome(t) = "broken"
         /\ pc[t] \notin {"committing", "returned", "torn", "threw", "lost"} => Outcome(t) = "open"
BY DEF Outcome

LEMMA OutcomeOfNext ==
  ASSUME NEW t \in Tx
  PROVE  /\ pc'[t] \in {"committing", "returned", "torn"} => Outcome(t)' = "kept"
         /\ pc'[t] = "threw" /\ errors'[t] \cup silent'[t] = {} => Outcome(t)' = "reverted"
         /\ pc'[t] = "threw" /\ errors'[t] \cup silent'[t] # {} => Outcome(t)' = "broken"
         /\ pc'[t] = "lost" => Outcome(t)' = "broken"
         /\ pc'[t] \notin {"committing", "returned", "torn", "threw", "lost"} => Outcome(t)' = "open"
BY DEF Outcome

\* A file of an operation is shown as it was before it as long as it is open.
LEMMA OwnShown ==
  ASSUME IInv, Apart, NEW t \in Tx, NEW f \in FilesOf[t]
  PROVE  Shown(f) = IF Outcome(t) = "open" /\ f \in Touched(t) THEN before[t][f] ELSE disk[f]
<1>1. \A u \in BehindOpen(f) : u = t
  BY DEF BehindOpen, Apart, Undisturbed, IInv, TxInv, UndoesOwn
<1>2. t \in BehindOpen(f) <=> Outcome(t) = "open" /\ f \in Touched(t)
  BY DEF BehindOpen
<1> QED BY <1>1, <1>2, OnlyOne DEF Shown

LEMMA OwnShownNext ==
  ASSUME IInv', Apart, NEW t \in Tx, NEW f \in FilesOf[t]
  PROVE  Shown(f)' = IF Outcome(t)' = "open" /\ f \in Touched(t)' THEN before'[t][f] ELSE disk'[f]
<1> DEFINE S == BehindOpen(f)'
<1>1. \A u \in S : u = t
  BY DEF BehindOpen, Apart, Undisturbed, IInv, TxInv, UndoesOwn
<1>2. t \in S <=> Outcome(t)' = "open" /\ f \in Touched(t)'
  BY DEF BehindOpen
<1>3. Shown(f)' = IF S = {} THEN disk'[f] ELSE before'[CHOOSE u \in S : TRUE][f]
  BY DEF Shown
<1> HIDE DEF S
<1> QED BY <1>1, <1>2, <1>3, OnlyOne

\* A file of no operation is shown as it is.
LEMMA FreeShown ==
  ASSUME IInv, IInv', NEW f \in File, \A t \in Tx : f \notin FilesOf[t]
  PROVE  Shown(f) = disk[f] /\ Shown(f)' = disk'[f]
<1>1. BehindOpen(f) = {}
  BY DEF BehindOpen, IInv, TxInv, UndoesOwn
<1>2. BehindOpen(f)' = {}
  BY DEF BehindOpen, IInv, TxInv, UndoesOwn
<1> QED BY <1>1, <1>2 DEF Shown

\* A step of an operation shows nothing new of the others.
LEMMA OthersShown ==
  ASSUME IInv, IInv', Apart, NEW t \in Tx, Operate(t)
  PROVE  /\ \A u \in Tx \ {t} : Outcome(u)' = Outcome(u) /\ Counting(u)' = Counting(u)
         /\ \A f \in File \ FilesOf[t] : Shown(f)' = Shown(f)
<1>1. TypeOK /\ Bounded /\ UndoesOwn(t)
  BY DEF IInv, TxInv
<1>2. ASSUME NEW u \in Tx \ {t} PROVE SameTx(u) /\ Outcome(u)' = Outcome(u)
  BY <1>1, OthersUnchanged DEF SameTx, Outcome
<1>3. ASSUME NEW u \in Tx \ {t} PROVE Counting(u)' = Counting(u)
  BY <1>2 DEF Counting, SameTx
<1>4. ASSUME NEW f \in File \ FilesOf[t] PROVE Shown(f)' = Shown(f)
  <2>1. disk'[f] = disk[f]
    BY <1>1, OnlyOwnFiles
  <2>2. CASE \A u \in Tx : f \notin FilesOf[u]
    BY <2>1, <2>2, FreeShown
  <2>3. ASSUME NEW u \in Tx, f \in FilesOf[u] PROVE Shown(f)' = Shown(f)
    <3>1. u # t
      BY <2>3
    <3>2. SameTx(u) /\ Outcome(u)' = Outcome(u)
      BY <1>2, <3>1
    <3>3. (f \in Touched(u)') = (f \in Touched(u)) /\ before'[u][f] = before[u][f]
      BY <3>2 DEF SameTx, Touched
    <3> QED BY <2>1, <2>3, <3>2, <3>3, OwnShown, OwnShownNext
  <2> QED BY <2>2, <2>3
<1> QED BY <1>2, <1>3, <1>4

\* While an operation goes on its files are shown as they were before it.
LEMMA OwnFileSteps ==
  ASSUME IInv, IInv', NEW t \in Tx, Operate(t), Outcome(t) = "open", Outcome(t)' = "open", NEW f \in FilesOf[t]
  PROVE  /\ f \in Touched(t) => f \in Touched(t)' /\ before'[t][f] = before[t][f]
         /\ f \notin Touched(t) => disk'[f] = disk[f] /\ (f \in Touched(t)' => before'[t][f] = disk[f])
<1> USE DEF TypeOK, txVars, Touched
<1>1. TypeOK /\ UndoesOwn(t) /\ f \in File /\ Bounded
  BY DEF IInv, TxInv
<1>2. CASE disk' = disk /\ before' = before
  BY <1>1, <1>2
<1>3. ASSUME NEW g \in File, SnapshotAbsent(t, g)
      PROVE  /\ f \in Touched(t) => f \in Touched(t)' /\ before'[t][f] = before[t][f]
             /\ f \notin Touched(t) => disk'[f] = disk[f] /\ (f \in Touched(t)' => before'[t][f] = disk[f])
  <2>1. before[t][g] = Unseen /\ disk[g] = Absent /\ disk' = disk /\ before' = [before EXCEPT ![t][g] = Absent]
    BY <1>3 DEF SnapshotAbsent
  <2>2. before'[t][g] = Absent /\ \A h \in File \ {g} : before'[t][h] = before[t][h]
    BY <1>1, <2>1
  <2> QED BY <1>1, <2>1, <2>2
<1>4. CASE SnapshotCopied(t)
  <2> DEFINE g == cur[t]
  <2>1. g \in File /\ before[t][g] = Unseen /\ disk' = disk /\ before' = [before EXCEPT ![t][g] = disk[g]]
    BY <1>1, <1>4 DEF SnapshotCopied, UndoesOwn
  <2>2. before'[t][g] = disk[g] /\ \A h \in File \ {g} : before'[t][h] = before[t][h]
    BY <1>1, <2>1
  <2> QED BY <1>1, <2>1, <2>2
<1>5. CASE Write(t) \/ WriteFails(t)
  <2>1. cur[t] \in Touched(t) /\ before' = before
    BY <1>1, <1>5 DEF Write, WriteFails, UndoesOwn
  <2>2. \A h \in File \ {cur[t]} : disk'[h] = disk[h]
    BY <1>1, <1>5 DEF Write, WriteFails
  <2> QED BY <1>1, <2>1, <2>2
<1>6. CASE UndoSucceeds(t)
  <2> DEFINE a == actions[t][left[t]]
  <2>1. left[t] \in 1..Len(actions[t])
    BY <1>1, <1>6 DEF UndoSucceeds, Bounded
  <2>2. a \in Undos \cup Unlinks
    BY <1>1, <2>1
  <2>3. a.kind = "unlink" => a.file \in File /\ a = Unlink(a.file)
    BY <2>2 DEF Undos, Unlinks, Unlink
  <2>4. a.kind = "unlink" => a.file \in Touched(t)
    BY <1>1, <2>1, <2>3 DEF UndoesOwn
  <2>5. before' = before /\ (disk' = disk \/ (a.kind = "unlink" /\ disk' = [disk EXCEPT ![a.file] = Absent]))
    BY <1>6 DEF UndoSucceeds
  <2> HIDE DEF a
  <2>6. f \notin Touched(t) => disk'[f] = disk[f]
    BY <1>1, <2>4, <2>5
  <2> QED BY <2>5, <2>6
<1>7. CASE RestoreCopy(t) \/ RestoreFails(t)
  <2> DEFINE g == snapshots[t][next[t]].file
  <2>1. next[t] \in 1..Len(snapshots[t])
    BY <1>1, <1>7 DEF RestoreCopy, RestoreFails
  <2>2. g \in File /\ before[t][g] \in Content
    BY <1>1, <2>1, SnapshotTypes DEF UndoesOwn
  <2>3. g \in Touched(t) /\ before' = before
    BY <1>7, <2>2 DEF RestoreCopy, RestoreFails
  <2>4. \E c : disk' = [disk EXCEPT ![g] = c]
    BY <1>7 DEF RestoreCopy, RestoreFails
  <2> HIDE DEF g
  <2>5. f \notin Touched(t) => disk'[f] = disk[f]
    BY <1>1, <2>3, <2>4
  <2> QED BY <2>3, <2>5
<1>8. CASE \/ Start(t) \/ Act(t) \/ Throw(t) \/ (\E g \in File : SnapshotStart(t, g)) \/ SnapshotFails(t)
           \/ CommitStart(t) \/ CommitUnlink(t) \/ CommitEnd(t) \/ UndoFails(t) \/ UndoSwallowed(t) \/ UndoEnd(t)
           \/ RestoreUnlink(t) \/ RollbackEnd(t)
  <2>1. disk' = disk /\ before' = before
    BY <1>8 DEF Start, Act, Throw, SnapshotStart, SnapshotFails, CommitStart, CommitUnlink, CommitEnd,
                UndoFails, UndoSwallowed, UndoEnd, RestoreUnlink, RollbackEnd
  <2> QED BY <1>2, <2>1
<1> QED BY <1>3, <1>4, <1>5, <1>6, <1>7, <1>8 DEF Operate

\* Where the operation is, by what its step means.
LEMMA OutcomeSteps ==
  ASSUME TypeOK, NEW t \in Tx, Operate(t)
  PROVE  \/ Outcome(t) = "open" /\ Outcome(t)' = "open"
         \/ CommitStart(t) /\ Outcome(t) = "open" /\ Outcome(t)' = "kept"
         \/ (CommitUnlink(t) \/ CommitEnd(t)) /\ Outcome(t) = "kept" /\ Outcome(t)' = "kept"
         \/ RollbackEnd(t) /\ Outcome(t) = "open" /\ pc'[t] = "threw"
<1> USE DEF TypeOK, Goto, Fail, txVars
<1>1. CASE CommitStart(t)
  <2>1. pc[t] = "running" /\ pc'[t] = "committing"
    BY <1>1 DEF CommitStart
  <2> QED BY <1>1, <2>1, OutcomeOf, OutcomeOfNext
<1>2. CASE CommitUnlink(t) \/ CommitEnd(t)
  <2>1. pc[t] = "committing" /\ pc'[t] \in {"committing", "returned"}
    BY <1>2 DEF CommitUnlink, CommitEnd
  <2> QED BY <1>2, <2>1, OutcomeOf, OutcomeOfNext
<1>3. CASE RollbackEnd(t)
  <2>1. pc[t] = "restoring" /\ pc'[t] = "threw"
    BY <1>3 DEF RollbackEnd
  <2> QED BY <1>3, <2>1, OutcomeOf
<1>4. CASE \/ Start(t) \/ Act(t) \/ Throw(t)
           \/ (\E f \in File : SnapshotAbsent(t, f) \/ SnapshotStart(t, f))
           \/ SnapshotCopied(t) \/ SnapshotFails(t) \/ Write(t) \/ WriteFails(t)
           \/ UndoSucceeds(t) \/ UndoFails(t) \/ UndoSwallowed(t) \/ UndoEnd(t)
           \/ RestoreCopy(t) \/ RestoreFails(t) \/ RestoreUnlink(t)
  <2>1. /\ pc[t] \notin {"committing", "returned", "torn", "threw", "lost"}
        /\ pc'[t] \notin {"committing", "returned", "torn", "threw", "lost"}
    BY <1>4 DEF Start, Act, Throw, SnapshotAbsent, SnapshotStart, SnapshotCopied, SnapshotFails, Write, WriteFails,
                UndoSucceeds, UndoFails, UndoSwallowed, UndoEnd, RestoreCopy, RestoreFails, RestoreUnlink
  <2> QED BY <2>1, OutcomeOf, OutcomeOfNext
<1> QED BY <1>1, <1>2, <1>3, <1>4 DEF Operate

\* What a step shows of the files of its operation.
LEMMA OwnShownStep ==
  ASSUME IInv, IInv', Apart, NEW t \in Tx, Operate(t), NEW f \in FilesOf[t]
  PROVE  /\ Outcome(t)' = Outcome(t) => Shown(f)' = Shown(f)
         /\ Outcome(t)' # "open" => Shown(f)' = disk'[f]
         /\ Outcome(t) # "open" => Shown(f) = disk[f]
         /\ Outcome(t) = "open" => Shown(f) = IF f \in Touched(t) THEN before[t][f] ELSE disk[f]
<1>1. /\ Shown(f) = IF Outcome(t) = "open" /\ f \in Touched(t) THEN before[t][f] ELSE disk[f]
      /\ Shown(f)' = IF Outcome(t)' = "open" /\ f \in Touched(t)' THEN before'[t][f] ELSE disk'[f]
  BY OwnShown, OwnShownNext
<1>2. CASE Outcome(t) = "open" /\ Outcome(t)' = "open"
  BY <1>1, <1>2, OwnFileSteps
<1>3. CASE Outcome(t) = "kept" /\ (CommitUnlink(t) \/ CommitEnd(t))
  <2>1. disk' = disk
    BY <1>3 DEF CommitUnlink, CommitEnd
  <2> QED BY <1>1, <1>3, <2>1
<1>4. CASE Outcome(t) = "open" /\ Outcome(t)' # "open"
  BY <1>1, <1>4
<1>5. TypeOK
  BY DEF IInv
<1> QED BY <1>2, <1>3, <1>4, <1>5, OutcomeSteps

LEMMA CountingStep ==
  ASSUME IInv, NEW t \in Tx, Operate(t), Outcome(t)' = Outcome(t)
  PROVE  Counting(t)' = Counting(t)
<1>1. TypeOK
  BY DEF IInv
<1>2. CASE Outcome(t) = "open"
  BY <1>2 DEF Counting
<1>3. CASE CommitUnlink(t) \/ CommitEnd(t)
  <2>1. done' = done
    BY <1>3 DEF CommitUnlink, CommitEnd, txVars
  <2> QED BY <2>1 DEF Counting
<1> QED BY <1>1, <1>2, <1>3, OutcomeSteps

\* A step that ends nothing is not seen.
LEMMA StepUnseen ==
  ASSUME IInv, IInv', Apart, NEW t \in Tx, Operate(t), Outcome(t)' = Outcome(t)
  PROVE  Outcomes' = Outcomes /\ Store' = Store /\ Effects' = Effects
<1>1. \A u \in Tx : Outcome(u)' = Outcome(u) /\ Counting(u)' = Counting(u)
  BY OthersShown, CountingStep
<1>2. \A f \in File : Shown(f)' = Shown(f)
  BY OthersShown, OwnShownStep
<1>3. Outcomes' = Outcomes
  BY <1>1 DEF Outcomes
<1>4. Store' = Store
  BY <1>2 DEF Store, Shown
<1>5. Effects' = Effects
  BY <1>1 DEF Effects, Counting
<1> QED BY <1>3, <1>4, <1>5

LEMMA KeepStep ==
  ASSUME IInv, IInv', Apart, NEW t \in Tx, Operate(t), CommitStart(t), Outcome(t) = "open", Outcome(t)' = "kept"
  PROVE  Abstract!Keep(t)
<1>1. /\ Outcomes[t] = "open"
      /\ Outcomes' = [Outcomes EXCEPT ![t] = "kept"]
  BY OthersShown DEF Outcomes
<1>2. \E own \in [FilesOf[t] -> Stored] :
        Store' = [f \in File |-> IF f \in FilesOf[t] THEN own[f] ELSE Store[f]]
  <2> DEFINE own == [f \in FilesOf[t] |-> disk'[f]]
  <2>1. own \in [FilesOf[t] -> Stored]
    BY DEF IInv, TypeOK
  <2>2. \A f \in File : Shown(f)' = IF f \in FilesOf[t] THEN own[f] ELSE Shown(f)
    BY OthersShown, OwnShownStep
  <2> HIDE DEF own
  <2>3. \A f \in File : Store'[f] = Shown(f)' /\ Store[f] = Shown(f)
    BY DEF Store, Shown
  <2>4. Store' = [f \in File |-> IF f \in FilesOf[t] THEN own[f] ELSE Store[f]]
    BY <2>2, <2>3 DEF Store
  <2> QED BY <2>1, <2>4
<1>3. \E e \in SUBSET (1..MaxEffects) : Effects' = [Effects EXCEPT ![t] = e]
  <2>1. Counting(t)' \in SUBSET (1..MaxEffects)
    BY DEF Counting, IInv, TypeOK
  <2>2. \A u \in Tx \ {t} : Counting(u)' = Counting(u)
    BY OthersShown
  <2>3. Effects' = [Effects EXCEPT ![t] = Counting(t)']
    BY <2>2 DEF Effects, Counting
  <2> QED BY <2>1, <2>3
<1> QED BY <1>1, <1>2, <1>3 DEF Abstract!Keep, Abstract!End, Outcomes, Store, Effects

\* A rollback without errors leaves nothing behind.
LEMMA RevertStep ==
  ASSUME IInv, IInv', Apart, NEW t \in Tx, Operate(t), RollbackEnd(t), Outcome(t) = "open", pc'[t] = "threw",
         errors'[t] \cup silent'[t] = {}
  PROVE  Abstract!Revert(t)
<1>1. TypeOK /\ TypeOK' /\ TxInv(t)'
  BY DEF IInv
<1>2. Outcome(t)' = "reverted"
  BY OutcomeOfNext
<1>3. /\ Outcomes[t] = "open"
      /\ Outcomes' = [Outcomes EXCEPT ![t] = "reverted"]
  BY <1>2, OthersShown DEF Outcomes
<1>4. done'[t] = {}
  BY <1>1 DEF TxInv, EffectsCovered, Backward
<1>5. disk' = disk /\ before' = before
  BY DEF RollbackEnd, txVars
<1>6. ASSUME NEW f \in FilesOf[t] PROVE Shown(f)' = Shown(f) /\ Shown(f)' \in Stored
  <2>1. f \in File /\ Undisturbed(t)' /\ disk'[f] \in Stored
    BY <1>1 DEF TypeOK, Apart, Undisturbed
  <2>2. Shown(f)' = disk'[f] /\ Shown(f) = IF f \in Touched(t) THEN before[t][f] ELSE disk[f]
    BY <1>2, OwnShownStep
  <2>3. ASSUME f \in Touched(t) PROVE disk'[f] = before[t][f]
    <3>1. before'[t][f] = before[t][f] /\ (before[t][f] = Absent \/ before[t][f] \in Content)
      BY <1>1, <1>5, <2>1, <2>3 DEF TypeOK, Touched, Stored
    <3>2. CASE before[t][f] = Absent
      BY <1>1, <2>1, <3>1, <3>2 DEF TxInv, NewFilesCovered, Backward
    <3>3. CASE before[t][f] \in Content
      BY <1>1, <2>1, <3>1, <3>3 DEF TxInv, OldFilesCovered
    <3> QED BY <3>1, <3>2, <3>3
  <2> QED BY <1>5, <2>1, <2>2, <2>3
<1>7. \A f \in File : Shown(f)' = Shown(f)
  BY <1>6, OthersShown
<1>8. Store' = Store
  BY <1>7 DEF Store, Shown
<1>9. \A u \in Tx : Counting(u)' = Counting(u) /\ Counting(t) = {}
  BY <1>2, <1>4, OthersShown DEF Counting
<1>10. Effects' = Effects /\ Effects' = [Effects EXCEPT ![t] = {}]
  BY <1>9 DEF Effects, Counting
<1>11. \E own \in [FilesOf[t] -> Stored] :
         Store' = [f \in File |-> IF f \in FilesOf[t] THEN own[f] ELSE Store[f]]
  <2> DEFINE own == [f \in FilesOf[t] |-> Shown(f)]
  <2>1. own \in [FilesOf[t] -> Stored]
    BY <1>6
  <2>2. \A f \in File : Store[f] = IF f \in FilesOf[t] THEN own[f] ELSE Store[f]
    BY DEF Store, Shown
  <2> HIDE DEF own
  <2>3. Store' = [f \in File |-> IF f \in FilesOf[t] THEN own[f] ELSE Store[f]]
    BY <1>8, <2>2 DEF Store
  <2> QED BY <2>1, <2>3
<1>12. \E e \in SUBSET (1..MaxEffects) : Effects' = [Effects EXCEPT ![t] = e]
  BY <1>10
<1> QED BY <1>3, <1>8, <1>10, <1>11, <1>12 DEF Abstract!Revert, Abstract!End, Outcomes, Store, Effects

\* One with errors breaks the operation, and nothing else.
LEMMA BreakStep ==
  ASSUME IInv, IInv', Apart, NEW t \in Tx, Operate(t), Outcome(t) = "open", pc'[t] = "threw",
         errors'[t] \cup silent'[t] # {}
  PROVE  Abstract!Break({t})
<1>1. Outcome(t)' = "broken"
  BY OutcomeOfNext
<1>2. /\ \A u \in {t} : Outcomes[u] = "open"
      /\ Outcomes' = [u \in Tx |-> IF u \in {t} THEN "broken" ELSE Outcomes[u]]
  BY <1>1, OthersShown DEF Outcomes
<1>3. \A f \in File : (\E u \in {t} : f \in FilesOf[u]) \/ Store'[f] = Store[f]
  BY OthersShown DEF Store, Shown
<1>4. \A u \in Tx \ {t} : Effects'[u] = Effects[u]
  BY OthersShown DEF Effects, Counting
<1> QED BY <1>2, <1>3, <1>4 DEF Abstract!Break, Outcomes, Store, Effects

\* A restart breaks what was open, but for operations that had not begun.
LEMMA CrashBreaks ==
  ASSUME IInv, IInv', Apart, Crash
  PROVE  \/ Outcomes' = Outcomes /\ Store' = Store /\ Effects' = Effects
         \/ \E T \in SUBSET Tx : Abstract!Break(T)
<1> DEFINE T == {t \in Tx : pc[t] \in Open \ {"committing"}}
<1>1. /\ TypeOK /\ disk' = disk /\ before' = before /\ done' = done
      /\ errors' = errors /\ silent' = silent
  BY DEF IInv, Crash, txVars
<1>2. \A t \in Tx : /\ pc[t] = "committing" => pc'[t] = "torn"
                    /\ pc[t] \in Open \ {"committing"} => pc'[t] = "lost"
                    /\ pc[t] \notin Open => pc'[t] = pc[t]
  BY DEF Crash, Open
<1>3. ASSUME NEW t \in Tx
      PROVE  /\ t \in T => Outcome(t) = "open" /\ Outcome(t)' = "broken"
             /\ t \notin T => Outcome(t)' = Outcome(t)
  <2>1. CASE pc[t] = "committing"
    BY <1>2, <2>1, OutcomeOf, OutcomeOfNext
  <2>2. CASE pc[t] \in Open \ {"committing"}
    BY <1>2, <2>2, OutcomeOf, OutcomeOfNext DEF Open
  <2>3. CASE pc[t] \notin Open
    <3>1. t \notin T /\ pc'[t] = pc[t]
      BY <1>2, <2>3
    <3>2. Outcome(t)' = Outcome(t)
      BY <1>1, <3>1 DEF Outcome
    <3> QED BY <3>1, <3>2
  <2> QED BY <2>1, <2>2, <2>3
<1>4. \A t \in Tx \ T : Counting(t)' = Counting(t)
  BY <1>1, <1>3 DEF Counting
<1>5. ASSUME NEW f \in File, \A t \in T : f \notin FilesOf[t] PROVE Shown(f)' = Shown(f)
  <2>1. CASE \A t \in Tx : f \notin FilesOf[t]
    BY <1>1, <2>1, FreeShown
  <2>2. ASSUME NEW t \in Tx, f \in FilesOf[t] PROVE Shown(f)' = Shown(f)
    <3>1. Outcome(t)' = Outcome(t)
      BY <1>3, <1>5, <2>2
    <3>2. (f \in Touched(t)') = (f \in Touched(t))
      BY <1>1 DEF Touched
    <3> QED BY <1>1, <2>2, <3>1, <3>2, OwnShown, OwnShownNext
  <2> QED BY <2>1, <2>2
<1>6. T \in SUBSET Tx
  OBVIOUS
<1> HIDE DEF T
<1>7. CASE T = {}
  <2>1. Outcomes' = Outcomes
    BY <1>3, <1>7 DEF Outcomes
  <2>2. Store' = Store
    BY <1>5, <1>7 DEF Store, Shown
  <2>3. Effects' = Effects
    BY <1>4, <1>7 DEF Effects, Counting
  <2> QED BY <2>1, <2>2, <2>3
<1>8. CASE T # {}
  <2>0. PICK S \in SUBSET Tx : S = T
    BY <1>6
  <2>1. /\ \A t \in S : Outcomes[t] = "open"
        /\ Outcomes' = [t \in Tx |-> IF t \in S THEN "broken" ELSE Outcomes[t]]
    BY <1>3, <1>6, <2>0 DEF Outcomes
  <2>2. \A f \in File : (\E t \in S : f \in FilesOf[t]) \/ Store'[f] = Store[f]
    BY <1>5, <2>0 DEF Store, Shown
  <2>3. \A t \in Tx \ S : Effects'[t] = Effects[t]
    BY <1>4, <2>0 DEF Effects, Counting
  <2>4. Abstract!Break(S)
    BY <1>8, <2>0, <2>1, <2>2, <2>3 DEF Abstract!Break, Outcomes, Store, Effects
  <2> QED BY <2>4
<1> QED BY <1>7, <1>8

\* Operations on files of their own are atomic, for any number of them, any files and
\* contents, any failing undo and any restart: withTransaction() is the abstract operation.
THEOREM TransactionsAreAtomic ==
  ASSUME \A t \in Tx : Undisturbed(t)
  PROVE  Spec => IsAtomic
<1>1. Init => Abstract!Init
  <2> SUFFICES ASSUME Init PROVE Abstract!Init
    OBVIOUS
  <2>1. \A t \in Tx : Outcome(t) = "open"
    BY OutcomeOf DEF Init
  <2>2. \A f \in File : BehindOpen(f) = {}
    BY DEF BehindOpen, Touched, Init
  <2>3. Outcomes = [t \in Tx |-> "open"] /\ Store \in [File -> Stored] /\ Effects = [t \in Tx |-> {}]
    BY <2>1, <2>2 DEF Outcomes, Store, Effects, Init
  <2> QED BY <2>3 DEF Abstract!Init, Outcomes, Store, Effects
<1>2. IInv /\ IInv' /\ [Next]_vars => [Abstract!Next]_<<Outcomes, Store, Effects>>
  <2> SUFFICES ASSUME IInv, IInv', [Next]_vars
               PROVE  Abstract!Next \/ UNCHANGED <<Outcomes, Store, Effects>>
    OBVIOUS
  <2>1. Apart /\ TypeOK
    BY DEF Apart, IInv
  <2>2. CASE UNCHANGED vars
    BY <2>2 DEF vars, txVars, Outcomes, Store, Effects, Outcome, BehindOpen, Touched
  <2>3. CASE Crash
    BY <2>1, <2>3, CrashBreaks DEF Abstract!Next
  <2>4. ASSUME NEW t \in Tx, Operate(t)
        PROVE  Abstract!Next \/ UNCHANGED <<Outcomes, Store, Effects>>
    <3>1. CASE Outcome(t)' = Outcome(t)
      BY <2>1, <2>4, <3>1, StepUnseen
    <3>2. CASE CommitStart(t) /\ Outcome(t) = "open" /\ Outcome(t)' = "kept"
      BY <2>1, <2>4, <3>2, KeepStep DEF Abstract!Next
    <3>3. CASE RollbackEnd(t) /\ Outcome(t) = "open" /\ pc'[t] = "threw"
      <4>1. CASE errors'[t] \cup silent'[t] = {}
        BY <2>1, <2>4, <3>3, <4>1, RevertStep DEF Abstract!Next
      <4>2. CASE errors'[t] \cup silent'[t] # {}
        <5>1. Abstract!Break({t}) /\ {t} \in SUBSET Tx
          BY <2>1, <2>4, <3>3, <4>2, BreakStep
        <5> QED BY <5>1 DEF Abstract!Next
      <4> QED BY <4>1, <4>2
    <3> QED BY <2>1, <2>4, <3>1, <3>2, <3>3, OutcomeSteps
  <2> QED BY <2>2, <2>3, <2>4 DEF Next
<1>3. Spec => Abstract!Init /\ [][Abstract!Next]_<<Outcomes, Store, Effects>>
  BY <1>1, <1>2, InvariantHolds, PTL DEF Spec
<1>4. Abstract!Spec <=> Abstract!Init /\ [][Abstract!Next]_<<Outcomes, Store, Effects>>
  BY DEF Abstract!Spec, Outcomes, Store, Effects
<1> QED BY <1>3, <1>4 DEF IsAtomic
=============================================================================
