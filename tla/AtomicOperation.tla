-------------------------- MODULE AtomicOperation --------------------------
(***************************************************************************)
(* What withTransaction() promises its callers: an operation is all or     *)
(* nothing.  Until it ends, nothing of it counts; then it is kept,         *)
(* reverted without a trace, or - after an undo that failed, or a restart  *)
(* of the process - broken, within its own effects and files.              *)
(***************************************************************************)
CONSTANTS Tx, File, Stored, FilesOf, Effect

VARIABLES outcome,  \* how the operation of each transaction ended
          store,    \* the files, without the operations that have not ended
          effects   \* the external effects, likewise

Init == /\ outcome = [t \in Tx |-> "open"]
        /\ store \in [File -> Stored]
        /\ effects = [t \in Tx |-> {}]

\* Operation t ends with an outcome and changes at most what is its own.
End(t, how) ==
  /\ outcome[t] = "open"
  /\ outcome' = [outcome EXCEPT ![t] = how]
  /\ \E own \in [FilesOf[t] -> Stored] :
       store' = [f \in File |-> IF f \in FilesOf[t] THEN own[f] ELSE store[f]]
  /\ \E e \in SUBSET Effect : effects' = [effects EXCEPT ![t] = e]

Keep(t)   == End(t, "kept")
Revert(t) == End(t, "reverted") /\ UNCHANGED <<store, effects>>

\* A restart breaks all open operations in one step.
Break(T) ==
  /\ T # {} /\ \A t \in T : outcome[t] = "open"
  /\ outcome' = [t \in Tx |-> IF t \in T THEN "broken" ELSE outcome[t]]
  /\ \A f \in File : \/ \E t \in T : f \in FilesOf[t]
                     \/ store'[f] = store[f]
  /\ \A t \in Tx \ T : effects'[t] = effects[t]

Next == \/ \E t \in Tx : Keep(t) \/ Revert(t)
        \/ \E T \in SUBSET Tx : Break(T)

Spec == Init /\ [][Next]_<<outcome, store, effects>>
=============================================================================
