------------------------ MODULE MCTransactionManager ------------------------
(* Instances of TransactionManager for TLC. *)
EXTENDS TransactionManager

CONSTANTS t1, t2, vhost, pool

\* Two operations on two domains, each with a virtual host of its own.
MCFilesOwn == [t \in Tx |-> IF t = t1 THEN {vhost} ELSE {pool}]

\* One operation that writes both files.
MCFilesBoth == [t \in Tx |-> {vhost, pool}]
=============================================================================
