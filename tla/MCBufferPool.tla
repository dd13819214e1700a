---------------------------- MODULE MCBufferPool ----------------------------
(***************************************************************************)
(* Model-checking instance of BufferPool: transactions and pages are model *)
(* values given in the .cfg files; the symmetry of transaction ids is      *)
(* sound because ids are only compared and used as tuple tags.            *)
(***************************************************************************)
EXTENDS BufferPool, TLC

TxnSymmetry == Permutations(Txn)

\* Workload restriction: transactions run one at a time (the next one begins
\* after the previous one committed or aborted), as in the log tests.
SerialWorkload == Cardinality(running) <= 1

\* Workload restriction: no transaction aborts (so the log holds no ABORT).
NoAbortWorkload == \A i \in 1..Len(logRecs) : logRecs[i].type # "abort"
=============================================================================
