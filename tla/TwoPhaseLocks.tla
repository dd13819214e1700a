---------------------------- MODULE TwoPhaseLocks ----------------------------
(***************************************************************************)
(* What the page locks of GoDB promise (spec section 3 and section 8,      *)
(* "strict two-phase locking"): a page has either any number of readers   *)
(* or one writer; a transaction may upgrade its own read lock when it is  *)
(* the only reader; it keeps every lock until it commits or aborts, and   *)
(* then releases them all at once and takes no lock again.                *)
(*                                                                         *)
(* LockTable's record, seen through a refinement mapping, implements this *)
(* specification: HeapFile checks it as a property.                        *)
(***************************************************************************)
CONSTANTS Txn, Pages, NoTxn

VARIABLES
    readers,   \* page -> transactions holding a read lock and not the write lock
    writer,    \* page -> the transaction holding the write lock, or NoTxn
    finished   \* transactions that committed or aborted

tplvars == <<readers, writer, finished>>

Init ==
    /\ readers = [p \in Pages |-> {}]
    /\ writer = [p \in Pages |-> NoTxn]
    /\ finished = {}

\* A read lock, on a page no other transaction writes.
AcquireRead(t, p) ==
    /\ t \notin finished
    /\ writer[p] = NoTxn
    /\ readers' = [readers EXCEPT ![p] = @ \cup {t}]
    /\ UNCHANGED <<writer, finished>>

\* A write lock, on a page no other transaction reads or writes; a read
\* lock of t itself becomes the write lock.
AcquireWrite(t, p) ==
    /\ t \notin finished
    /\ readers[p] \subseteq {t} /\ writer[p] = NoTxn
    /\ writer' = [writer EXCEPT ![p] = t]
    /\ readers' = [readers EXCEPT ![p] = @ \ {t}]
    /\ UNCHANGED finished

\* Commit or abort: every lock of t is released in one step.
Finish(t) ==
    /\ t \notin finished
    /\ readers' = [p \in Pages |-> readers[p] \ {t}]
    /\ writer' = [p \in Pages |-> IF writer[p] = t THEN NoTxn ELSE writer[p]]
    /\ finished' = finished \cup {t}

Next == \E t \in Txn :
            \/ Finish(t)
            \/ \E p \in Pages : AcquireRead(t, p) \/ AcquireWrite(t, p)

Spec == Init /\ [][Next]_tplvars
=============================================================================
