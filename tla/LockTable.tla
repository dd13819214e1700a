------------------------------ MODULE LockTable ------------------------------
(***************************************************************************)
(* The page lock table of src/godb/lock_table.go, as operators over a      *)
(* record                                                                  *)
(*   read     : [Pages -> SUBSET Txn]   PageLocks.read of each page        *)
(*   write    : [Pages -> Txn \cup {NoTxn}]   PageLocks.write              *)
(*   tidPages : [Txn -> SUBSET Pages]   tidPageList                        *)
(*   waits    : [Txn -> SUBSET Txn]     the wait-for graph                 *)
(* A page without an entry in t.locks is one with no readers and no        *)
(* writer; the order of the Go slices is not observable by any caller      *)
(* (TryLock only asks whether the sole reader is tid), so slices are sets. *)
(***************************************************************************)
EXTENDS Naturals, FiniteSets

CONSTANTS Txn, Pages, NoTxn

LOCAL WF == INSTANCE WaitFor WITH w <- [t \in Txn |-> {}]

\* The lock responses and permissions of lock_table.go and buffer_pool.go.
Grant == "Grant"
Wait  == "Wait"
Abort == "Abort"
ReadPerm  == "ReadPerm"
WritePerm == "WritePerm"

LockTableType ==
    [read: [Pages -> SUBSET Txn], write: [Pages -> Txn \cup {NoTxn}],
     tidPages: [Txn -> SUBSET Pages], waits: [Txn -> SUBSET Txn]]

\* NewLockTable()
NewLockTable ==
    [read |-> [p \in Pages |-> {}], write |-> [p \in Pages |-> NoTxn],
     tidPages |-> [t \in Txn |-> {}], waits |-> WF!EmptyGraph]

\* t.ReleaseLocks(tid): drop tid from the readers and the writer of every
\* page in its page list, forget the list, remove tid from the graph.
ReleaseLocks(lt, tid) ==
    [lt EXCEPT
        !.read     = [p \in Pages |-> IF p \in lt.tidPages[tid]
                                      THEN @[p] \ {tid} ELSE @[p]],
        !.write    = [p \in Pages |-> IF p \in lt.tidPages[tid] /\ @[p] = tid
                                      THEN NoTxn ELSE @[p]],
        !.tidPages = [@ EXCEPT ![tid] = {}],
        !.waits    = WF!RemoveTransaction(@, tid)]

\* t.WriteLockedPages(tid)
WriteLockedPages(lt, tid) == {p \in lt.tidPages[tid] : lt.write[p] = tid}

\* A plausible bug: a read is granted without looking at the writer.
ReadOkIgnoringWriter(lt, p, tid) == TRUE
\* The conditions of TryLock's two cases.
ReadOk(lt, p, tid)  == lt.write[p] \in {NoTxn, tid}
\* A plausible bug: any single reader lets a writer in, not only tid itself.
WriteOkAnyReader(lt, p, tid) ==
    Cardinality(lt.read[p]) <= 1 /\ lt.write[p] \in {NoTxn, tid}
WriteOk(lt, p, tid) == lt.read[p] \subseteq {tid} /\ lt.write[p] \in {NoTxn, tid}

\* The transactions a denied request waits for: the writer for a read; the
\* writer (when set) and every other reader for a write.
Blockers(lt, p, tid, perm) ==
    IF perm = ReadPerm THEN {lt.write[p]}
    ELSE ({lt.write[p]} \ {NoTxn}) \cup (lt.read[p] \ {tid})

(***************************************************************************)
(* t.TryLock(file, pageNo, tid, perm), returning [resp, lt]: the response  *)
(* and the lock table after the call.  The call first deletes tid's        *)
(* outgoing wait edges; a grant records the lock and the page in tid's     *)
(* list; a denial adds edges to the blockers and answers Abort when tid    *)
(* is then on a cycle, Wait otherwise.                                     *)
(***************************************************************************)
\* A plausible bug: a denied request always answers Wait (no deadlock check).
TryLockNoDetect(lt, p, tid, perm) ==
    LET lt0 == [lt EXCEPT !.waits[tid] = {}]
        granted == IF perm = ReadPerm THEN ReadOk(lt, p, tid)
                                      ELSE WriteOk(lt, p, tid)
    IN  IF granted
        THEN [resp |-> Grant,
              lt |-> IF perm = ReadPerm
                     THEN [lt0 EXCEPT !.read[p] = @ \cup {tid},
                                      !.tidPages[tid] = @ \cup {p}]
                     ELSE [lt0 EXCEPT !.write[p] = tid,
                                      !.tidPages[tid] = @ \cup {p}]]
        ELSE [resp |-> Wait,
              lt |-> [lt0 EXCEPT !.waits = WF!AddEdges(lt0.waits, tid,
                                              Blockers(lt, p, tid, perm))]]

TryLock(lt, p, tid, perm) ==
    LET lt0 == [lt EXCEPT !.waits[tid] = {}]
        granted == IF perm = ReadPerm THEN ReadOk(lt, p, tid)
                                      ELSE WriteOk(lt, p, tid)
        lt1 == IF perm = ReadPerm
               THEN [lt0 EXCEPT !.read[p] = @ \cup {tid},
                                !.tidPages[tid] = @ \cup {p}]
               ELSE [lt0 EXCEPT !.write[p] = tid,
                                !.tidPages[tid] = @ \cup {p}]
        g == WF!AddEdges(lt0.waits, tid, Blockers(lt, p, tid, perm))
    IN  IF granted THEN [resp |-> Grant, lt |-> lt1]
        ELSE [resp |-> IF WF!DetectDeadlock(g, tid) THEN Abort ELSE Wait,
              lt   |-> [lt0 EXCEPT !.waits = g]]
=============================================================================
