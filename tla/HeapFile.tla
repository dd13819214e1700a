------------------------------- MODULE HeapFile -------------------------------
(***************************************************************************)
(* The heap file of src/godb/heap_file.go, with its mutex-guarded numPages *)
(* and lastEmptyPage, driven by the operators that call it: InsertOp       *)
(* (insert_op.go) over a child of new tuples, DeleteOp (delete_op.go) over *)
(* a Filter (filter_op.go) of the file's Iterator, and a plain scan.  One  *)
(* thread per transaction runs these operators and then commits or aborts; *)
(* pages are locked through the lock table (LockTable).                    *)
(*                                                                         *)
(* insertTuple and deleteTuple are split where the code takes or releases *)
(* a lock: each f.Lock() ... f.Unlock() section is one step, and so is     *)
(* each GetPage, which for this module is its TryLock (a Wait answer is    *)
(* retried by the same step, an Abort answer makes the operator return the *)
(* error and the caller abort).  The page mutation that follows a granted  *)
(* write GetPage is part of that step: no other thread can touch a page it *)
(* has write-locked.                                                       *)
(*                                                                         *)
(* The buffer pool is abstracted to a store of the latest page contents    *)
(* (BufferPool models caching, eviction and the log): page[q] is what a    *)
(* GetPage of q returns, committed[q] its content as of the last commit,   *)
(* which AbortTransaction restores.  A page holds at most Slots tuples; a  *)
(* tuple is [tid, k], the k-th tuple transaction tid inserted.             *)
(***************************************************************************)
EXTENDS Integers, FiniteSets

CONSTANTS
    Txn,         \* transaction ids
    NoTxn,       \* model value: no transaction
    Slots,       \* tuple slots of a heap page
    InitPages,   \* pages of the backing file when NewHeapFile opens it
    MaxInserts,  \* bound: tuples a transaction inserts
    MaxOps,      \* bound: operators (InsertOp, DeleteOp, scan) per transaction
    Preds        \* WHERE clauses of a DELETE: "all", or a transaction id t
                 \* for the tuples t inserted

\* Every insertTuple call extends the file at most once, so the page
\* numbers stay below the pages of the file plus the number of calls.
FilePages == 0..(InitPages + Cardinality(Txn) * MaxInserts - 1)

\* The tuples of the backing file are those of earlier sessions: the i-th
\* tuple of page q is [tid |-> NoTxn, k |-> q * Slots + i].
LoadedTuple(q, i) == [tid |-> NoTxn, k |-> q * Slots + i]

\* The tuple y passes the Filter of a DELETE with WHERE clause pred.
Matches(pred, y) == pred = "all" \/ y.tid = pred

LT == INSTANCE LockTable WITH Pages <- FilePages

VARIABLES
    numPages,       \* f.numPages
    lastEmptyPage,  \* f.lastEmptyPage, -1 when unset
    fileLen,        \* pages in the backing file (its size / PageSize)
    page,           \* page number -> tuples, as GetPage returns the page
    committed,      \* page number -> tuples as of the last commit
    lt,             \* bp.lockTable
    pc,             \* per-thread control point
    loc,            \* per-thread locals of the running operator and call
    ops, ins,       \* per-thread count of operators run and tuples inserted
    seen,           \* per-thread tuples, with their page, the last scan returned
    added,          \* ghost: tuples the transaction inserted successfully
    removed,        \* ghost: tuples the transaction deleted successfully
    pageFull,       \* ghost: an insertTuple of the thread returned ErrPageFull
    loaded,         \* ghost: the tuples of the backing file at open
    lastDel         \* ghost: [pred, nPages] of the thread's last DeleteOp that
                    \* returned its count; nPages = 0 once it inserts again

NoDel == [pred |-> "all", nPages |-> 0]

fileVars == <<numPages, lastEmptyPage, fileLen>>
ghostVars == <<added, removed, pageFull, lastDel, loaded>>
vars == <<fileVars, page, committed, lt, pc, loc, ops, ins, seen, ghostVars>>

\* The locals of every call a thread makes, in one record: insertTuple's
\* endPage, p and tuple x; the operators' todo and cnt; the scan's nPages,
\* pgNo, the filter's pred and the matching tuples of the current page.
NoLocals == [endPage |-> 0, p |-> 0, x |-> [tid |-> NoTxn, k |-> 0], todo |-> 0, cnt |-> 0,
             nPages |-> 0, pgNo |-> 0, pred |-> "all", pending |-> {}]

\* NewHeapFile of a backing file of InitPages pages: numPages is the file
\* size over PageSize and lastEmptyPage = -1; each page holds the tuples a
\* previous session left in it, any number up to Slots.
Init ==
    /\ numPages = InitPages /\ lastEmptyPage = -1 /\ fileLen = InitPages
    /\ \E n \in [0..(InitPages - 1) -> 0..Slots] :
          page = [q \in FilePages |->
                    IF q < InitPages THEN {LoadedTuple(q, i) : i \in 1..n[q]} ELSE {}]
    /\ committed = page
    /\ loaded = UNION {page[q] : q \in FilePages}
    /\ lt = LT!NewLockTable
    /\ pc = [t \in Txn |-> "ready"]
    /\ loc = [t \in Txn |-> NoLocals]
    /\ ops = [t \in Txn |-> 0] /\ ins = [t \in Txn |-> 0]
    /\ seen = [t \in Txn |-> {}]
    /\ added = [t \in Txn |-> {}] /\ removed = [t \in Txn |-> {}]
    /\ pageFull = [t \in Txn |-> FALSE]
    /\ lastDel = [t \in Txn |-> NoDel]

Full(q) == Cardinality(page[q]) >= Slots

\* The next control point after a GetPage whose answer is not Grant: Wait
\* sleeps and retries; Abort unlocks the pool mutex and then calls
\* AbortTransaction, which is a step of its own ("aborting").
Denied(r, retry) == IF r.resp = LT!Wait THEN retry ELSE "aborting"

(***************************************************************************)
(* InsertOp.Iterator, first call: insert every tuple of the child (here    *)
(* todo new tuples) with insertTuple, stop at the first error, and return  *)
(* the count.                                                              *)
(***************************************************************************)
InsertOp(t) ==
    /\ pc[t] = "ready" /\ ops[t] < MaxOps /\ ins[t] < MaxInserts
    /\ \E c \in 1..(MaxInserts - ins[t]) :
          loc' = [loc EXCEPT ![t] = [NoLocals EXCEPT !.todo = c]]
    /\ ops' = [ops EXCEPT ![t] = @ + 1]
    /\ lastDel' = [lastDel EXCEPT ![t] = NoDel]
    /\ pc' = [pc EXCEPT ![t] = "insertOp"]
    /\ UNCHANGED <<fileVars, page, committed, lt, ins, seen, added, removed, pageFull, loaded>>

\* insertTuple, first section under f.Lock: start at lastEmptyPage (0 when
\* unset) and remember endPage = numPages.
StartInsert(t) ==
    /\ pc[t] = "insertOp"
    /\ ins' = [ins EXCEPT ![t] = @ + 1]
    /\ loc' = [loc EXCEPT ![t].endPage = numPages,
                          ![t].p = IF lastEmptyPage = -1 THEN 0 ELSE lastEmptyPage,
                          ![t].x = [tid |-> t, k |-> ins[t] + 1]]
    /\ pc' = [pc EXCEPT ![t] = "scan"]
    /\ UNCHANGED <<fileVars, page, committed, lt, ops, seen, ghostVars>>

\* The scan loop: GetPage(p, ReadPerm); a full page is skipped.
ScanRead(t) ==
    LET p == loc[t].p
        r == LT!TryLock(lt, p, t, LT!ReadPerm)
    IN
    /\ pc[t] = "scan" /\ p < loc[t].endPage
    /\ lt' = r.lt
    /\ IF r.resp = LT!Grant /\ Full(p)
       THEN /\ loc' = [loc EXCEPT ![t].p = p + 1]
            /\ UNCHANGED pc
       ELSE /\ pc' = [pc EXCEPT ![t] = IF r.resp = LT!Grant THEN "scanWrite"
                                       ELSE Denied(r, "scan")]
            /\ UNCHANGED loc
    /\ UNCHANGED <<fileVars, page, committed, ops, ins, seen, ghostVars>>

\* The tuple is in page p: count it; InsertOp moves to the next child tuple,
\* or returns the count after the last.
Inserted(t, p) ==
    /\ page' = [page EXCEPT ![p] = @ \cup {loc[t].x}]
    /\ added' = [added EXCEPT ![t] = @ \cup {loc[t].x}]
    /\ pc' = [pc EXCEPT ![t] = "setHint"]

\* GetPage(p, WritePerm), then heapp.insertTuple: ErrPageFull (another
\* transaction filled the page since the read) goes on to the next page.
ScanWrite(t) ==
    LET p == loc[t].p
        r == LT!TryLock(lt, p, t, LT!WritePerm)
    IN
    /\ pc[t] = "scanWrite"
    /\ lt' = r.lt
    /\ CASE r.resp = LT!Grant /\ ~Full(p) ->
              Inserted(t, p) /\ UNCHANGED loc
         [] r.resp = LT!Grant ->
              /\ loc' = [loc EXCEPT ![t].p = p + 1]
              /\ pc' = [pc EXCEPT ![t] = "scan"]
              /\ UNCHANGED <<page, added>>
         [] OTHER ->
              /\ pc' = [pc EXCEPT ![t] = Denied(r, "scanWrite")]
              /\ UNCHANGED <<page, added, loc>>
    /\ UNCHANGED <<fileVars, committed, ops, ins, seen, removed, pageFull, lastDel, loaded>>

\* After a successful insert, under f.Lock: lastEmptyPage = p, and
\* insertTuple returns nil (the scan loop's lines 204-207; the extension's
\* lines 235-239 are the same step).
HintWritten(t) == lastEmptyPage' = loc[t].p

\* InsertOp: insertTuple returned nil, so count the tuple and go on with the
\* next one, or return the count.
Counted(t) ==
    /\ loc' = [loc EXCEPT ![t].todo = @ - 1, ![t].cnt = @ + 1]
    /\ pc' = [pc EXCEPT ![t] = IF loc[t].todo > 1 THEN "insertOp" ELSE "ready"]

SetHint(t) ==
    /\ pc[t] = "setHint"
    /\ HintWritten(t)
    /\ Counted(t)
    /\ UNCHANGED <<numPages, fileLen, page, committed, lt, ops, ins, seen, ghostVars>>

(***************************************************************************)
(* No page from start to endPage had room: under f.Lock, flush an empty    *)
(* page at numPages (which lengthens the file), lastEmptyPage = numPages,  *)
(* p = numPages, numPages++.                                               *)
(***************************************************************************)
\* A plausible bug: the new page number is the endPage read in the first
\* section, not numPages as it is now.
ExtendAtEndPage(t) ==
    LET n == loc[t].endPage IN
    /\ pc[t] = "scan" /\ loc[t].p >= loc[t].endPage
    /\ page' = [page EXCEPT ![n] = {}]
    /\ fileLen' = IF n + 1 > fileLen THEN n + 1 ELSE fileLen
    /\ lastEmptyPage' = n
    /\ loc' = [loc EXCEPT ![t].p = n]
    /\ numPages' = numPages + 1
    /\ pc' = [pc EXCEPT ![t] = "extWrite"]
    /\ UNCHANGED <<committed, lt, ops, ins, seen, ghostVars>>

Extend(t) ==
    /\ pc[t] = "scan" /\ loc[t].p >= loc[t].endPage
    /\ page' = [page EXCEPT ![numPages] = {}]
    /\ fileLen' = IF numPages + 1 > fileLen THEN numPages + 1 ELSE fileLen
    /\ lastEmptyPage' = numPages
    /\ loc' = [loc EXCEPT ![t].p = numPages]
    /\ numPages' = numPages + 1
    /\ pc' = [pc EXCEPT ![t] = "extWrite"]
    /\ UNCHANGED <<committed, lt, ops, ins, seen, ghostVars>>

\* GetPage(p, WritePerm) of the new page and heapp.insertTuple; an error of
\* the insert, ErrPageFull included, is returned to the caller, and
\* InsertOp returns it.
ExtWrite(t) ==
    LET p == loc[t].p
        r == LT!TryLock(lt, p, t, LT!WritePerm)
    IN
    /\ pc[t] = "extWrite"
    /\ lt' = r.lt
    /\ CASE r.resp = LT!Grant /\ ~Full(p) ->
              Inserted(t, p) /\ UNCHANGED pageFull
         [] r.resp = LT!Grant ->
              /\ pageFull' = [pageFull EXCEPT ![t] = TRUE]
              /\ pc' = [pc EXCEPT ![t] = "ready"]
              /\ UNCHANGED <<page, added>>
         [] OTHER ->
              /\ pc' = [pc EXCEPT ![t] = Denied(r, "extWrite")]
              /\ UNCHANGED <<page, added, pageFull>>
    /\ UNCHANGED <<fileVars, committed, loc, ops, ins, seen, removed, lastDel, loaded>>

(***************************************************************************)
(* DeleteOp.Iterator over Filter(pred) over HeapFile.Iterator: the heap    *)
(* iterator snapshots nPages = NumPages() and reads one page per GetPage   *)
(* (ReadPerm); the filter passes the tuples matching pred; DeleteOp        *)
(* deletes each one with deleteTuple as soon as it is returned, stops at   *)
(* the first error, and returns the count at the end of the scan.          *)
(***************************************************************************)
DeleteOp(t) ==
    /\ pc[t] = "ready" /\ ops[t] < MaxOps
    /\ \E pred \in Preds :
          loc' = [loc EXCEPT ![t] = [NoLocals EXCEPT !.nPages = numPages, !.pred = pred]]
    /\ ops' = [ops EXCEPT ![t] = @ + 1]
    /\ pc' = [pc EXCEPT ![t] = "delScan"]
    /\ UNCHANGED <<fileVars, page, committed, lt, ins, seen, ghostVars>>

\* One call of the filter's iterator: the next matching tuple of the
\* current page goes to deleteTuple (whose rid.pageNo < NumPages() check
\* passes, the page being below nPages); at the end of the page the heap
\* iterator reads the next one; at pgNo = nPages the scan ends and DeleteOp
\* returns its count.
DelNext(t) ==
    LET q == loc[t].pgNo
        r == LT!TryLock(lt, q, t, LT!ReadPerm)
    IN
    /\ pc[t] = "delScan"
    /\ CASE loc[t].pending # {} ->
              LET y == CHOOSE y \in loc[t].pending : TRUE IN
              /\ loc' = [loc EXCEPT ![t].pending = @ \ {y}, ![t].x = y,
                                    ![t].p = q - 1]
              /\ pc' = [pc EXCEPT ![t] = "delWrite"]
              /\ UNCHANGED <<lt, lastDel>>
         [] q = loc[t].nPages ->
              /\ lastDel' = [lastDel EXCEPT ![t] = [pred |-> loc[t].pred,
                                                    nPages |-> loc[t].nPages]]
              /\ pc' = [pc EXCEPT ![t] = "ready"]
              /\ UNCHANGED <<lt, loc>>
         [] OTHER ->
              /\ lt' = r.lt
              /\ IF r.resp = LT!Grant
                 THEN /\ loc' = [loc EXCEPT ![t].pgNo = q + 1,
                          ![t].pending = {y \in page[q] : Matches(loc[t].pred, y)}]
                      /\ UNCHANGED pc
                 ELSE /\ pc' = [pc EXCEPT ![t] = Denied(r, "delScan")]
                      /\ UNCHANGED loc
              /\ UNCHANGED lastDel
    /\ UNCHANGED <<fileVars, page, committed, ops, ins, seen, added, removed, pageFull, loaded>>

\* deleteTuple: GetPage(rid.pageNo, WritePerm), then hp.deleteTuple(rid).
\* Its error for a slot that no longer holds the tuple cannot happen here:
\* the thread has held a read lock on the page since its scan read it.
DelWrite(t) ==
    LET q == loc[t].p
        y == loc[t].x
        r == LT!TryLock(lt, q, t, LT!WritePerm)
    IN
    /\ pc[t] = "delWrite"
    /\ lt' = r.lt
    /\ CASE r.resp = LT!Grant ->
              /\ page' = [page EXCEPT ![q] = @ \ {y}]
              /\ removed' = [removed EXCEPT ![t] = @ \cup {y}]
              /\ pc' = [pc EXCEPT ![t] = "delHint"]
         [] OTHER ->
              /\ pc' = [pc EXCEPT ![t] = Denied(r, "delWrite")]
              /\ UNCHANGED <<page, removed>>
    /\ UNCHANGED <<fileVars, committed, loc, ops, ins, seen, added, pageFull, lastDel, loaded>>

\* deleteTuple under f.Lock: lower lastEmptyPage to the page that gained a
\* free slot; DeleteOp counts the tuple.
DelHint(t) ==
    /\ pc[t] = "delHint"
    /\ lastEmptyPage' = IF loc[t].p < lastEmptyPage THEN loc[t].p ELSE lastEmptyPage
    /\ loc' = [loc EXCEPT ![t].cnt = @ + 1]
    /\ pc' = [pc EXCEPT ![t] = "delScan"]
    /\ UNCHANGED <<numPages, fileLen, page, committed, lt, ops, ins, seen, ghostVars>>

(***************************************************************************)
(* A scan (HeapFile.Iterator, drained by its caller): nPages = NumPages()  *)
(* when it is created; each call of the returned function reads the next  *)
(* page with GetPage(pgNo, ReadPerm) and returns its tuples; at pgNo =     *)
(* nPages it returns nil.                                                  *)
(***************************************************************************)
Iterator(t) ==
    /\ pc[t] = "ready" /\ ops[t] < MaxOps
    /\ ops' = [ops EXCEPT ![t] = @ + 1]
    /\ seen' = [seen EXCEPT ![t] = {}]
    /\ loc' = [loc EXCEPT ![t] = [NoLocals EXCEPT !.nPages = numPages]]
    /\ pc' = [pc EXCEPT ![t] = "iter"]
    /\ UNCHANGED <<fileVars, page, committed, lt, ins, ghostVars>>

IterNext(t) ==
    LET q == loc[t].pgNo
        r == LT!TryLock(lt, q, t, LT!ReadPerm)
    IN
    /\ pc[t] = "iter"
    /\ IF q = loc[t].nPages
       THEN /\ pc' = [pc EXCEPT ![t] = "ready"]
            /\ UNCHANGED <<lt, loc, seen>>
       ELSE /\ lt' = r.lt
            /\ IF r.resp = LT!Grant
               THEN /\ seen' = [seen EXCEPT ![t] = @ \cup {<<q, y>> : y \in page[q]}]
                    /\ loc' = [loc EXCEPT ![t].pgNo = q + 1]
                    /\ UNCHANGED pc
               ELSE /\ pc' = [pc EXCEPT ![t] = Denied(r, "iter")]
                    /\ UNCHANGED <<loc, seen>>
    /\ UNCHANGED <<fileVars, page, committed, ops, ins, ghostVars>>

(***************************************************************************)
(* CommitTransaction and AbortTransaction as the heap file sees them: the  *)
(* write-locked pages become committed, or return to their committed       *)
(* content; the locks are released.  Neither touches numPages or          *)
(* lastEmptyPage.  A thread whose GetPage answered Abort aborts.           *)
(***************************************************************************)
CommitTransaction(t) ==
    LET W == LT!WriteLockedPages(lt, t) IN
    /\ pc[t] = "ready"
    /\ committed' = [q \in FilePages |-> IF q \in W THEN page[q] ELSE committed[q]]
    /\ lt' = LT!ReleaseLocks(lt, t)
    /\ pc' = [pc EXCEPT ![t] = "done"]
    /\ UNCHANGED <<fileVars, page, loc, ops, ins, seen, ghostVars>>

AbortTransaction(t) ==
    LET W == LT!WriteLockedPages(lt, t) IN
    /\ pc[t] \in {"ready", "aborting"}
    /\ page' = [q \in FilePages |-> IF q \in W THEN committed[q] ELSE page[q]]
    /\ lt' = LT!ReleaseLocks(lt, t)
    /\ pc' = [pc EXCEPT ![t] = "done"]
    /\ added' = [added EXCEPT ![t] = {}]
    /\ removed' = [removed EXCEPT ![t] = {}]
    /\ UNCHANGED <<fileVars, committed, loc, ops, ins, seen, pageFull, lastDel, loaded>>

ThreadStep(t) ==
    \/ InsertOp(t) \/ StartInsert(t) \/ ScanRead(t) \/ ScanWrite(t)
    \/ SetHint(t) \/ Extend(t) \/ ExtWrite(t)
    \/ DeleteOp(t) \/ DelNext(t) \/ DelWrite(t) \/ DelHint(t)
    \/ Iterator(t) \/ IterNext(t)
    \/ CommitTransaction(t) \/ AbortTransaction(t)

Next == \E t \in Txn : ThreadStep(t)

\* Every goroutine is scheduled; a GetPage told to Wait sleeps and retries.
Spec == Init /\ [][Next]_vars /\ \A t \in Txn : WF_vars(ThreadStep(t))

(***************************************************************************)
(* Properties.                                                             *)
(***************************************************************************)
\* The tuples that should be in the file: those of committed transactions
\* that no one deleted, and those a running transaction inserted or has not
\* yet deleted.
Expected ==
    LET done == {t \in Txn : pc[t] = "done"}
        running == Txn \ done
    IN  (((loaded \cup UNION {added[t] : t \in done}) \ UNION {removed[t] : t \in done})
          \cup UNION {added[t] : t \in running})
          \ UNION {removed[t] : t \in running}

\* insertTuple / deleteTuple keep every tuple exactly once: the pages below
\* numPages hold exactly the tuples inserted and not deleted (or rolled
\* back), none twice and none beyond Slots per page, and numPages never
\* runs past the backing file, although numPages and lastEmptyPage are read
\* in one critical section and used in another.
TuplesKept ==
    /\ UNION {page[q] : q \in 0..(numPages - 1)} = Expected
    /\ \A q \in FilePages : q >= numPages => page[q] = {}
    /\ \A q1, q2 \in FilePages : q1 # q2 => page[q1] \cap page[q2] = {}
    /\ \A q \in FilePages : Cardinality(page[q]) <= Slots
    /\ numPages = fileLen

\* Strict two-phase locking makes a scan repeatable: while a scan runs,
\* every page it has already returned still holds exactly the tuples it
\* returned, whatever other transactions insert, delete, commit or abort.
ScanIsStable ==
    \A t \in Txn : pc[t] = "iter" =>
        \A q \in 0..(loc[t].pgNo - 1) :
            page[q] = {r[2] : r \in {r \in seen[t] : r[1] = q}}

\* A DELETE ... WHERE pred that returned its count has removed every
\* matching tuple from the pages its scan covered, and none comes back
\* while the transaction runs: not by another transaction's insert into
\* those pages, nor by the rollback of another transaction's delete.
DeleteOpComplete ==
    \A t \in Txn : pc[t] # "done" =>
        \A q \in 0..(lastDel[t].nPages - 1) :
            \A y \in page[q] : ~Matches(lastDel[t].pred, y)

\* Every operator and every insertTuple / deleteTuple call returns (with a
\* count, an error or an abort): the scans, the extension and the deletes
\* never block for ever, because a lock wait that closes a cycle (two
\* threads upgrading their read locks on one page) makes TryLock abort one.
CallsReturn == \A t \in Txn : pc[t] \notin {"ready", "done"} ~> pc[t] \in {"ready", "done"}

\* The lock table, as the heap file's calls drive it, implements strict
\* two-phase page locking: the readers of a page are its read-lock holders
\* other than its writer (an upgrade leaves the writer in the read set), and
\* a transaction has finished once CommitTransaction or AbortTransaction
\* released its locks.
TPL == INSTANCE TwoPhaseLocks WITH
           Pages <- FilePages,
           readers <- [q \in FilePages |-> lt.read[q] \ {lt.write[q]}],
           writer <- lt.write,
           finished <- {t \in Txn : pc[t] = "done"}

TwoPhaseLocking == TPL!Spec

\* Spec section 4.B: when no page has room, insertTuple extends the file
\* and inserts into the new page; it does not fail with ErrPageFull.
InsertNeverPageFull == \A t \in Txn : ~pageFull[t]
=============================================================================
