------------------------------ MODULE BufferPool ------------------------------
(***************************************************************************)
(* The buffer pool of src/godb/buffer_pool.go and buffer_pool_extra.go     *)
(* composed with its lock table (LockTable), the write-ahead log and the   *)
(* heap pages on disk, driven by concurrent transaction threads, with      *)
(* crashes and ARIES-style recovery.                                       *)
(*                                                                         *)
(* Every action below is one critical section of the pool mutex (or, for   *)
(* insertTuple / deleteTuple, one mutation of the page object a thread got *)
(* from GetPage).  GetPage is split at the points where the code releases  *)
(* the mutex: loadPage, then TryLock, then the caller's use of the page.   *)
(*                                                                         *)
(* Data abstraction: the content of a page is the set of transactions      *)
(* whose tuple it holds (a transaction inserts the tuple tagged with its   *)
(* own id and may delete any tuple it sees).  Log records carry whole      *)
(* before/after page contents, as the UPDATE records of the log do.        *)
(***************************************************************************)
EXTENDS Integers, Sequences, FiniteSets, SequencesExt

CONSTANTS
    Txn,         \* transaction ids handed out by NewTID (each begun at most once)
    Pages,       \* page keys (file, pageNo) of the heap files
    NoTxn,       \* model value: no transaction (an unset lastTxn / writer)
    MaxPages,    \* bp.maxPages, the pool capacity
    MaxOps,      \* bound: GetPage calls per transaction
    MaxCrashes   \* bound: process crashes in a behaviour

ASSUME MaxPages \in Nat \ {0} /\ MaxOps \in Nat /\ MaxCrashes \in Nat

LT == INSTANCE LockTable

VARIABLES
    pages,      \* bp.pages: cached page key -> page frame
    disk,       \* the heap files on disk: page key -> content
    logRecs,    \* the log file, every record forced (see README)
    running,    \* bp.runningTids
    lt,         \* bp.lockTable
    pc,         \* per-thread control point
    req,        \* per-thread GetPage arguments [page, perm]
    stale,      \* the page object a thread holds is no longer the cached one
    ops,        \* per-thread count of GetPage calls (bounded by MaxOps)
    up,         \* FALSE between a crash and the end of Recover
    crashes,    \* number of crashes so far (bounded by MaxCrashes)
    latest,     \* ghost: content of each page as the transactions see it
    committed   \* ghost: content of each page as of the last commit

vars == <<pages, disk, logRecs, running, lt, pc, req, stale, ops, up, crashes,
          latest, committed>>

Content == SUBSET Txn
Frame == [content: Content, dirty: BOOLEAN, lastTxn: Txn \cup {NoTxn},
          bImage: Content]
Perm == {LT!ReadPerm, LT!WritePerm}

Record ==
    [type: {"begin", "commit", "abort"}, tid: Txn] \cup
    [type: {"update"}, tid: Txn \cup {NoTxn}, page: Pages,
     before: Content, after: Content]

\* LogBegin / LogCommit / LogAbort / LogUpdate records.
Ctl(type, tid) == [type |-> type, tid |-> tid]
UpdateRec(tid, p, before, after) ==
    [type |-> "update", tid |-> tid, page |-> p, before |-> before, after |-> after]

\* Threads still inside GetPage that hold a page object (after loadPage).
Holds(u, p) == pc[u] \in {"lock", "granted"} /\ req[u].page = p

\* Mark the threads holding an object of a page in S as holding a stale one.
MarkStale(S) == [u \in Txn |-> stale[u] \/ \E p \in S : Holds(u, p)]

\* Drop the keys in S from the page map.
Drop(f, S) == [k \in DOMAIN f \ S |-> f[k]]

(***************************************************************************)
(* Initial state: an empty pool, an empty log, empty pages on disk.        *)
(***************************************************************************)
Init ==
    /\ pages = [k \in {} |-> CHOOSE f \in Frame : TRUE]
    /\ disk = [p \in Pages |-> {}]
    /\ logRecs = <<>>
    /\ running = {}
    /\ lt = LT!NewLockTable
    /\ pc = [t \in Txn |-> "idle"]
    /\ req = [t \in Txn |-> [page |-> CHOOSE p \in Pages : TRUE, perm |-> LT!ReadPerm]]
    /\ stale = [t \in Txn |-> FALSE]
    /\ ops = [t \in Txn |-> 0]
    /\ up = TRUE
    /\ crashes = 0
    /\ latest = [p \in Pages |-> {}]
    /\ committed = [p \in Pages |-> {}]

(***************************************************************************)
(* bp.BeginTransaction(tid): log and force BEGIN, mark tid running.        *)
(***************************************************************************)
BeginTransaction(t) ==
    /\ up /\ pc[t] = "idle"
    /\ t \notin running
    /\ logRecs' = Append(logRecs, Ctl("begin", t))
    /\ running' = running \cup {t}
    /\ pc' = [pc EXCEPT ![t] = "ready"]
    /\ UNCHANGED <<pages, disk, lt, req, stale, ops, up, crashes, latest, committed>>

(***************************************************************************)
(* bp.GetPage(file, pageNo, tid, perm): the IsRunning check on entry.      *)
(***************************************************************************)
GetPage(t, p, perm) ==
    /\ up /\ pc[t] = "ready" /\ ops[t] < MaxOps
    /\ t \in running
    /\ req' = [req EXCEPT ![t] = [page |-> p, perm |-> perm]]
    /\ ops' = [ops EXCEPT ![t] = @ + 1]
    /\ pc' = [pc EXCEPT ![t] = "load"]
    /\ UNCHANGED <<pages, disk, logRecs, running, lt, stale, up, crashes, latest, committed>>

(***************************************************************************)
(* heapFile.readPage(pageNo): a fresh, clean frame with the disk content;  *)
(* its before-image is that content and no transaction has dirtied it.     *)
(***************************************************************************)
readPage(p) ==
    [content |-> disk[p], dirty |-> FALSE, lastTxn |-> NoTxn, bImage |-> disk[p]]

(***************************************************************************)
(* bp.evictPage(): the victims it may pick when the pool is full.  Go map  *)
(* order is unspecified, so any clean page may go; only when every page    *)
(* is dirty is a dirty one picked.                                         *)
(***************************************************************************)
EvictionCandidates ==
    LET clean == {k \in DOMAIN pages : ~pages[k].dirty}
    IN  IF clean # {} THEN clean ELSE DOMAIN pages

\* Evicting v: a dirty victim is logged as UPDATE(lastTxn, before-image,
\* page), the log forced and the page flushed; a clean one is just dropped.
evictPage(v) ==
    LET f == pages[v] IN
    /\ logRecs' = IF f.dirty
                  THEN Append(logRecs, UpdateRec(f.lastTxn, v, f.bImage, f.content))
                  ELSE logRecs
    /\ disk' = IF f.dirty THEN [disk EXCEPT ![v] = f.content] ELSE disk

\* The test at the head of evictPage: the pool is at capacity.
\* (A plausible bug: an off-by-one that lets the pool reach maxPages + 1.)
PoolFullOffByOne == Cardinality(DOMAIN pages) > MaxPages
PoolFull == Cardinality(DOMAIN pages) >= MaxPages

(***************************************************************************)
(* bp.loadPage(file, pageNo): a cached page is returned as is; otherwise   *)
(* it is read from disk, a victim is evicted if the pool is full, and the  *)
(* new frame is cached.  The thread then releases the mutex holding the    *)
(* object returned.                                                        *)
(***************************************************************************)
loadPage(t) ==
    LET p == req[t].page IN
    /\ up /\ pc[t] = "load"
    /\ pc' = [pc EXCEPT ![t] = "lock"]
    /\ \/ /\ p \in DOMAIN pages
          /\ stale' = [stale EXCEPT ![t] = FALSE]
          /\ UNCHANGED <<pages, disk, logRecs>>
       \/ /\ p \notin DOMAIN pages
          /\ ~PoolFull
          /\ pages' = pages @@ (p :> readPage(p))
          /\ stale' = [stale EXCEPT ![t] = FALSE]
          /\ UNCHANGED <<disk, logRecs>>
       \/ /\ p \notin DOMAIN pages
          /\ PoolFull
          /\ \E v \in EvictionCandidates :
                /\ evictPage(v)
                /\ pages' = Drop(pages, {v}) @@ (p :> readPage(p))
                /\ stale' = [MarkStale({v}) EXCEPT ![t] = FALSE]
    /\ UNCHANGED <<running, lt, req, ops, up, crashes, latest, committed>>

(***************************************************************************)
(* GetPage's TryLock under the mutex: Grant returns the page object,       *)
(* Wait sleeps and goes round the loop to loadPage, Abort leads to         *)
(* bp.AbortTransaction(tid).                                               *)
(***************************************************************************)
TryLockStep(t) ==
    LET r == LT!TryLock(lt, req[t].page, t, req[t].perm) IN
    /\ up /\ pc[t] = "lock"
    /\ lt' = r.lt
    /\ pc' = [pc EXCEPT ![t] = CASE r.resp = LT!Grant -> "granted"
                                 [] r.resp = LT!Wait  -> "load"
                                 [] r.resp = LT!Abort -> "aborting"]
    /\ UNCHANGED <<pages, disk, logRecs, running, req, stale, ops, up, crashes,
                   latest, committed>>

\* The caller of a read GetPage (the heap file iterator, or insertTuple
\* testing for a free slot) reads the page and drops the object.
ReadDone(t) ==
    /\ up /\ pc[t] = "granted" /\ req[t].perm = LT!ReadPerm
    /\ pc' = [pc EXCEPT ![t] = "ready"]
    /\ UNCHANGED <<pages, disk, logRecs, running, lt, req, stale, ops, up, crashes,
                   latest, committed>>

(***************************************************************************)
(* The mutation of heapFile.insertTuple / deleteTuple on the page object   *)
(* that a write GetPage returned: change the tuples and setDirty(tid,      *)
(* true).  A stale object is no longer in the pool, so the change reaches  *)
(* neither the pool nor, ever, the disk or the log; the transaction goes   *)
(* on as if it had.                                                        *)
(***************************************************************************)
MutatePage(t, add, del) ==
    LET p == req[t].page
        f(c) == (c \cup add) \ del
    IN
    /\ up /\ pc[t] = "granted" /\ req[t].perm = LT!WritePerm
    /\ pages' = IF stale[t] THEN pages
                ELSE [pages EXCEPT ![p] = [@ EXCEPT !.content = f(@),
                                                    !.dirty = TRUE,
                                                    !.lastTxn = t]]
    /\ latest' = [latest EXCEPT ![p] = f(@)]
    /\ pc' = [pc EXCEPT ![t] = "ready"]
    /\ UNCHANGED <<disk, logRecs, running, lt, req, stale, ops, up, crashes, committed>>

\* The page change of heapFile.insertTuple: heapp.insertTuple(t) puts the
\* tuple tagged t into the page, and setDirty(tid, true).  The scan for a
\* free slot and the extension of the file are HeapFile's.
insertTuple(t) == MutatePage(t, {t}, {})

\* The page change of heapFile.deleteTuple: setDirty(tid, true) and
\* hp.deleteTuple(rid) remove a tuple x the transaction read.  The rid
\* checks and the hint update are HeapFile's.
deleteTuple(t) ==
    \E x \in Txn :
        /\ MutatePage(t, {}, {x})
        /\ x \in IF stale[t] THEN latest[req[t].page] ELSE pages[req[t].page].content

CommittedFrame(f, t) == [f EXCEPT !.dirty = FALSE, !.lastTxn = t, !.bImage = f.content]

CommitTransaction(t) ==
    LET W == LT!WriteLockedPages(lt, t)
        D == {p \in W \cap DOMAIN pages : pages[p].dirty}
        ds == SetToSeq(D)
        upd == [i \in 1..Len(ds) |->
                  UpdateRec(t, ds[i], pages[ds[i]].bImage, pages[ds[i]].content)]
    IN
    /\ up /\ pc[t] = "ready"
    /\ t \in running
    /\ pages' = [k \in DOMAIN pages |->
                   IF k \in D THEN CommittedFrame(pages[k], t) ELSE pages[k]]
    /\ logRecs' = (logRecs \o upd) \o <<Ctl("commit", t)>>
    /\ lt' = LT!ReleaseLocks(lt, t)
    /\ running' = running \ {t}
    /\ pc' = [pc EXCEPT ![t] = "done"]
    /\ committed' = [p \in Pages |-> IF p \in W THEN latest[p] ELSE committed[p]]
    /\ UNCHANGED <<disk, req, stale, ops, up, crashes, latest>>

(***************************************************************************)
(* bp.Rollback(tid): walk the log from the end; for every UPDATE of tid    *)
(* write its before-image to disk (and drop from the pool every page whose *)
(* lastTxn is tid).  The latest write to a page is that of the earliest    *)
(* record.                                                                 *)
(***************************************************************************)
RECURSIVE RollbackDiskForward(_, _, _)
\* A plausible bug: the log is walked forwards, so the latest write to a
\* page is the before-image of its last UPDATE.
RollbackDiskForward(recs, tid, d) ==
    IF recs = <<>> THEN d
    ELSE LET r == Head(recs)
             d1 == IF r.type = "update" /\ r.tid = tid
                   THEN [d EXCEPT ![r.page] = r.before] ELSE d
         IN  RollbackDiskForward(Tail(recs), tid, d1)

RECURSIVE RollbackDisk(_, _, _)
RollbackDisk(recs, tid, d) ==
    IF recs = <<>> THEN d
    ELSE LET r == recs[Len(recs)]
             d1 == IF r.type = "update" /\ r.tid = tid
                   THEN [d EXCEPT ![r.page] = r.before] ELSE d
         IN  RollbackDisk(SubSeq(recs, 1, Len(recs) - 1), tid, d1)

HasUpdate(recs, tid) == \E i \in 1..Len(recs) : recs[i].type = "update" /\ recs[i].tid = tid

(***************************************************************************)
(* bp.AbortTransaction(tid): if tid is running, log and force ABORT,       *)
(* Rollback, drop the pages tid write-locked from the pool, release its    *)
(* locks and forget it.  Called by the client (from "ready") or by GetPage *)
(* after TryLock answered Abort.                                           *)
(***************************************************************************)
AbortTransaction(t) ==
    LET W == LT!WriteLockedPages(lt, t)
        recs == Append(logRecs, Ctl("abort", t))
        byT == IF HasUpdate(recs, t)
               THEN {k \in DOMAIN pages : pages[k].lastTxn = t} ELSE {}
        gone == (byT \cup W) \cap DOMAIN pages
    IN
    /\ up /\ pc[t] \in {"ready", "aborting"}
    /\ t \in running
    /\ logRecs' = recs
    /\ disk' = RollbackDisk(recs, t, disk)
    /\ pages' = Drop(pages, gone)
    /\ stale' = MarkStale(gone)
    /\ lt' = LT!ReleaseLocks(lt, t)
    /\ running' = running \ {t}
    /\ pc' = [pc EXCEPT ![t] = "done"]
    /\ latest' = [p \in Pages |-> IF p \in W THEN committed[p] ELSE latest[p]]
    /\ UNCHANGED <<req, ops, up, crashes, committed>>

(***************************************************************************)
(* A crash loses the pool, the lock table and the running set; threads     *)
(* inside a transaction die.  Disk pages and the (forced) log survive.     *)
(***************************************************************************)
Crash ==
    /\ up /\ crashes < MaxCrashes
    /\ up' = FALSE
    /\ crashes' = crashes + 1
    /\ pages' = [k \in {} |-> CHOOSE f \in Frame : TRUE]
    /\ lt' = LT!NewLockTable
    /\ running' = {}
    /\ pc' = [t \in Txn |-> IF pc[t] = "idle" THEN "idle" ELSE "done"]
    /\ latest' = committed
    /\ UNCHANGED <<disk, logRecs, req, stale, ops, committed>>

(***************************************************************************)
(* bp.Recover(logFile).  Redo: forward over the log, install the after-    *)
(* image of every UPDATE whose tid has not yet been seen to commit or      *)
(* abort, and note that tid as active; a COMMIT/ABORT marks its tid        *)
(* completed and no longer active.  Undo: backward over the log, install   *)
(* the before-image of every UPDATE of a still-active tid.                 *)
(***************************************************************************)
RECURSIVE Redo(_, _)
Redo(recs, st) ==
    IF recs = <<>> THEN st
    ELSE LET r == Head(recs)
             st1 == CASE r.type = "update" /\ r.tid \notin st.completed ->
                           [st EXCEPT !.disk[r.page] = r.after,
                                      !.active = @ \cup {r.tid}]
                      [] r.type \in {"commit", "abort"} ->
                           [st EXCEPT !.completed = @ \cup {r.tid},
                                      !.active = @ \ {r.tid}]
                      [] OTHER -> st
         IN  Redo(Tail(recs), st1)

RECURSIVE UndoForward(_, _, _)
\* A plausible bug: the undo pass walks the log forwards.
UndoForward(recs, active, d) ==
    IF recs = <<>> THEN d
    ELSE LET r == Head(recs)
             d1 == IF r.type = "update" /\ r.tid \in active
                   THEN [d EXCEPT ![r.page] = r.before] ELSE d
         IN  UndoForward(Tail(recs), active, d1)

RECURSIVE Undo(_, _, _)
Undo(recs, active, d) ==
    IF recs = <<>> THEN d
    ELSE LET r == recs[Len(recs)]
             d1 == IF r.type = "update" /\ r.tid \in active
                   THEN [d EXCEPT ![r.page] = r.before] ELSE d
         IN  Undo(SubSeq(recs, 1, Len(recs) - 1), active, d1)

RecoverDisk(recs, d) ==
    LET st == Redo(recs, [disk |-> d, completed |-> {}, active |-> {}])
    IN  Undo(recs, st.active, st.disk)

Recover ==
    /\ ~up
    /\ up' = TRUE
    /\ disk' = RecoverDisk(logRecs, disk)
    /\ UNCHANGED <<pages, logRecs, running, lt, pc, req, stale, ops, crashes,
                   latest, committed>>

(***************************************************************************)
(* The specification.                                                      *)
(***************************************************************************)
ThreadStep(t) ==
    \/ BeginTransaction(t)
    \/ \E p \in Pages, perm \in Perm : GetPage(t, p, perm)
    \/ loadPage(t)
    \/ TryLockStep(t)
    \/ ReadDone(t)
    \/ insertTuple(t)
    \/ deleteTuple(t)
    \/ CommitTransaction(t)
    \/ AbortTransaction(t)

Next == (\E t \in Txn : ThreadStep(t)) \/ Crash \/ Recover

\* Every thread is scheduled (weak fairness per thread: a runnable goroutine
\* eventually runs, and the Wait loop polls); startup always runs Recover.
\* Crashes are not fair: they may never happen.
Fairness == (\A t \in Txn : WF_vars(ThreadStep(t))) /\ WF_vars(Recover)

Spec == Init /\ [][Next]_vars /\ Fairness

(***************************************************************************)
(* Properties.                                                             *)
(***************************************************************************)

\* What a GetPage of p would read now: the cached frame, or else the disk.
View(p) == IF p \in DOMAIN pages THEN pages[p].content ELSE disk[p]

\* Transactions that began and have no COMMIT or ABORT record in the log.
Unterminated(recs) ==
    {recs[i].tid : i \in {j \in 1..Len(recs) : recs[j].type = "begin"}} \
    {recs[i].tid : i \in {j \in 1..Len(recs) : recs[j].type \in {"commit", "abort"}}}

TypeOK ==
    /\ \E S \in SUBSET Pages : pages \in [S -> Frame]
    /\ Cardinality(DOMAIN pages) <= MaxPages
    /\ disk \in [Pages -> Content]
    /\ logRecs \in Seq(Record)
    /\ running \subseteq Txn
    /\ lt \in LT!LockTableType
    /\ pc \in [Txn -> {"idle", "ready", "load", "lock", "granted", "aborting", "done"}]
    /\ req \in [Txn -> [page: Pages, perm: Perm]]
    /\ stale \in [Txn -> BOOLEAN]
    /\ ops \in [Txn -> 0..MaxOps]
    /\ up \in BOOLEAN /\ crashes \in 0..MaxCrashes
    /\ latest \in [Pages -> Content] /\ committed \in [Pages -> Content]

\* Two-phase locking (TryLock, ReleaseLocks): a page's writer is its only
\* possible reader, and a thread that GetPage granted a page holds the lock
\* it asked for until its transaction ends.
LockCompatible ==
    /\ \A p \in Pages : lt.write[p] # NoTxn => lt.read[p] \subseteq {lt.write[p]}
    /\ \A t \in Txn : pc[t] = "granted" =>
          IF req[t].perm = LT!WritePerm THEN lt.write[req[t].page] = t
                                        ELSE t \in lt.read[req[t].page]

AbortErasesTxn ==
    [][\A t \in Txn : AbortTransaction(t) => \A p \in Pages : t \notin View(p)']_vars

\* Recover removes the work of every transaction the crash interrupted: after
\* it, no page on disk holds a tuple of a transaction that began and never
\* logged COMMIT or ABORT, whatever evictions flushed before the crash.
RecoveryUndoesLosers ==
    [][Recover => \A p \in Pages : disk'[p] \cap Unterminated(logRecs) = {}]_vars

\* Every transaction that begins eventually commits or aborts: a thread
\* polling in GetPage's Wait loop is either granted or chosen as a deadlock
\* victim (spec section 5, "Wait cannot livelock").
Termination ==
    \A t \in Txn : pc[t] \in {"ready", "load", "lock", "granted", "aborting"}
                       ~> pc[t] = "done"

\* A GetPage of a page reads what the transactions wrote: the committed
\* content, plus the writes of the transaction holding its write lock
\* (spec section 8, invariant 1, within one run of the process).
ReadSeesLatest == up => \A p \in Pages : View(p) = latest[p]

\* Recover installs on disk exactly the content of the committed
\* transactions (spec section 8, invariants 1 and 2, across restarts).
RecoveryRestoresCommitted ==
    [][Recover => \A p \in Pages : disk'[p] = committed[p]]_vars

\* The page object GetPage returns with a granted lock is the one in the
\* pool, so the caller's mutation is the one the pool logs and flushes.
NoStaleGrant == \A t \in Txn : pc[t] = "granted" => ~stale[t]

\* Spec section 8, scenario 5: of two transactions that deadlock, exactly
\* one is told to abort.
AtMostOneDeadlockVictim == Cardinality({t \in Txn : pc[t] = "aborting"}) <= 1

\* Spec section 3 / section 8 invariant 3: a transaction is a page's reader
\* or its writer, never both (an upgrade drops the reader entry).
ReaderNotWriter == \A p \in Pages : lt.write[p] \notin lt.read[p]
=============================================================================
