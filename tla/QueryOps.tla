------------------------------- MODULE QueryOps -------------------------------
(***************************************************************************)
(* The pull iterators of the query executor: EqualityJoin (join_op.go),    *)
(* Filter (filter_op.go), Project (project_op.go), OrderBy                 *)
(* (order_by_op.go) and LimitOp (limit_op.go).  One behaviour runs one     *)
(* operator over children given as the sequences of what their iterators   *)
(* return; the caller calls the operator's closure until it returns nil or *)
(* an error.  Each step is one pass of the closure's loop, so a call that  *)
(* loops without returning is a sequence of steps that never ends.         *)
(*                                                                         *)
(* A child element is a value of Vals, CErr (the child's iterator returns  *)
(* an error there) or Bad (a tuple on which the operator's expression,     *)
(* EvalExpr, fails: spec section 6, a non-fatal per-tuple error).  Tuples  *)
(* of the join, filter, project and limit have one field; OrderBy sorts    *)
(* pairs by a list of key fields.  The join's output tuple is the pair of  *)
(* positions <<i, j>> of the left and right tuples that joinTuples merges. *)
(***************************************************************************)
EXTENDS Integers, Sequences, FiniteSets, TLC

CONSTANTS
    Vals,        \* field values
    Bad, CErr,   \* model values: an expression error, a child error
    MaxLen,      \* bound: tuples a child returns
    Ops,         \* the operators checked: "join", "filter", "project", "orderby", "limit"
    EvalErrOps,  \* the operators whose children may hold a Bad tuple
    BufSizes,    \* the join's maxBufferSize
    Limits       \* LIMIT constants

Elems(o) == Vals \cup {CErr} \cup (IF o \in EvalErrOps THEN {Bad} ELSE {})
Rows == Vals \X Vals
Children(S) == UNION {[1..m -> S] : m \in 0..MaxLen}
KeyLists == {<<1>>, <<2>>, <<1, 2>>, <<2, 1>>}
Failing(x) == x \in {Bad, CErr}
RangeOf(s) == {s[i] : i \in DOMAIN s}

VARIABLES
    op,      \* the operator this behaviour runs
    left,    \* its (left) child's tuples
    right,   \* the join's right child's tuples
    prm,     \* the constructor's arguments
    st,      \* the closure's captured locals
    out,     \* the tuples the calls returned so far
    res      \* "running", or how the last call ended: "nil" or "err"

qvars == <<op, left, right, prm, st, out, res>>

NoPrm == [buf |-> 0, pred |-> CHOOSE v \in Vals : TRUE, distinct |-> FALSE,
          keys |-> <<1>>, asc |-> <<TRUE>>, lim |-> 0]

\* The arguments NewJoin, the Filter's constant, NewProjectOp, NewOrderBy
\* and NewLimitOp receive.
Params(o) ==
    CASE o = "join"    -> {[NoPrm EXCEPT !.buf = b] : b \in BufSizes}
      [] o = "filter"  -> {[NoPrm EXCEPT !.pred = v] : v \in Vals}
      [] o = "project" -> {[NoPrm EXCEPT !.distinct = d] : d \in BOOLEAN}
      [] o = "orderby" -> UNION {{[NoPrm EXCEPT !.keys = ks, !.asc = a] :
                                     a \in [1..Len(ks) -> BOOLEAN]} : ks \in KeyLists}
      [] o = "limit"   -> {[NoPrm EXCEPT !.lim = l] : l \in Limits}

\* The locals the Iterator methods capture, each operator using its own.
NoMap == [v \in Vals |-> <<>>]
InitLocals ==
    [needLoad |-> TRUE, exhausted |-> FALSE, hm |-> NoMap, lpos |-> 0,
     rpos |-> 0, curT |-> 0, matches |-> <<>>, curMatch |-> 0,
     pos |-> 0, tups |-> <<>>, drained |-> FALSE, cur |-> 0, numTups |-> 0]

Init ==
    /\ op \in Ops
    /\ left \in Children(IF op = "orderby" THEN Rows \cup {CErr} ELSE Elems(op))
    /\ right \in IF op = "join" THEN Children(Elems(op)) ELSE {<<>>}
    /\ prm \in Params(op)
    /\ st = InitLocals
    /\ out = <<>>
    /\ res = "running"

Running(o) == op = o /\ res = "running"
Emit(t) == out' = Append(out, t)

(***************************************************************************)
(* EqualityJoin: a block hash join.  loadOuterBatch pulls up to n left     *)
(* tuples into a map from join value to the tuples, in order; the right    *)
(* child's iterator is created anew for each batch and probes it.          *)
(***************************************************************************)
\* A plausible bug: the tuple is pulled before the n = 0 test, so the tuple
\* that would start the next batch is pulled and dropped.
RECURSIVE LoadOuterBatchPullFirst(_, _, _)
LoadOuterBatchPullFirst(n, pos, hm) ==
    IF pos = Len(left) THEN [hm |-> hm, pos |-> pos, ex |-> TRUE, err |-> FALSE]
    ELSE IF Failing(left[pos + 1]) THEN [hm |-> hm, pos |-> pos + 1, ex |-> FALSE, err |-> TRUE]
    ELSE IF n = 0 THEN [hm |-> hm, pos |-> pos + 1, ex |-> FALSE, err |-> FALSE]
    ELSE LoadOuterBatchPullFirst(n - 1, pos + 1,
             [hm EXCEPT ![left[pos + 1]] = Append(@, pos + 1)])

\* A plausible bug: a defensive n <= 0 test, which loads nothing for the
\* unbounded maxBufferSize -1.
RECURSIVE LoadOuterBatchNonPositive(_, _, _)
LoadOuterBatchNonPositive(n, pos, hm) ==
    IF n <= 0 THEN [hm |-> hm, pos |-> pos, ex |-> FALSE, err |-> FALSE]
    ELSE IF pos = Len(left) THEN [hm |-> hm, pos |-> pos, ex |-> TRUE, err |-> FALSE]
    ELSE IF Failing(left[pos + 1]) THEN [hm |-> hm, pos |-> pos + 1, ex |-> FALSE, err |-> TRUE]
    ELSE LoadOuterBatchNonPositive(n - 1, pos + 1,
             [hm EXCEPT ![left[pos + 1]] = Append(@, pos + 1)])

\* loadOuterBatch(n, iter): the map, where the left child stands, whether
\* it is exhausted, and whether iter or leftField.EvalExpr failed.
RECURSIVE LoadOuterBatch(_, _, _)
LoadOuterBatch(n, pos, hm) ==
    IF n = 0 THEN [hm |-> hm, pos |-> pos, ex |-> FALSE, err |-> FALSE]
    ELSE IF pos = Len(left) THEN [hm |-> hm, pos |-> pos, ex |-> TRUE, err |-> FALSE]
    ELSE IF Failing(left[pos + 1]) THEN [hm |-> hm, pos |-> pos + 1, ex |-> FALSE, err |-> TRUE]
    ELSE LoadOuterBatch(n - 1, pos + 1, [hm EXCEPT ![left[pos + 1]] = Append(@, pos + 1)])

\* needLoad with the left child exhausted: the join returns nil.
JoinEnd ==
    /\ Running("join") /\ st.needLoad /\ st.exhausted
    /\ res' = "nil"
    /\ UNCHANGED <<op, left, right, prm, st, out>>

\* needLoad: load the next batch and create the right child's iterator.
JoinLoad ==
    LET b == LoadOuterBatch(prm.buf, st.lpos, NoMap) IN
    /\ Running("join") /\ st.needLoad /\ ~st.exhausted
    /\ IF b.err
       THEN res' = "err" /\ UNCHANGED st
       ELSE /\ st' = [st EXCEPT !.hm = b.hm, !.exhausted = b.ex, !.lpos = b.pos,
                                !.rpos = 0, !.needLoad = FALSE]
            /\ UNCHANGED res
    /\ UNCHANGED <<op, left, right, prm, out>>

\* curT = nil: pull the next right tuple and look up its matches; at the
\* end of the right child, needLoad.
JoinPull ==
    /\ Running("join") /\ ~st.needLoad /\ st.curT = 0
    /\ IF st.rpos = Len(right)
       THEN st' = [st EXCEPT !.needLoad = TRUE] /\ UNCHANGED res
       ELSE IF Failing(right[st.rpos + 1])
       THEN res' = "err" /\ UNCHANGED st
       ELSE /\ st' = [st EXCEPT !.rpos = @ + 1, !.curT = st.rpos + 1,
                                !.matches = st.hm[right[st.rpos + 1]], !.curMatch = 0]
            /\ UNCHANGED res
    /\ UNCHANGED <<op, left, right, prm, out>>

\* Return the join of the next match with curT.
JoinEmit ==
    /\ Running("join") /\ ~st.needLoad /\ st.curT # 0
    /\ st.curMatch < Len(st.matches)
    /\ Emit(<<st.matches[st.curMatch + 1], st.curT>>)
    /\ st' = [st EXCEPT !.curMatch = @ + 1]
    /\ UNCHANGED <<op, left, right, prm, res>>

\* No match left for curT: curT = nil.
JoinSkip ==
    /\ Running("join") /\ ~st.needLoad /\ st.curT # 0
    /\ st.curMatch >= Len(st.matches)
    /\ st' = [st EXCEPT !.curT = 0]
    /\ UNCHANGED <<op, left, right, prm, out, res>>

(***************************************************************************)
(* Filter: one pass of the closure's loop.  An EvalExpr error returns the  *)
(* child's error variable, which is nil there: the call returns (nil,      *)
(* nil), which the caller takes for the end of the tuples.                 *)
(***************************************************************************)
FilterStep ==
    LET t == left[st.pos + 1] IN
    /\ Running("filter")
    /\ IF st.pos = Len(left) THEN res' = "nil" /\ UNCHANGED <<st, out>>
       ELSE CASE t = CErr -> res' = "err" /\ UNCHANGED <<st, out>>
              [] t = Bad  -> res' = "nil" /\ UNCHANGED <<st, out>>
              [] OTHER    -> /\ st' = [st EXCEPT !.pos = @ + 1]
                             /\ IF t = prm.pred THEN Emit(t) ELSE UNCHANGED out
                             /\ UNCHANGED res
    /\ UNCHANGED <<op, left, right, prm>>

(***************************************************************************)
(* Project: without distinct each call pulls a tuple and returns its       *)
(* projection; with distinct the first call drains the child, keeping the  *)
(* first tuple of each key in distinctTups, and the calls return those.    *)
(***************************************************************************)
\* A plausible bug: an EvalExpr error skips the tuple instead of returning.
ProjPullSkipError ==
    LET t == left[st.pos + 1] IN
    /\ Running("project") /\ ~st.drained
    /\ IF st.pos = Len(left)
       THEN IF prm.distinct THEN st' = [st EXCEPT !.drained = TRUE] /\ UNCHANGED res
            ELSE res' = "nil" /\ UNCHANGED st
       ELSE IF t = CErr THEN res' = "err" /\ UNCHANGED st
       ELSE /\ st' = [st EXCEPT !.pos = @ + 1,
                  !.tups = IF prm.distinct /\ t # Bad /\ t \notin RangeOf(st.tups)
                           THEN Append(@, t) ELSE @]
            /\ UNCHANGED res
    /\ IF ~prm.distinct /\ st.pos < Len(left) /\ t \in Vals THEN Emit(t) ELSE UNCHANGED out
    /\ UNCHANGED <<op, left, right, prm>>

ProjPull ==
    LET t == left[st.pos + 1] IN
    /\ Running("project") /\ ~st.drained
    /\ IF st.pos = Len(left)
       THEN IF prm.distinct THEN st' = [st EXCEPT !.drained = TRUE] /\ UNCHANGED res
            ELSE res' = "nil" /\ UNCHANGED st
       ELSE IF Failing(t) THEN res' = "err" /\ UNCHANGED st
       ELSE /\ st' = [st EXCEPT !.pos = @ + 1,
                  !.tups = IF prm.distinct /\ t \notin RangeOf(st.tups) THEN Append(@, t) ELSE @]
            /\ UNCHANGED res
    /\ IF ~prm.distinct /\ st.pos < Len(left) /\ ~Failing(t) THEN Emit(t) ELSE UNCHANGED out
    /\ UNCHANGED <<op, left, right, prm>>

\* distinct, after the drain: return distinctTups[curDistinct], or nil.
ProjEmit ==
    /\ Running("project") /\ st.drained
    /\ IF st.cur >= Len(st.tups)
       THEN res' = "nil" /\ UNCHANGED <<st, out>>
       ELSE Emit(st.tups[st.cur + 1]) /\ st' = [st EXCEPT !.cur = @ + 1] /\ UNCHANGED res
    /\ UNCHANGED <<op, left, right, prm>>

(***************************************************************************)
(* OrderBy: the Iterator method drains the child (one pull per step) and   *)
(* sorts with sort.Sort under TupSortState.Less; the closure then returns  *)
(* the sorted tuples one per call.                                         *)
(***************************************************************************)
\* tup1.compareField(tup2, field): the order of the two field values.
CompareField(a, b) == IF a < b THEN "lt" ELSE IF a > b THEN "gt" ELSE "eq"

\* A plausible bug: tuples equal on every key compare as less.
RECURSIVE LessTiesTrue(_, _, _, _, _)
LessTiesTrue(keys, asc, t1, t2, i) ==
    IF i > Len(keys) THEN TRUE
    ELSE CASE CompareField(t1[keys[i]], t2[keys[i]]) = "lt" -> asc[i]
           [] CompareField(t1[keys[i]], t2[keys[i]]) = "gt" -> ~asc[i]
           [] OTHER -> LessTiesTrue(keys, asc, t1, t2, i + 1)

\* TupSortState.Less from the i-th key on: the first key on which the
\* tuples differ decides, in its direction; equal on all keys is not less.
RECURSIVE Less(_, _, _, _, _)
Less(keys, asc, t1, t2, i) ==
    IF i > Len(keys) THEN FALSE
    ELSE CASE CompareField(t1[keys[i]], t2[keys[i]]) = "lt" -> asc[i]
           [] CompareField(t1[keys[i]], t2[keys[i]]) = "gt" -> ~asc[i]
           [] OTHER -> Less(keys, asc, t1, t2, i + 1)

TupLess(t1, t2) == Less(prm.keys, prm.asc, t1, t2, 1)

\* sort.Sort is not stable: any order of the tuples in which no tuple is
\* Less than the one before it.
SortedOrders(s) ==
    {[i \in 1..Len(s) |-> s[p[i]]] : p \in Permutations(1..Len(s))} \cap
    {r \in [1..Len(s) -> Rows] : \A i \in 1..Len(s) - 1 : ~TupLess(r[i + 1], r[i])}

OrderDrain ==
    /\ Running("orderby") /\ ~st.drained
    /\ IF st.pos = Len(left)
       THEN /\ \E r \in SortedOrders(left) : st' = [st EXCEPT !.tups = r, !.drained = TRUE]
            /\ UNCHANGED res
       ELSE IF left[st.pos + 1] = CErr THEN res' = "err" /\ UNCHANGED st
       ELSE st' = [st EXCEPT !.pos = @ + 1] /\ UNCHANGED res
    /\ UNCHANGED <<op, left, right, prm, out>>

OrderEmit ==
    /\ Running("orderby") /\ st.drained
    /\ IF st.cur < Len(st.tups)
       THEN Emit(st.tups[st.cur + 1]) /\ st' = [st EXCEPT !.cur = @ + 1] /\ UNCHANGED res
       ELSE res' = "nil" /\ UNCHANGED <<st, out>>
    /\ UNCHANGED <<op, left, right, prm>>

(***************************************************************************)
(* LimitOp: each call pulls a child tuple first, and returns nil when it   *)
(* is nil or limitTups tuples were already returned.                       *)
(***************************************************************************)
\* A plausible bug: the limit test after the count is raised.
LimitCallLate ==
    LET t == left[st.pos + 1] IN
    /\ Running("limit")
    /\ IF st.pos = Len(left) THEN res' = "nil" /\ UNCHANGED <<st, out>>
       ELSE IF t = CErr THEN res' = "err" /\ UNCHANGED <<st, out>>
       ELSE IF st.numTups = prm.lim + 1 THEN res' = "nil" /\ UNCHANGED <<st, out>>
       ELSE /\ st' = [st EXCEPT !.pos = @ + 1, !.numTups = @ + 1]
            /\ Emit(t) /\ UNCHANGED res
    /\ UNCHANGED <<op, left, right, prm>>

LimitCall ==
    LET t == left[st.pos + 1] IN
    /\ Running("limit")
    /\ IF st.pos = Len(left) THEN res' = "nil" /\ UNCHANGED <<st, out>>
       ELSE IF t = CErr THEN res' = "err" /\ UNCHANGED <<st, out>>
       ELSE IF st.numTups = prm.lim THEN res' = "nil" /\ UNCHANGED <<st, out>>
       ELSE /\ st' = [st EXCEPT !.pos = @ + 1, !.numTups = @ + 1]
            /\ Emit(t) /\ UNCHANGED res
    /\ UNCHANGED <<op, left, right, prm>>

Next ==
    \/ JoinEnd \/ JoinLoad \/ JoinPull \/ JoinEmit \/ JoinSkip
    \/ FilterStep
    \/ ProjPull \/ ProjEmit
    \/ OrderDrain \/ OrderEmit
    \/ LimitCall

\* The executor calls the closure until it returns nil or an error.
Spec == Init /\ [][Next]_qvars /\ WF_qvars(Next)

(***************************************************************************)
(* Reference definitions and properties.                                   *)
(***************************************************************************)
\* The equality join as a nested loop: every pair of positions whose
\* values are equal.
JoinRef == {<<i, j>> \in (1..Len(left)) \X (1..Len(right)) : left[i] = right[j]}

\* The tuples of s, each value kept at its first occurrence.
RECURSIVE Dedup(_)
Dedup(s) == IF s = <<>> THEN s
            ELSE <<Head(s)>> \o Dedup(SelectSeq(Tail(s), LAMBDA x : x # Head(s)))

\* The block hash join returns each matching pair of left and right tuples
\* exactly once, whatever maxBufferSize cuts the left child into batches:
\* the right child is scanned once per batch, a batch that ends exactly at
\* the last left tuple is followed by an empty one, and duplicates of a
\* join value in one batch all match.
JoinIsEquiJoin ==
    op = "join" /\ res = "nil" => Len(out) = Cardinality(JoinRef) /\ RangeOf(out) = JoinRef

\* Filter returns the tuples that satisfy the predicate, in order; Project
\* returns the projections, with distinct the first tuple of each value in
\* the order first seen; LimitOp returns the first limitTups tuples, or all
\* of them when limitTups is negative or beyond the child's.
OperatorOutputs ==
    res = "nil" =>
        CASE op = "filter"  -> out = SelectSeq(left, LAMBDA x : x = prm.pred)
          [] op = "project" -> out = IF prm.distinct THEN Dedup(left) ELSE left
          [] op = "limit"   -> out = IF prm.lim < 0 \/ prm.lim >= Len(left) THEN left
                                     ELSE SubSeq(left, 1, prm.lim)
          [] OTHER -> TRUE

\* Spec section 6: an iterator yields nil only at the end of its tuples,
\* and an error of a child or of an expression surfaces outward along the
\* iterator chain.  An operator that reads all of its children ends with
\* nil only if none of their tuples failed.
ErrorsSurface ==
    res = "nil" /\ op \in {"join", "filter", "project", "orderby"} =>
        \A x \in RangeOf(left) \cup RangeOf(right) : ~Failing(x)

\* sort.Sort requires Less to be a strict weak order: irreflexive,
\* transitive, and with incomparability transitive, for every list of key
\* fields and directions OrderBy is built with.
LessIsStrictWeakOrder ==
    op = "orderby" =>
        \A a, b, c \in Rows :
            /\ ~TupLess(a, a)
            /\ TupLess(a, b) /\ TupLess(b, c) => TupLess(a, c)
            /\ (~TupLess(a, b) /\ ~TupLess(b, a) /\ ~TupLess(b, c) /\ ~TupLess(c, b))
                   => ~TupLess(a, c) /\ ~TupLess(c, a)

\* Every operator's iterator ends: the executor's calls reach nil or an
\* error, for every maxBufferSize the join is given.
OperatorsTerminate == <>(res # "running")
=============================================================================
