---------------------------- MODULE JoinOptimizer ----------------------------
(***************************************************************************)
(* OrderJoins of src/godb/join_optimizer.go: the dynamic program over      *)
(* subsets of join predicates, with its memo (Trie), its subset order      *)
(* (SubsetIter) and AddJoin's slices modelled as Go slices, that is as     *)
(* views [arr, len, cap] of arrays in a heap, so that append writes into   *)
(* the array it shares with other slices whenever len < cap.               *)
(*                                                                         *)
(* A join predicate is a record [l, r] of table names; the join node       *)
(* pointers of the Go slices are references [id, sw]: the id-th predicate  *)
(* (0-based, its position in the joins slice) or, when sw, the node        *)
(* Swap() made of it.  Costs are the Go float64 costs times                *)
(* JoinBufferSize: with integer scan costs this scaled cost is an integer  *)
(* and, with JoinBufferSize a power of two, the float arithmetic is exact. *)
(***************************************************************************)
EXTENDS Integers, Sequences, FiniteSets
LOCAL INSTANCE SequencesExt

CONSTANTS
    Tables,          \* table names
    Card,            \* Card[t]: stats.EstimateCardinality(sel) of table t
    ScanCost,        \* ScanCost[t]: stats.EstimateScanCost() of table t
    JoinBufferSize,  \* the hash-join buffer size of the cost model
    MaxJoins,        \* bound: the number of join predicates
    Nil              \* model value: a nil *orderStats / nil pointer

SI == INSTANCE SubsetIter WITH MaxN <- MaxJoins, n <- 0, k <- 0, failed <- FALSE,
        c <- <<>>, first <- TRUE, done <- FALSE, prev <- <<>>, seen <- {},
        repeated <- FALSE
TR == INSTANCE Trie WITH Elems <- 0..MaxJoins - 1, Vals <- {}, Zero <- Nil,
        MaxLen <- MaxJoins, trie <- Nil, m <- Nil

Pairs == {p \in [l: Tables, r: Tables] : p.l # p.r}

(***************************************************************************)
(* The cost model: EstimateJoinCost (scaled by JoinBufferSize, so cost1    *)
(* and cost2 are scaled costs) and EstimateJoinCardinality.                *)
(***************************************************************************)
EstimateJoinCost(card1, card2, cost1, cost2) ==
    JoinBufferSize * (card1 + card2) + cost1
      + (Max({card1, JoinBufferSize}) * cost2) \div JoinBufferSize

EstimateJoinCardinality(c1, c2) == IF c1 = 0 \/ c2 = 0 THEN 0 ELSE Max({1, c1, c2})

\* stats.EstimateScanCost() in scaled units.
ScanCostOf(t) == JoinBufferSize * ScanCost[t]

\* The tables of a join node reference: Swap() exchanges them.
LeftT(joins, e)  == IF e.sw THEN joins[e.id + 1].r ELSE joins[e.id + 1].l
RightT(joins, e) == IF e.sw THEN joins[e.id + 1].l ELSE joins[e.id + 1].r

(***************************************************************************)
(* Go slices.  A literal []*JoinNode{x} is a new array of capacity 1;      *)
(* append writes in place when len < cap and otherwise copies into a new   *)
(* array of twice the capacity (growslice for 8-byte elements below 256,   *)
(* whose size classes are the powers of two here).                         *)
(***************************************************************************)
EmptySlice == [arr |-> 0, len |-> 0, cap |-> 0]

SliceLiteral(heap, x) ==
    [heap |-> Append(heap, <<x>>), s |-> [arr |-> Len(heap) + 1, len |-> 1, cap |-> 1]]

AppendSlice(heap, s, x) ==
    IF s.len < s.cap
    THEN [heap |-> [heap EXCEPT ![s.arr][s.len + 1] = x], s |-> [s EXCEPT !.len = @ + 1]]
    ELSE LET nc == IF s.cap = 0 THEN 1 ELSE 2 * s.cap
             a  == [i \in 1..nc |-> IF i <= s.len THEN heap[s.arr][i]
                                    ELSE IF i = s.len + 1 THEN x ELSE Nil]
         IN  [heap |-> Append(heap, a),
              s    |-> [arr |-> Len(heap) + 1, len |-> s.len + 1, cap |-> nc]]

\* The elements a slice shows now.
Elements(heap, s) == [i \in 1..s.len |-> heap[s.arr][i]]

\* HasTable(order, name)
HasTable(joins, heap, s, t) ==
    \E i \in 1..s.len : t \in {LeftT(joins, heap[s.arr][i]), RightT(joins, heap[s.arr][i])}

\* AddJoin's final loop: the first option of least cost.
Cheapest(opts) == IF Len(opts) = 2 /\ opts[2].cost < opts[1].cost THEN opts[2] ELSE opts[1]

(***************************************************************************)
(* AddJoin(join, order_stats), returning [heap, res]: for the first join   *)
(* both orientations, each a new one-element slice; otherwise the join     *)
(* appended to the order when its left table is in it, and the swapped     *)
(* join appended when its right table is: two appends to the same slice.  *)
(***************************************************************************)
\* A plausible bug: the first join is only tried in its given orientation.
AddJoinFirstNoSwap(joins, heap, j, os) ==
    LET l == joins[j + 1].l
        r == joins[j + 1].r
        fwd == [id |-> j, sw |-> FALSE]
        swp == [id |-> j, sw |-> TRUE]
    IN
    IF os.order.len = 0
    THEN LET a1 == SliceLiteral(heap, fwd) IN
         [heap |-> a1.heap,
          res  |-> [order |-> a1.s,
                    cost  |-> EstimateJoinCost(Card[l], Card[r], ScanCostOf(l), ScanCostOf(r)),
                    card  |-> EstimateJoinCardinality(Card[l], Card[r])]]
    ELSE LET hasL == HasTable(joins, heap, os.order, l)
             hasR == HasTable(joins, heap, os.order, r)
             a1 == IF hasL THEN AppendSlice(heap, os.order, fwd) ELSE [heap |-> heap, s |-> Nil]
             a2 == IF hasR THEN AppendSlice(a1.heap, os.order, swp) ELSE a1
             o1 == [order |-> a1.s, cost |-> EstimateJoinCost(os.card, Card[r], os.cost, ScanCostOf(r)),
                    card  |-> EstimateJoinCardinality(os.card, Card[r])]
             o2 == [order |-> a2.s, cost |-> EstimateJoinCost(os.card, Card[l], os.cost, ScanCostOf(l)),
                    card  |-> EstimateJoinCardinality(os.card, Card[l])]
             opts == (IF hasL THEN <<o1>> ELSE <<>>) \o (IF hasR THEN <<o2>> ELSE <<>>)
         IN  [heap |-> a2.heap, res |-> IF opts = <<>> THEN Nil ELSE Cheapest(opts)]

AddJoin(joins, heap, j, os) ==
    LET l == joins[j + 1].l
        r == joins[j + 1].r
        fwd == [id |-> j, sw |-> FALSE]
        swp == [id |-> j, sw |-> TRUE]
    IN
    IF os.order.len = 0
    THEN LET a1 == SliceLiteral(heap, fwd)
             a2 == SliceLiteral(a1.heap, swp)
             o1 == [order |-> a1.s,
                    cost  |-> EstimateJoinCost(Card[l], Card[r], ScanCostOf(l), ScanCostOf(r)),
                    card  |-> EstimateJoinCardinality(Card[l], Card[r])]
             o2 == [order |-> a2.s,
                    cost  |-> EstimateJoinCost(Card[r], Card[l], ScanCostOf(r), ScanCostOf(l)),
                    card  |-> EstimateJoinCardinality(Card[r], Card[l])]
         IN  [heap |-> a2.heap, res |-> Cheapest(<<o1, o2>>)]
    ELSE LET hasL == HasTable(joins, heap, os.order, l)
             hasR == HasTable(joins, heap, os.order, r)
             a1 == IF hasL THEN AppendSlice(heap, os.order, fwd) ELSE [heap |-> heap, s |-> Nil]
             a2 == IF hasR THEN AppendSlice(a1.heap, os.order, swp) ELSE a1
             o1 == [order |-> a1.s, cost |-> EstimateJoinCost(os.card, Card[r], os.cost, ScanCostOf(r)),
                    card  |-> EstimateJoinCardinality(os.card, Card[r])]
             o2 == [order |-> a2.s, cost |-> EstimateJoinCost(os.card, Card[l], os.cost, ScanCostOf(l)),
                    card  |-> EstimateJoinCardinality(os.card, Card[l])]
             opts == (IF hasL THEN <<o1>> ELSE <<>>) \o (IF hasR THEN <<o2>> ELSE <<>>)
         IN  [heap |-> a2.heap, res |-> IF opts = <<>> THEN Nil ELSE Cheapest(opts)]

(***************************************************************************)
(* The body of OrderJoins' loop over one subset set: for each position j,  *)
(* look up set without its j-th element in the memo and, when found, keep *)
(* the AddJoin result if it is strictly cheaper than the best so far.      *)
(* st = [heap, best].                                                      *)
(***************************************************************************)
RECURSIVE TryEach(_, _, _, _, _)
TryEach(joins, cache, set, pos, st) ==
    IF pos > Len(set) THEN st
    ELSE LET bwj == TR!Get(cache, RemoveAt(set, pos)) IN
         IF bwj = Nil THEN TryEach(joins, cache, set, pos + 1, st)
         ELSE LET a == AddJoin(joins, st.heap, set[pos], bwj)
                  better == a.res # Nil /\ (st.best = Nil \/ a.res.cost < st.best.cost)
              IN  TryEach(joins, cache, set, pos + 1,
                          [heap |-> a.heap, best |-> IF better THEN a.res ELSE st.best])

(***************************************************************************)
(* OrderJoins(joins) as a state machine over its loops: one step per       *)
(* subset the iterator returns, one per size i, and the final lookup.      *)
(***************************************************************************)
VARIABLES
    joins,   \* the argument: a sequence of predicates
    heap,    \* the arrays behind the slices AddJoin built
    cache,   \* the memo trie: subset key -> *orderStats or Nil
    i,       \* the subset size of the outer loop
    todo,    \* the subsets the iterator has still to return for size i
    plan,    \* what cache.Get(joins) returned, once pc = "done"
    pc

jvars == <<joins, heap, cache, i, todo, plan, pc>>

Inputs == UNION {[1..nj -> Pairs] : nj \in 1..MaxJoins}

Init ==
    /\ joins \in Inputs
    /\ heap = <<>>
    /\ cache = TR!Set(TR!NewTrie, <<>>, [order |-> EmptySlice, cost |-> 0, card |-> 0])
    /\ i = 1
    /\ todo = SI!KSubsets(Len(joins), 1)
    /\ plan = Nil
    /\ pc = "plan"

PlanSubset ==
    LET set == Head(todo)
        st  == TryEach(joins, cache, set, 1, [heap |-> heap, best |-> Nil])
    IN
    /\ pc = "plan" /\ todo # <<>>
    /\ heap' = st.heap
    /\ cache' = TR!Set(cache, set, st.best)
    /\ todo' = Tail(todo)
    /\ UNCHANGED <<joins, i, plan, pc>>

NextSize ==
    /\ pc = "plan" /\ todo = <<>> /\ i < Len(joins)
    /\ i' = i + 1
    /\ todo' = SI!KSubsets(Len(joins), i + 1)
    /\ UNCHANGED <<joins, heap, cache, plan, pc>>

\* return cache.Get(joins).order: the key of all predicates in order.
Finish ==
    /\ pc = "plan" /\ todo = <<>> /\ i = Len(joins)
    /\ plan' = TR!Get(cache, [x \in 1..Len(joins) |-> x - 1])
    /\ pc' = "done"
    /\ UNCHANGED <<joins, heap, cache, i, todo>>

Next == PlanSubset \/ NextSize \/ Finish

Spec == Init /\ [][Next]_jvars /\ WF_jvars(Next)

(***************************************************************************)
(* Reference definitions: every left-deep order the rules of AddJoin       *)
(* allow (spec section 4.I), with its cost under the same model.  st is    *)
(* [tables, card, cost, first].                                            *)
(***************************************************************************)
Start == [tables |-> {}, card |-> 0, cost |-> 0, first |-> TRUE]

\* Placing the join node e after the plan st, or Nil if e may not follow.
Place(js, st, e) ==
    LET a == LeftT(js, e)
        b == RightT(js, e)
    IN  IF st.first
        THEN [tables |-> {a, b}, first |-> FALSE,
              card |-> EstimateJoinCardinality(Card[a], Card[b]),
              cost |-> EstimateJoinCost(Card[a], Card[b], ScanCostOf(a), ScanCostOf(b))]
        ELSE IF a \notin st.tables THEN Nil
        ELSE [tables |-> st.tables \cup {b}, first |-> FALSE,
              card |-> EstimateJoinCardinality(st.card, Card[b]),
              cost |-> EstimateJoinCost(st.card, Card[b], st.cost, ScanCostOf(b))]

\* The costs of all complete legal orders of the predicates in rem.
RECURSIVE OrderCosts(_, _, _)
OrderCosts(js, st, rem) ==
    IF rem = {} THEN {st.cost}
    ELSE UNION {IF Place(js, st, e) = Nil THEN {}
                ELSE OrderCosts(js, Place(js, st, e), rem \ {e.id}) :
                e \in {[id |-> x, sw |-> s] : x \in rem, s \in BOOLEAN}}

\* Replay an order; Nil when a node may not follow its prefix.
Replay(js, o) ==
    FoldLeft(LAMBDA st, e : IF st = Nil THEN Nil ELSE Place(js, st, e), Start, o)

(***************************************************************************)
(* Properties.                                                             *)
(***************************************************************************)
\* Spec section 4.I: the plan has the least estimated cost of all left-deep
\* orders in which each predicate's outer table is already joined, and
\* OrderJoins finds none exactly when no such order exists.
PlanIsOptimal ==
    pc = "done" =>
        LET costs == OrderCosts(joins, Start, 0..Len(joins) - 1) IN
        IF costs = {} THEN plan = Nil ELSE plan # Nil /\ plan.cost = Min(costs)

\* The order OrderJoins returns places every predicate once, legally, and
\* costs what its memo entry says: the slices of the memo entries are not
\* overwritten by appends to slices that share their array.
PlanIsJoinOrder ==
    pc = "done" /\ plan # Nil =>
        LET o == Elements(heap, plan.order) IN
        /\ Len(o) = Len(joins)
        /\ {o[x].id : x \in 1..Len(o)} = 0..Len(joins) - 1
        /\ Replay(joins, o) # Nil
        /\ Replay(joins, o).cost = plan.cost

\* OrderJoins dereferences cache.Get(joins): it is never nil.
PlanExists == pc = "done" => plan # Nil
=============================================================================
