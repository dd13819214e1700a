------------------------------- MODULE WaitFor -------------------------------
(***************************************************************************)
(* The wait-for graph of src/godb/waits_for.go.  A graph maps every        *)
(* transaction to the set of transactions it waits for (the Go slice of    *)
(* waited-for ids, which AddEdges keeps free of duplicates).               *)
(*                                                                         *)
(* The operators are the Go methods; the specification at the end drives   *)
(* one graph through arbitrary AddEdges / RemoveTransaction calls so that  *)
(* DetectDeadlock can be checked against the textbook definition of a      *)
(* cycle through a node.                                                   *)
(***************************************************************************)
EXTENDS FiniteSets
LOCAL INSTANCE Relation

CONSTANT Txn   \* transaction ids

VARIABLE w     \* the graph driven by the specification below

\* The empty graph (WaitFor{}); an absent key is an empty edge set.
EmptyGraph == [t \in Txn |-> {}]

\* w.AddEdges(tid, tids): union tids into the out-neighbours of tid.
AddEdges(g, tid, tids) == [g EXCEPT ![tid] = @ \cup tids]

\* w.RemoveTransaction(tid): delete tid as a source and as a target.
RemoveTransaction(g, tid) ==
    [t \in Txn |-> IF t = tid THEN {} ELSE g[t] \ {tid}]

(***************************************************************************)
(* w.breakCycle(start, root, seen): depth-first search over the            *)
(* out-neighbours ns of the node being visited, threading the seen map     *)
(* through the siblings exactly as the Go map is shared.  Returns          *)
(* [found, seen].                                                          *)
(***************************************************************************)
RECURSIVE breakCycleAnyRevisit(_, _, _, _)
\* A plausible bug: treat any revisit as a cycle, not only a return to root.
breakCycleAnyRevisit(g, ns, root, seen) ==
    IF ns = {} THEN [found |-> FALSE, seen |-> seen]
    ELSE LET n == CHOOSE x \in ns : TRUE IN
         IF n = root \/ n \in seen THEN [found |-> TRUE, seen |-> seen]
         ELSE LET r == breakCycleAnyRevisit(g, g[n], root, seen \cup {n}) IN
              IF r.found THEN r ELSE breakCycleAnyRevisit(g, ns \ {n}, root, r.seen)

RECURSIVE breakCycle(_, _, _, _)
breakCycle(g, ns, root, seen) ==
    IF ns = {} THEN [found |-> FALSE, seen |-> seen]
    ELSE LET n == CHOOSE x \in ns : TRUE IN
         IF n = root THEN [found |-> TRUE, seen |-> seen]
         ELSE IF n \in seen THEN breakCycle(g, ns \ {n}, root, seen)
         ELSE LET r == breakCycle(g, g[n], root, seen \cup {n}) IN
              IF r.found THEN r ELSE breakCycle(g, ns \ {n}, root, r.seen)

\* w.DetectDeadlock(start): search from start with seen = {start}.
DetectDeadlock(g, start) == breakCycle(g, g[start], start, {start}).found

\* Reference definition: t reaches itself through one or more edges.
OnCycle(g, t) ==
    LET R == [x, y \in Txn |-> y \in g[x]]
    IN  TransitiveClosure(R, Txn)[t, t]

(***************************************************************************)
(* A specification that applies the graph's mutators in any order.         *)
(***************************************************************************)
Init == w = EmptyGraph

AddEdgesStep ==
    \E tid \in Txn, tids \in SUBSET Txn : w' = AddEdges(w, tid, tids)

RemoveTransactionStep ==
    \E tid \in Txn : w' = RemoveTransaction(w, tid)

Next == AddEdgesStep \/ RemoveTransactionStep

Spec == Init /\ [][Next]_w

TypeOK == w \in [Txn -> SUBSET Txn]

\* DetectDeadlock(t) answers TRUE exactly when t lies on a directed cycle of
\* the graph (spec section 8, invariant 4): the depth-first search of
\* breakCycle, with its shared seen set, neither misses a cycle through t nor
\* reports one that only passes near t.
DetectDeadlockIsCycle ==
    \A t \in Txn : DetectDeadlock(w, t) <=> OnCycle(w, t)
=============================================================================
