--------------------------- MODULE MCJoinOptimizer ---------------------------
(* Table statistics for checking OrderJoins: cardinalities and scan costs  *)
(* that differ between tables, so that orientation and order change cost.  *)
EXTENDS JoinOptimizer, TLC

CONSTANTS A, B, C, D, E, F

MCCard == (A :> 1) @@ (B :> 3) @@ (C :> 4) @@ (D :> 2) @@ (E :> 5) @@ (F :> 1)
\* Equal cardinalities but for the last table (ties between plans).
MCCardChain == (A :> 1) @@ (B :> 1) @@ (C :> 1) @@ (D :> 1) @@ (E :> 1) @@ (F :> 9)
MCScanCost == (A :> 3) @@ (B :> 1) @@ (C :> 2) @@ (D :> 1) @@ (E :> 2) @@ (F :> 3)

\* A five-way chain join A-B-C-D-E-F, the shape of spec section 8,
\* scenario 6, in every orientation of its predicates.
ChainJoins ==
    LET chain == <<[l |-> A, r |-> B], [l |-> B, r |-> C], [l |-> C, r |-> D],
                   [l |-> D, r |-> E], [l |-> E, r |-> F]>>
    IN  {[x \in 1..5 |-> IF sw[x] THEN [l |-> chain[x].r, r |-> chain[x].l] ELSE chain[x]] :
         sw \in [1..5 -> BOOLEAN]}
=============================================================================
