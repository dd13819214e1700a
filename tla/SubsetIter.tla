------------------------------ MODULE SubsetIter ------------------------------
(***************************************************************************)
(* KSubsetIter of src/godb/subset_iter.go.  The iterator closes over the   *)
(* index array c[1..k+2] (c[1..k] the chosen indices, c[k+1] = n and       *)
(* c[k+2] = 0 the two sentinels), first and done.  Each call of the        *)
(* closure is one step of the specification below; the elements of s are  *)
(* identified with their indices 0..n-1, so a returned slice s[c[1..k]]    *)
(* is the sequence c[1..k] itself.                                         *)
(*                                                                         *)
(* The operators before the specification are constant-level, so that the *)
(* join optimizer can enumerate the subsets in the iterator's order.       *)
(***************************************************************************)
EXTENDS Integers, Sequences, FiniteSets
LOCAL INSTANCE FiniteSetsExt

CONSTANT MaxN   \* bound: the largest slice length n checked

\* The c array KSubsetIter sets up for 0 < k <= n.
InitC(n, k) == [j \in 1..k+2 |-> IF j <= k THEN j - 1 ELSE IF j = k + 1 THEN n ELSE 0]

\* The subset a call returns: ret[i-1] = s[c[i]] for i in 1..k.
Ret(c, k) == [i \in 1..k |-> c[i]]

\* A plausible bug: the indices below j are not reset after a carry.
AdvanceNoReset(c, k) ==
    LET j == Min({i \in 1..k+1 : c[i] + 1 # c[i+1]}) IN
    [done |-> j > k, c |-> IF j > k THEN c ELSE [c EXCEPT ![j] = @ + 1]]

(***************************************************************************)
(* One non-first call: find the smallest j with c[j]+1 # c[j+1], resetting *)
(* c[i] = i-1 for the i passed over; stop when j > k, else bump c[j].  The *)
(* sentinel c[k+2] = 0 ends the scan at j = k+1 at the latest.             *)
(***************************************************************************)
Advance(c, k) ==
    LET j  == Min({i \in 1..k+1 : c[i] + 1 # c[i+1]})
        c1 == [i \in DOMAIN c |-> IF i < j THEN i - 1 ELSE c[i]]
    IN  [done |-> j > k, c |-> IF j > k THEN c1 ELSE [c1 EXCEPT ![j] = @ + 1]]

(***************************************************************************)
(* Everything a full run of the iterator returns, in order: the k = 0      *)
(* closure returns the empty slice once; otherwise the first call returns  *)
(* InitC and each later call one Advance.  (Only for 0 <= k <= n; other    *)
(* arguments make KSubsetIter return an error.)                            *)
(***************************************************************************)
RECURSIVE Emitted(_, _)
Emitted(c, k) ==
    LET a == Advance(c, k) IN
    IF a.done THEN <<>> ELSE <<Ret(a.c, k)>> \o Emitted(a.c, k)

KSubsets(n, k) ==
    IF k = 0 THEN << <<>> >> ELSE <<Ret(InitC(n, k), k)>> \o Emitted(InitC(n, k), k)

(***************************************************************************)
(* The iterator as a state machine: KSubsetIter(s, k) for every n <= MaxN  *)
(* and every k, then calls of the returned closure.                        *)
(***************************************************************************)
VARIABLES
    n, k,       \* the arguments
    failed,     \* KSubsetIter returned an error
    c, first, done,
    prev,       \* the last subset returned, <<>> before the first
    seen,       \* every subset returned so far
    repeated    \* some call returned a subset returned before

vars == <<n, k, failed, c, first, done, prev, seen, repeated>>

Init ==
    /\ n \in 0..MaxN
    /\ k \in -1..MaxN + 1
    /\ failed = (k < 0 \/ k > n)
    /\ c = IF failed \/ k = 0 THEN <<>> ELSE InitC(n, k)
    /\ first = TRUE
    /\ done = failed
    /\ prev = <<>> /\ seen = {} /\ repeated = FALSE

\* Record that a call returned the subset r.
Return(r) ==
    /\ prev' = r
    /\ seen' = seen \cup {r}
    /\ repeated' = (repeated \/ r \in seen)

\* A call of the k = 0 closure.
CallEmpty ==
    /\ ~done /\ k = 0
    /\ done' = TRUE
    /\ Return(<<>>)
    /\ UNCHANGED <<n, k, failed, c, first>>

\* A plausible bug: the first call does not clear first.
CallFirstKeepsFirst ==
    /\ ~done /\ k > 0 /\ first
    /\ Return(Ret(c, k))
    /\ UNCHANGED <<n, k, failed, c, done, first>>

\* The first call of the k > 0 closure.
CallFirst ==
    /\ ~done /\ k > 0 /\ first
    /\ first' = FALSE
    /\ Return(Ret(c, k))
    /\ UNCHANGED <<n, k, failed, c, done>>

\* A later call: advance c; return nil and set done when j > k.
CallNext ==
    LET a == Advance(c, k) IN
    /\ ~done /\ k > 0 /\ ~first
    /\ c' = a.c
    /\ done' = a.done
    /\ IF a.done THEN UNCHANGED <<prev, seen, repeated>> ELSE Return(Ret(a.c, k))
    /\ UNCHANGED <<n, k, failed, first>>

Next == CallEmpty \/ CallFirst \/ CallNext

\* The caller (OrderJoins) calls the closure until it returns nil.
Spec == Init /\ [][Next]_vars /\ WF_vars(Next)

(***************************************************************************)
(* Properties.                                                             *)
(***************************************************************************)
TypeOK ==
    /\ n \in 0..MaxN /\ k \in -1..MaxN + 1
    /\ failed \in BOOLEAN /\ first \in BOOLEAN /\ done \in BOOLEAN
    /\ repeated \in BOOLEAN
    /\ seen \subseteq Seq(0..MaxN)

\* Lexicographic order: compare from the first position.
LexLess(a, b) ==
    \E i \in 1..Len(a) : a[i] < b[i] /\ \A m \in 1..i-1 : a[m] = b[m]

\* Spec section 8 invariant 6, and what the OrderJoins memo relies on:
\* the calls return every k-subset of the n elements exactly once, each as
\* an increasing index sequence (the canonical trie key), and then nil.
EmitsEachKSubsetOnce ==
    /\ ~repeated
    /\ \A r \in seen : \A i \in 1..Len(r) - 1 : r[i] < r[i+1]
    /\ (done /\ ~failed) =>
          {{r[i] : i \in 1..Len(r)} : r \in seen} = kSubset(k, 0..n-1)

\* Spec section 4.J / section 8 invariant 6: the subsets come in
\* lexicographic order.  (The carry-propagating advance of subset_iter.go
\* produces colexicographic order: <<1, 2>> before <<0, 3>>.)
LexOrder == [][CallNext /\ ~done' => LexLess(prev, prev')]_vars

\* The iterator runs out: every sequence of calls reaches nil.
Termination == <>done
=============================================================================
