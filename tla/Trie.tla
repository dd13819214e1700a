--------------------------------- MODULE Trie ---------------------------------
(***************************************************************************)
(* Trie of src/godb/trie.go.  A node is identified by the key path from    *)
(* the root, so the tree is the set of paths of its nodes (closed under    *)
(* prefixes: a node is only ever created as the child of an existing one) *)
(* together with each node's value.  A node created on the way to a       *)
(* deeper key holds the zero value of V until it is Set.                   *)
(*                                                                         *)
(* The specification after the operators applies Set with arbitrary keys  *)
(* and checks Get against a plain map from keys to values, the contract    *)
(* stated in trie.go's comments.                                           *)
(***************************************************************************)
EXTENDS Sequences
LOCAL INSTANCE SequencesExt

CONSTANTS Elems,   \* the key elements K
          Vals,    \* the values V
          Zero,    \* the zero value of V
          MaxLen   \* bound: the longest key

\* NewTrie(): the root alone, holding the zero value.
NewTrie == [nodes |-> {<<>>}, val |-> [p \in {<<>>} |-> Zero]]

(***************************************************************************)
(* t.Get(key): walk down the children; a missing child answers Zero, the   *)
(* end of the key answers the node's value.                                *)
(***************************************************************************)
RECURSIVE GetFrom(_, _, _)
GetFrom(t, key, i) ==
    IF i > Len(key) THEN t.val[SubSeq(key, 1, i - 1)]
    ELSE IF SubSeq(key, 1, i) \notin t.nodes THEN Zero
    ELSE GetFrom(t, key, i + 1)

Get(t, key) == GetFrom(t, key, 1)

\* A plausible bug: Set only stores the value when the node already exists.
SetNoCreate(t, key, v) ==
    IF key \in t.nodes THEN [t EXCEPT !.val[key] = v] ELSE t

(***************************************************************************)
(* t.Set(key, value): create every missing node along the key (each new   *)
(* node holds Zero), then store the value at the last one.                 *)
(***************************************************************************)
Set(t, key, v) ==
    LET ns == t.nodes \cup {SubSeq(key, 1, i) : i \in 0..Len(key)} IN
    [nodes |-> ns,
     val   |-> [p \in ns |-> IF p = key THEN v
                             ELSE IF p \in t.nodes THEN t.val[p] ELSE Zero]]

(***************************************************************************)
(* A trie driven by Set calls, next to the map it should implement.        *)
(***************************************************************************)
VARIABLES trie, m

Keys == BoundedSeq(Elems, MaxLen)

Init == trie = NewTrie /\ m = [key \in Keys |-> Zero]

SetStep ==
    \E key \in Keys, v \in Vals :
        /\ trie' = Set(trie, key, v)
        /\ m' = [m EXCEPT ![key] = v]

Spec == Init /\ [][SetStep]_<<trie, m>>

\* Get returns the value last Set for a key, and the zero value for a key
\* never Set, whether no node lies on its path or the path was created for
\* a longer key (the case OrderJoins meets when it looks up a subset whose
\* extension was cached first).
GetIsLastSet == \A key \in Keys : Get(trie, key) = m[key]
=============================================================================
