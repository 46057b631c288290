---------------------------- MODULE MCIndexHash ----------------------------
(***************************************************************************)
(* What the hash index guarantees, and the instances TLC checks.           *)
(***************************************************************************)
EXTENDS IndexHash, FiniteSets, TLC

\* No link leads out of the set S of nodes.
Closed(next, S) == \A m \in S : next[m] \in S \cup {NULL}

\* The nodes that are reached from n: those in every closed set that has n.
Reachable(next, n) ==
  {m \in Item : \A S \in SUBSET Item : n \in S \cup {NULL} /\ Closed(next, S) => m \in S}

List == Reachable(nodeNext, first_node)

\* An index_insert takes effect when its item can be reached, an index_read
\* when it loads the item or the NULL that ends the list.
MapView ==
  [p \in Pk |-> IF \E n \in List : nodeKey[n] = p
                THEN nodeItems[CHOOSE n \in List : nodeKey[n] = p] ELSE NULL]

OpView ==
  [t \in Thread |->
     CASE pc[t] = "idle" -> "idle"
       [] pc[t] \in {"r_first", "r_key", "r_next", "r_items"} -> "read"
       [] pc[t] \in {"i_latch", "i_walk", "i_link"} -> "insert"
       [] OTHER -> "done"]

Map == INSTANCE IndexMap WITH map <- MapView, op <- OpView

\* An index_read that walks the list with no latch while others insert returns
\* what the index held at one instant of the call, and no insertion is lost or
\* undone by another one (index_hash.cpp:52-94).
Linearizable == Map!Spec

\* No two nodes of the list have the same key: the check for an existing node
\* and the link of the new one are not separated by another insertion
\* (insert_item under get_latch, index_hash.cpp:58-64).
OneNodePerKey ==
  \A m, n \in List : nodeKey[m] = nodeKey[n] => m = n

\* Every index_read and index_insert returns: the list has no cycle at any
\* moment of an insertion, and the latch is always given back.
EveryIndexCallReturns == \A t \in Thread : pc[t] # "idle" ~> pc[t] = "idle"

Symmetry == Permutations(Thread) \cup Permutations(Pk) \cup Permutations(Item)
=============================================================================
