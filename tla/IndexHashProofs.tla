--------------------------- MODULE IndexHashProofs ---------------------------
(***************************************************************************)
(* Proofs about the hash index, for every number of threads, keys and      *)
(* items: index_read, which takes no latch, is atomic all the same.        *)
(***************************************************************************)
EXTENDS MCIndexHash, TLAPS

Node == Item \cup {NULL}
Reading == {"r_first", "r_key", "r_next", "r_items"}
Inserting == {"i_latch", "i_walk", "i_link"}   \* the item is not in the index yet
Latching == {"i_walk", "i_link", "i_unlatch"}  \* index_insert holds the latch
Args == [key : Pk, item : Node]

TypeOK ==
  /\ first_node \in Node /\ locked \in BOOLEAN /\ used \subseteq Item
  /\ nodeKey \in [Item -> Pk \cup {NULL}]
  /\ nodeNext \in [Item -> Node] /\ nodeItems \in [Item -> Node]
  /\ pc \in [Thread -> {"idle", "done"} \cup Reading \cup Inserting \cup Latching]
  /\ arg \in [Thread -> Args \cup {NULL}]
  /\ cur_node \in [Thread -> Node] /\ prev_node \in [Thread -> Node] /\ res \in [Thread -> Node]

\* The list holds one node per key, each with a key, in one order.
ListOK ==
  /\ \A n \in List : n \in used /\ nodeKey[n] \in Pk
  /\ OneNodePerKey
  /\ \A m, n \in List : m \in Reachable(nodeNext, n) \/ n \in Reachable(nodeNext, m)

\* A call has its arguments, and the node of an insertion is its own until it is
\* linked.
CallOK(t) ==
  /\ pc[t] # "idle" => arg[t] \in Args
  /\ pc[t] \in Inserting =>
       /\ arg[t].item \in used \ List
       /\ \A u \in Thread \ {t} : pc[u] \in Inserting => arg[u].item # arg[t].item

\* One thread at a time is between get_latch and release_latch.
LatchOK ==
  /\ \A t \in Thread : pc[t] \in Latching => locked
  /\ \A t, u \in Thread : pc[t] \in Latching /\ pc[u] \in Latching => t = u

\* The node with the key that t looks for, if the list has one, is not behind t.
Ahead(t) == \A n \in List : nodeKey[n] = arg[t].key => n \in Reachable(nodeNext, cur_node[t])

\* What a search without the latch knows of the node that it is at.
ReadOK(t) ==
  /\ pc[t] \in {"r_key", "r_next", "r_items"} => cur_node[t] \in List
  /\ pc[t] \in {"r_key", "r_next"} => Ahead(t)
  /\ pc[t] = "r_next" => nodeKey[cur_node[t]] # arg[t].key
  /\ pc[t] = "r_items" => nodeKey[cur_node[t]] = arg[t].key

\* The search under the latch goes to the end; the new node is complete before
\* it is linked.
InsertOK(t) ==
  /\ pc[t] \in {"i_walk", "i_link"} =>
       /\ prev_node[t] \in List \cup {NULL}
       /\ cur_node[t] = IF prev_node[t] = NULL THEN first_node ELSE nodeNext[prev_node[t]]
       /\ Ahead(t)
  /\ pc[t] = "i_link" =>
       LET n == arg[t].item IN
       /\ cur_node[t] = NULL
       /\ nodeKey[n] = arg[t].key /\ nodeItems[n] = n /\ nodeNext[n] = NULL

CallsOK == \A t \in Thread : CallOK(t) /\ ReadOK(t) /\ InsertOK(t)

IndexInv == TypeOK /\ ListOK /\ LatchOK /\ CallsOK

-----------------------------------------------------------------------------
(* Reachable *)

\* Reachable is the least closed set.
LEMMA ReachIsLeast ==
  ASSUME NEW next \in [Item -> Node], NEW x \in Node
  PROVE  /\ Reachable(next, x) \subseteq Item /\ x \in Reachable(next, x) \cup {NULL}
         /\ Closed(next, Reachable(next, x))
         /\ \A S \in SUBSET Item : x \in S \cup {NULL} /\ Closed(next, S) => Reachable(next, x) \subseteq S
<1> DEFINE R == Reachable(next, x)
<1>1. R \subseteq Item /\ x \in R \cup {NULL}
  BY DEF Reachable, Node
<1>2. \A S \in SUBSET Item : x \in S \cup {NULL} /\ Closed(next, S) => R \subseteq S
  BY DEF Reachable
<1>3. ASSUME NEW m \in R, next[m] # NULL PROVE next[m] \in R
  <2>1. next[m] \in Item
    BY <1>1, <1>3 DEF Node
  <2>2. ASSUME NEW S \in SUBSET Item, x \in S \cup {NULL}, Closed(next, S) PROVE next[m] \in S
    BY <1>2, <1>3, <2>2 DEF Closed
  <2> QED
    BY <2>1, <2>2 DEF Reachable
<1> QED
  BY <1>1, <1>2, <1>3 DEF Closed

\* The node itself, then what its link leads to.
LEMMA ReachStep ==
  ASSUME NEW next \in [Item -> Node], NEW x \in Item
  PROVE  /\ x \in Reachable(next, x)
         /\ Reachable(next, x) = {x} \cup Reachable(next, next[x])
<1> DEFINE R == Reachable(next, x)
           T == Reachable(next, next[x])
<1>1. x \in Node /\ next[x] \in Node /\ x # NULL
  BY NullAssumption DEF Node
<1>2. x \in R /\ R \subseteq Item /\ Closed(next, R)
  BY <1>1, ReachIsLeast
<1>3. T \subseteq Item /\ next[x] \in T \cup {NULL} /\ Closed(next, T)
  BY <1>1, ReachIsLeast
<1>4. R \subseteq {x} \cup T
  <2>1. {x} \cup T \in SUBSET Item /\ Closed(next, {x} \cup T)
    BY <1>3 DEF Closed
  <2> QED
    BY <1>1, <2>1, ReachIsLeast
<1>5. T \subseteq R
  <2>1. next[x] \in R \cup {NULL}
    BY <1>2 DEF Closed
  <2> QED
    BY <1>1, <1>2, <2>1, ReachIsLeast
<1> QED
  BY <1>2, <1>4, <1>5

\* From a reached node, nothing else is reached; from NULL, nothing at all.
LEMMA ReachOn ==
  ASSUME NEW next \in [Item -> Node], NEW x \in Node
  PROVE  /\ \A m \in Reachable(next, x) : Reachable(next, m) \subseteq Reachable(next, x)
         /\ Reachable(next, NULL) = {}
<1>1. ASSUME NEW m \in Reachable(next, x) PROVE Reachable(next, m) \subseteq Reachable(next, x)
  <2>1. m \in Node
    BY ReachIsLeast DEF Node
  <2>2. Reachable(next, x) \in SUBSET Item /\ Closed(next, Reachable(next, x))
    BY ReachIsLeast
  <2> QED
    BY <2>1, <2>2, ReachIsLeast
<1>2. Reachable(next, NULL) = {}
  <2>1. NULL \in Node /\ {} \in SUBSET Item /\ Closed(next, {})
    BY DEF Node, Closed
  <2> QED
    BY <2>1, ReachIsLeast
<1> QED
  BY <1>1, <1>2

\* Links of nodes that are not reached do not matter.
LEMMA ReachLocal ==
  ASSUME NEW next \in [Item -> Node], NEW after \in [Item -> Node], NEW x \in Node,
         \A m \in Reachable(next, x) : after[m] = next[m]
  PROVE  Reachable(after, x) = Reachable(next, x)
<1> DEFINE R == Reachable(next, x)
           T == Reachable(after, x)
<1>1. R \subseteq Item /\ x \in R \cup {NULL} /\ Closed(next, R)
  BY ReachIsLeast
<1>2. T \subseteq Item /\ x \in T \cup {NULL} /\ Closed(after, T)
  BY ReachIsLeast
<1>3. Closed(after, R)
  BY <1>1 DEF Closed
<1>4. T \subseteq R
  BY <1>1, <1>3, ReachIsLeast
<1>5. Closed(next, T)
  BY <1>2, <1>4 DEF Closed
<1>6. R \subseteq T
  BY <1>2, <1>5, ReachIsLeast
<1> QED
  BY <1>4, <1>6

\* A node is linked to the last one, z.
LEMMA ReachLinked ==
  ASSUME NEW next \in [Item -> Node], NEW z \in Item, NEW w \in Item, z # w,
         next[z] = NULL, next[w] = NULL, NEW x \in Item, z \in Reachable(next, x),
         NEW after \in [Item -> Node], after[z] = w, \A m \in Item \ {z} : after[m] = next[m]
  PROVE  Reachable(after, x) = Reachable(next, x) \cup {w}
<1> DEFINE R == Reachable(next, x)
           T == Reachable(after, x)
<1>1. after[w] = NULL /\ x \in Node
  BY DEF Node
<1>2. R \subseteq Item /\ x \in R \cup {NULL} /\ Closed(next, R)
  BY <1>1, ReachIsLeast
<1>3. T \subseteq Item /\ x \in T \cup {NULL} /\ Closed(after, T)
  BY <1>1, ReachIsLeast
<1>4. T \subseteq R \cup {w}
  <2>1. R \cup {w} \in SUBSET Item /\ Closed(after, R \cup {w})
    BY <1>1, <1>2 DEF Closed
  <2> QED
    BY <1>1, <1>2, <2>1, ReachIsLeast
<1>5. R \subseteq T
  <2>1. Closed(next, T)
    BY <1>1, <1>3 DEF Closed
  <2> QED
    BY <1>1, <1>3, <2>1, ReachIsLeast
<1>6. w \in T
  <2>1. z \in T
    BY <1>5
  <2> QED
    BY <1>1, <1>3, <2>1, NullAssumption DEF Closed
<1> QED
  BY <1>4, <1>5, <1>6
-----------------------------------------------------------------------------
(* The invariant *)

\* The list, as the links make it.
LEMMA ListFacts ==
  ASSUME IndexInv
  PROVE  /\ nodeNext \in [Item -> Node] /\ first_node \in List \cup {NULL} /\ List \subseteq Item
         /\ \A n \in List : /\ nodeNext[n] \in List \cup {NULL} /\ n # NULL /\ n \in Node
                            /\ n \in Reachable(nodeNext, n) /\ Reachable(nodeNext, n) \subseteq List
<1>1. nodeNext \in [Item -> Node] /\ first_node \in Node
  BY DEF IndexInv, TypeOK
<1>2. List \subseteq Item /\ first_node \in List \cup {NULL} /\ Closed(nodeNext, List)
  BY <1>1, ReachIsLeast DEF List
<1>3. \A n \in List : n \in Reachable(nodeNext, n)
  BY <1>1, <1>2, ReachStep
<1>4. \A n \in List : Reachable(nodeNext, n) \subseteq List
  BY <1>1, ReachOn DEF List
<1> QED
  BY <1>1, <1>2, <1>3, <1>4, NullAssumption DEF Closed, Node

\* A step of t that changes neither the list nor its nodes.
LEMMA QuietFrame ==
  ASSUME IndexInv, NEW t \in Thread, UNCHANGED <<first_node, nodeKey, nodeNext, nodeItems>>,
         TypeOK', LatchOK', used \subseteq used', CallOK(t)', ReadOK(t)', InsertOK(t)',
         \A u \in Thread \ {t} : /\ pc'[u] = pc[u] /\ arg'[u] = arg[u]
                                 /\ cur_node'[u] = cur_node[u] /\ prev_node'[u] = prev_node[u]
  PROVE  IndexInv'
<1>1. List' = List
  BY DEF List
<1>2. ListOK'
  BY <1>1 DEF IndexInv, ListOK, OneNodePerKey
<1>3. ASSUME NEW u \in Thread \ {t} PROVE CallOK(u)' /\ ReadOK(u)' /\ InsertOK(u)'
  <2>1. CallOK(u) /\ ReadOK(u) /\ InsertOK(u)
    BY DEF IndexInv, CallsOK
  <2>2. CallOK(u)'
    BY <1>1, <2>1 DEF CallOK
  <2>3. ReadOK(u)'
    BY <1>1, <2>1 DEF ReadOK, Ahead
  <2>4. InsertOK(u)'
    BY <1>1, <2>1 DEF InsertOK, Ahead
  <2> QED
    BY <2>2, <2>3, <2>4
<1> QED
  BY <1>2, <1>3 DEF IndexInv, CallsOK

\* What a step of t leaves to the other threads.
LEMMA Others ==
  ASSUME TypeOK, NEW t \in Thread, NEW label, Goto(t, label)
  PROVE  /\ pc'[t] = label /\ \A u \in Thread \ {t} : pc'[u] = pc[u]
BY DEF TypeOK, Goto

\* The steps of index_read.
LEMMA ReadSteps ==
  ASSUME IndexInv, NEW t \in Thread, ReadFirst(t) \/ ReadKey(t) \/ ReadNext(t) \/ ReadItems(t)
  PROVE  IndexInv'
<1> USE DEF IndexInv
<1>1. /\ UNCHANGED <<first_node, locked, nodeKey, nodeNext, nodeItems, used, arg, prev_node>>
      /\ pc[t] \in {"r_first", "r_key", "r_next", "r_items"} /\ pc'[t] \in {"r_key", "r_next", "r_items", "done"}
      /\ \A u \in Thread \ {t} : pc'[u] = pc[u] /\ cur_node'[u] = cur_node[u]
      /\ TypeOK' /\ List' = List /\ CallOK(t) /\ ReadOK(t)
  <2>1. /\ UNCHANGED <<first_node, locked, nodeKey, nodeNext, nodeItems, used, arg, prev_node>>
        /\ pc[t] \in {"r_first", "r_key", "r_next", "r_items"} /\ CallOK(t) /\ ReadOK(t)
    BY DEF ReadFirst, ReadKey, ReadNext, ReadItems, ReadLink, listVars, CallsOK
  <2>2. \E label \in {"r_key", "r_next", "r_items", "done"} : Goto(t, label)
    BY DEF ReadFirst, ReadKey, ReadNext, ReadItems, ReadLink
  <2>3. /\ pc'[t] \in {"r_key", "r_next", "r_items", "done"} /\ \A u \in Thread \ {t} : pc'[u] = pc[u]
    BY <2>2, Others
  <2>4. pc[t] \in {"r_key", "r_next", "r_items"} => cur_node[t] \in Item
    BY <2>1, ListFacts DEF ReadOK
  <2>5. cur_node' \in [Thread -> Node] /\ \A u \in Thread \ {t} : cur_node'[u] = cur_node[u]
    BY <2>4 DEF ReadFirst, ReadKey, ReadNext, ReadItems, ReadLink, TypeOK
  <2>6. res' \in [Thread -> Node]
    BY <2>4 DEF ReadFirst, ReadKey, ReadNext, ReadItems, ReadLink, TypeOK, Node
  <2>7. pc' \in [Thread -> {"idle", "done"} \cup Reading \cup Inserting \cup Latching]
    BY <2>2 DEF TypeOK, Goto, Reading
  <2> QED
    BY <2>1, <2>3, <2>5, <2>6, <2>7 DEF TypeOK, List
<1>2. LatchOK'
  BY <1>1 DEF LatchOK, Latching
<1>3. CallOK(t)' /\ InsertOK(t)'
  BY <1>1 DEF CallOK, InsertOK, Inserting
<1>4. ReadOK(t)'
  <2>1. CASE ReadFirst(t)
    <3>1. cur_node'[t] = first_node /\ pc'[t] = IF first_node = NULL THEN "done" ELSE "r_key"
      BY <2>1 DEF ReadFirst, ReadLink, TypeOK, Goto
    <3>2. Ahead(t)'
      BY <1>1, <3>1 DEF Ahead, List
    <3> QED
      BY <1>1, <3>1, <3>2, ListFacts DEF ReadOK
  <2>2. CASE ReadKey(t)
    <3>1. /\ pc[t] = "r_key" /\ cur_node' = cur_node
          /\ pc'[t] = IF nodeKey[cur_node[t]] = arg[t].key THEN "r_items" ELSE "r_next"
      BY <2>2 DEF ReadKey, TypeOK, Goto
    <3> QED
      BY <1>1, <3>1 DEF ReadOK, Ahead
  <2>3. CASE ReadNext(t)
    <3> DEFINE c == cur_node[t]
    <3>1. /\ pc[t] = "r_next" /\ cur_node'[t] = nodeNext[c] /\ pc'[t] = IF nodeNext[c] = NULL THEN "done" ELSE "r_key"
      BY <2>3 DEF ReadNext, ReadLink, TypeOK, Goto
    <3>2. /\ c \in List /\ nodeKey[c] # arg[t].key /\ Ahead(t)
      BY <1>1, <3>1 DEF ReadOK
    <3>3. Reachable(nodeNext, c) = {c} \cup Reachable(nodeNext, nodeNext[c])
      BY <3>2, ListFacts, ReachStep
    <3>4. \A n \in List : nodeKey[n] = arg[t].key => n \in Reachable(nodeNext, nodeNext[c])
      BY <3>2, <3>3 DEF Ahead
    <3>5. Ahead(t)'
      BY <1>1, <3>1, <3>4 DEF Ahead
    <3> QED
      BY <1>1, <3>1, <3>2, <3>5, ListFacts DEF ReadOK
  <2>4. CASE ReadItems(t)
    BY <2>4 DEF ReadItems, Goto, ReadOK, TypeOK
  <2> QED
    BY <2>1, <2>2, <2>3, <2>4
<1> QED
  BY <1>1, <1>2, <1>3, <1>4, QuietFrame

\* The calls, the returns, and the steps under the latch that only look.
LEMMA CallSteps ==
  ASSUME IndexInv, NEW t \in Thread, NEW p \in Pk,
         index_read(t, p) \/ (\E i \in Item : index_insert(t, p, i)) \/ Return(t)
  PROVE  IndexInv'
<1> USE DEF IndexInv
<1>1. /\ UNCHANGED <<first_node, locked, nodeKey, nodeNext, nodeItems, res>> /\ used \subseteq used'
      /\ used' \subseteq Item /\ pc'[t] \in {"idle", "r_first", "i_latch"} /\ List' = List
      /\ \A u \in Thread \ {t} : /\ pc'[u] = pc[u] /\ arg'[u] = arg[u]
                                 /\ cur_node'[u] = cur_node[u] /\ prev_node'[u] = prev_node[u]
  BY DEF index_read, index_insert, Return, listVars, TypeOK, Goto, List
<1>2. TypeOK'
  <2>1. pc' \in [Thread -> {"idle", "done"} \cup Reading \cup Inserting \cup Latching]
    BY DEF index_read, index_insert, Return, TypeOK, Goto, Reading, Inserting
  <2>2. arg' \in [Thread -> Args \cup {NULL}]
    BY DEF index_read, index_insert, Return, TypeOK, Args, Node
  <2>3. cur_node' \in [Thread -> Node] /\ prev_node' \in [Thread -> Node]
    BY DEF index_read, index_insert, Return, TypeOK, Node
  <2> QED
    BY <1>1, <2>1, <2>2, <2>3 DEF TypeOK
<1>3. LatchOK' /\ ReadOK(t)' /\ InsertOK(t)'
  BY <1>1 DEF LatchOK, ReadOK, InsertOK, Latching
<1>4. CallOK(t)'
  <2>1. CASE index_read(t, p) \/ Return(t)
    BY <2>1 DEF index_read, Return, TypeOK, Goto, CallOK, Inserting, Args, Node
  <2>2. ASSUME NEW i \in Item, index_insert(t, p, i) PROVE CallOK(t)'
    <3>1. arg'[t] = [key |-> p, item |-> i] /\ arg'[t] \in Args /\ i \notin used /\ i \in used'
      BY <2>2 DEF index_insert, TypeOK, Args, Node
    <3>2. i \notin List
      BY <3>1 DEF ListOK
    <3>3. \A u \in Thread \ {t} : pc[u] \in Inserting => arg[u].item \in used
      BY DEF CallsOK, CallOK
    <3> QED
      BY <1>1, <3>1, <3>2, <3>3 DEF CallOK
  <2> QED
    BY <2>1, <2>2
<1> QED
  BY <1>1, <1>2, <1>3, <1>4, QuietFrame

\* Only get_latch and release_latch change the latch, so its holder stays the
\* only one.
LEMMA LatchSteps ==
  ASSUME IndexInv, NEW t \in Thread, get_latch(t) \/ WalkOn(t) \/ release_latch(t)
  PROVE  IndexInv'
<1> USE DEF IndexInv
<1>0. CallOK(t) /\ ReadOK(t) /\ InsertOK(t)
  BY DEF CallsOK
<1>1. /\ UNCHANGED <<first_node, nodeKey, nodeNext, nodeItems, used, arg, res>> /\ List' = List
      /\ \A u \in Thread \ {t} : /\ pc'[u] = pc[u] /\ arg'[u] = arg[u]
                                 /\ cur_node'[u] = cur_node[u] /\ prev_node'[u] = prev_node[u]
  BY DEF get_latch, WalkOn, release_latch, listVars, TypeOK, Goto, List
<1>2. CASE get_latch(t)
  <2>1. /\ pc[t] = "i_latch" /\ pc'[t] = "i_walk" /\ ~locked /\ locked'
        /\ cur_node'[t] = first_node /\ prev_node'[t] = NULL /\ UNCHANGED <<used, arg>>
    BY <1>2 DEF get_latch, ATOM_CAS, TypeOK, Goto
  <2>2. TypeOK'
    BY <1>1, <1>2, <2>1 DEF get_latch, TypeOK, Goto, Latching, Node
  <2>3. LatchOK'
    BY <1>1, <2>1 DEF LatchOK, Latching
  <2>4. CallOK(t)' /\ ReadOK(t)'
    BY <1>0, <1>1, <2>1 DEF CallOK, ReadOK, Inserting
  <2>5. Ahead(t)'
    BY <1>1, <2>1 DEF Ahead, List
  <2>6. InsertOK(t)'
    BY <2>1, <2>5, <1>1 DEF InsertOK
  <2> QED
    BY <1>1, <2>2, <2>3, <2>4, <2>6, QuietFrame
<1>3. CASE WalkOn(t)
  <2>0. PICK c : c = cur_node[t]
    OBVIOUS
  <2>1. /\ pc[t] = "i_walk" /\ pc' = pc /\ c # NULL /\ nodeKey[c] # arg[t].key /\ locked' = locked
        /\ prev_node'[t] = c /\ cur_node'[t] = nodeNext[c]
    BY <1>3, <2>0 DEF WalkOn, TypeOK, listVars
  <2>2. c \in List /\ Ahead(t)
    BY <1>0, <2>0, <2>1, ListFacts DEF InsertOK
  <2>3. TypeOK'
    BY <1>1, <1>3, <2>0, <2>1, <2>2, ListFacts DEF WalkOn, TypeOK, Node
  <2>4. LatchOK' /\ CallOK(t)' /\ ReadOK(t)'
    BY <1>0, <1>1, <2>1 DEF LatchOK, CallOK, ReadOK
  <2>5. Reachable(nodeNext, c) = {c} \cup Reachable(nodeNext, nodeNext[c])
    BY <2>2, ListFacts, ReachStep
  <2>6. Ahead(t)'
    BY <1>1, <2>0, <2>1, <2>2, <2>5 DEF Ahead
  <2>7. InsertOK(t)'
    BY <1>1, <2>1, <2>2, <2>6, ListFacts DEF InsertOK
  <2> QED
    BY <1>1, <2>3, <2>4, <2>7, QuietFrame
<1>4. CASE release_latch(t)
  <2>1. /\ pc[t] = "i_unlatch" /\ pc'[t] = "done" /\ ~locked' /\ UNCHANGED <<cur_node, prev_node>>
    BY <1>4 DEF release_latch, ATOM_CAS, TypeOK, Goto
  <2>2. TypeOK'
    BY <1>1, <1>4, <2>1 DEF release_latch, ATOM_CAS, TypeOK, Goto
  <2>3. LatchOK'
    BY <1>1, <2>1 DEF LatchOK, Latching
  <2>4. CallOK(t)' /\ ReadOK(t)' /\ InsertOK(t)'
    BY <1>0, <1>1, <2>1 DEF CallOK, ReadOK, InsertOK, Inserting
  <2> QED
    BY <1>1, <2>2, <2>3, <2>4, QuietFrame
<1> QED
  BY <1>2, <1>3, <1>4

\* The nodes of the list get other items.
LEMMA PushStep ==
  ASSUME IndexInv, NEW t \in Thread, PushItem(t)
  PROVE  IndexInv' /\ List' = List
<1> USE DEF IndexInv
<1>0. CallOK(t) /\ ReadOK(t) /\ InsertOK(t)
  BY DEF CallsOK
<1>1. /\ UNCHANGED <<first_node, locked, nodeKey, nodeNext, used, arg, res, cur_node, prev_node>>
      /\ List' = List /\ pc[t] = "i_walk" /\ pc'[t] = "i_unlatch"
      /\ \A u \in Thread \ {t} : pc'[u] = pc[u]
  BY DEF PushItem, TypeOK, Goto, List
<1>2. cur_node[t] \in List /\ nodeItems' = [nodeItems EXCEPT ![cur_node[t]] = arg[t].item]
  BY <1>0, <1>1, ListFacts DEF PushItem, InsertOK
<1>3. arg[t].item \in Item
  BY <1>0, <1>1 DEF CallOK, TypeOK, Inserting
<1>4. TypeOK'
  BY <1>1, <1>2, <1>3, ListFacts DEF PushItem, TypeOK, Goto, Latching, Node
<1>5. LatchOK' /\ ListOK'
  BY <1>1 DEF LatchOK, Latching, ListOK, OneNodePerKey
<1>6. ASSUME NEW u \in Thread PROVE CallOK(u)' /\ ReadOK(u)' /\ InsertOK(u)'
  <2>1. CallOK(u) /\ ReadOK(u) /\ InsertOK(u)
    BY DEF CallsOK
  <2>2. CallOK(u)'
    BY <1>1, <2>1 DEF CallOK, Inserting
  <2>3. ReadOK(u)'
    BY <1>1, <2>1 DEF ReadOK, Ahead
  <2>4. InsertOK(u)'
    <3>1. pc[u] = "i_link" => arg[u].item \in Item \ List
      BY <2>1 DEF CallOK, Inserting, TypeOK
    <3> QED
      BY <1>1, <1>2, <2>1, <3>1 DEF InsertOK, Ahead, TypeOK
  <2> QED
    BY <2>2, <2>3, <2>4
<1> QED
  BY <1>1, <1>4, <1>5, <1>6 DEF CallsOK

\* The new node is filled while no other thread can reach it.
LEMMA NewStep ==
  ASSUME IndexInv, NEW t \in Thread, NewNode(t)
  PROVE  /\ IndexInv' /\ List' = List
         /\ \A n \in List : nodeKey'[n] = nodeKey[n] /\ nodeItems'[n] = nodeItems[n]
<1> USE DEF IndexInv
<1>0. CallOK(t) /\ ReadOK(t) /\ InsertOK(t)
  BY DEF CallsOK
<1> DEFINE w == arg[t].item
<1>1. /\ UNCHANGED <<first_node, locked, used, arg, res, cur_node, prev_node>>
      /\ pc[t] = "i_walk" /\ pc'[t] = "i_link" /\ cur_node[t] = NULL
      /\ \A u \in Thread \ {t} : pc'[u] = pc[u]
      /\ w \in Item /\ w \in used /\ w \notin List /\ arg[t].key \in Pk
  BY <1>0 DEF NewNode, TypeOK, Goto, CallOK, Inserting, Args
<1>2. (IF prev_node[t] # NULL THEN nodeNext[prev_node[t]] ELSE first_node) = NULL
  BY <1>0, <1>1 DEF InsertOK
<1>3. /\ nodeKey' = [nodeKey EXCEPT ![w] = arg[t].key]
      /\ nodeItems' = [nodeItems EXCEPT ![w] = w]
      /\ nodeNext' = [nodeNext EXCEPT ![w] = NULL]
  BY <1>2 DEF NewNode
<1>4. TypeOK'
  BY <1>1, <1>3 DEF NewNode, TypeOK, Goto, Inserting, Node
<1>5. \A n \in Item \ {w} : /\ nodeKey'[n] = nodeKey[n] /\ nodeItems'[n] = nodeItems[n]
                            /\ nodeNext'[n] = nodeNext[n]
  BY <1>1, <1>3 DEF TypeOK
<1>6. \A n \in List \cup {NULL} : Reachable(nodeNext', n) = Reachable(nodeNext, n)
  <2> TAKE n \in List \cup {NULL}
  <2>1. n \in Node /\ Reachable(nodeNext, n) \subseteq List
    BY ListFacts, ReachOn DEF Node
  <2>2. nodeNext \in [Item -> Node] /\ nodeNext' \in [Item -> Node]
    BY <1>4 DEF TypeOK
  <2>3. \A m \in Reachable(nodeNext, n) : nodeNext'[m] = nodeNext[m]
    BY <1>1, <1>5, <2>1, ListFacts
  <2> QED
    BY <2>1, <2>2, <2>3, ReachLocal
<1>7. List' = List
  BY <1>1, <1>6, ListFacts DEF List
<1>8. \A n \in List : /\ nodeKey'[n] = nodeKey[n] /\ nodeItems'[n] = nodeItems[n]
                      /\ nodeNext'[n] = nodeNext[n]
  BY <1>1, <1>5, ListFacts
<1>9. LatchOK' /\ ListOK'
  BY <1>1, <1>6, <1>7, <1>8 DEF LatchOK, Latching, ListOK, OneNodePerKey
<1>10. ASSUME NEW u \in Thread, cur_node[u] \in List \cup {NULL}, Ahead(u) PROVE Ahead(u)'
  BY <1>1, <1>6, <1>7, <1>8, <1>10 DEF Ahead
<1>11. ASSUME NEW u \in Thread \ {t} PROVE CallOK(u)' /\ ReadOK(u)' /\ InsertOK(u)'
  <2>1. CallOK(u) /\ ReadOK(u) /\ InsertOK(u)
    BY DEF CallsOK
  <2>2. CallOK(u)'
    BY <1>1, <1>7, <2>1 DEF CallOK, Inserting
  <2>3. ReadOK(u)'
    BY <1>1, <1>7, <1>8, <1>10, <2>1 DEF ReadOK
  <2>4. pc[u] \notin {"i_walk", "i_link"}
    BY <1>1 DEF LatchOK, Latching
  <2>5. InsertOK(u)'
    BY <1>1, <2>4 DEF InsertOK
  <2> QED
    BY <2>2, <2>3, <2>5
<1>12. CallOK(t)' /\ ReadOK(t)'
  BY <1>0, <1>1, <1>7 DEF CallOK, ReadOK, Inserting
<1>13. InsertOK(t)'
  <2>1. /\ prev_node[t] \in List \cup {NULL} /\ Ahead(t)
        /\ cur_node[t] = IF prev_node[t] = NULL THEN first_node ELSE nodeNext[prev_node[t]]
    BY <1>0, <1>1 DEF InsertOK
  <2>2. Ahead(t)'
    BY <1>1, <1>10, <2>1
  <2>3. nodeKey'[w] = arg[t].key /\ nodeItems'[w] = w /\ nodeNext'[w] = NULL
    BY <1>1, <1>3 DEF TypeOK
  <2> QED
    BY <1>1, <1>7, <1>8, <2>1, <2>2, <2>3 DEF InsertOK
<1> QED
  BY <1>4, <1>7, <1>8, <1>9, <1>11, <1>12, <1>13 DEF CallsOK

\* The node becomes the last one of the list, and its key the list's.
LEMMA LinkFacts ==
  ASSUME IndexInv, NEW t \in Thread, LinkNode(t), NEW w, w = arg[t].item
  PROVE  /\ w \in used /\ w \in Item /\ w \notin List /\ List' = List \cup {w}
         /\ nodeKey[w] = arg[t].key /\ arg[t].key \in Pk /\ nodeItems[w] = w
         /\ \A n \in List : nodeKey[n] # arg[t].key
         /\ first_node' \in Node /\ nodeNext' \in [Item -> Node]
         /\ \A n \in List : Reachable(nodeNext', n) = Reachable(nodeNext, n) \cup {w}
         /\ Reachable(nodeNext', w) = {w}
<1> USE DEF IndexInv
<1>0. PICK z : z = prev_node[t]
  OBVIOUS
<1>1. /\ pc[t] = "i_link" /\ CallOK(t) /\ InsertOK(t)
  BY DEF LinkNode, CallsOK
<1>2. /\ w \in used /\ w \in Item /\ w \notin List /\ arg[t].key \in Pk /\ w # NULL
      /\ nodeKey[w] = arg[t].key /\ nodeItems[w] = w /\ nodeNext[w] = NULL
  BY <1>1, NullAssumption DEF CallOK, InsertOK, Inserting, Args, TypeOK
<1>3. /\ z \in List \cup {NULL} /\ cur_node[t] = NULL /\ Ahead(t)
      /\ (IF z = NULL THEN first_node ELSE nodeNext[z]) = NULL
      /\ IF z # NULL THEN nodeNext' = [nodeNext EXCEPT ![z] = w] /\ first_node' = first_node
                     ELSE first_node' = w /\ nodeNext' = nodeNext
  BY <1>0, <1>1 DEF InsertOK, LinkNode
<1>4. nodeNext \in [Item -> Node] /\ first_node \in Node /\ Reachable(nodeNext, NULL) = {}
  BY ReachOn DEF TypeOK
<1>5. \A n \in List : nodeKey[n] # arg[t].key
  BY <1>3, <1>4 DEF Ahead
<1>6. nodeNext' \in [Item -> Node] /\ first_node' \in Node /\ nodeNext'[w] = NULL
  BY <1>2, <1>3, <1>4, ListFacts DEF Node
<1>7. Reachable(nodeNext', w) = {w}
  <2>1. Reachable(nodeNext', NULL) = {}
    BY <1>6, ReachOn
  <2> QED
    BY <1>2, <1>6, <2>1, ReachStep
<1>8. CASE z = NULL
  <2>1. List = {} /\ List' = {w}
    BY <1>3, <1>4, <1>7, <1>8 DEF List
  <2> QED
    BY <1>2, <1>5, <1>6, <1>7, <2>1
<1>9. CASE z # NULL
  <2>1. z \in List /\ z \in Item /\ nodeNext[z] = NULL /\ z # w
    BY <1>2, <1>3, <1>9, ListFacts
  <2>2. Reachable(nodeNext, z) = {z}
    BY <1>4, <2>1, ReachStep
  <2>3. \A n \in List : z \in Reachable(nodeNext, n)
    BY <2>1, <2>2 DEF ListOK
  <2>4. \A n \in List : Reachable(nodeNext', n) = Reachable(nodeNext, n) \cup {w}
    <3> TAKE n \in List
    <3>1. n \in Item /\ z \in Reachable(nodeNext, n)
      BY <2>3, ListFacts
    <3>2. nodeNext'[z] = w /\ \A m \in Item \ {z} : nodeNext'[m] = nodeNext[m]
      BY <1>3, <1>4, <1>9, <2>1
    <3> QED
      BY <1>2, <1>4, <1>6, <2>1, <3>1, <3>2, ReachLinked
  <2>5. first_node \in List
    BY <1>4, <2>1, ListFacts DEF List
  <2>6. List' = List \cup {w}
    BY <1>3, <1>9, <2>4, <2>5 DEF List
  <2> QED
    BY <1>2, <1>5, <1>6, <1>7, <2>4, <2>6
<1> QED
  BY <1>8, <1>9

\* Linking the new node at the end of the list keeps the invariant.
LEMMA LinkStep ==
  ASSUME IndexInv, NEW t \in Thread, LinkNode(t)
  PROVE  IndexInv'
<1> USE DEF IndexInv
<1>0. PICK w : w = arg[t].item
  OBVIOUS
<1>1. /\ UNCHANGED <<locked, nodeKey, nodeItems, used, arg, res, cur_node, prev_node>>
      /\ pc[t] = "i_link" /\ pc'[t] = "i_unlatch" /\ \A u \in Thread \ {t} : pc'[u] = pc[u]
      /\ CallOK(t)
  BY DEF LinkNode, TypeOK, Goto, CallsOK
<1>2. /\ w \in used /\ w \in Item /\ w \notin List /\ List' = List \cup {w}
      /\ nodeKey[w] = arg[t].key /\ arg[t].key \in Pk
      /\ \A n \in List : nodeKey[n] # arg[t].key
      /\ \A n \in List : Reachable(nodeNext', n) = Reachable(nodeNext, n) \cup {w}
      /\ Reachable(nodeNext', w) = {w}
  BY <1>0, LinkFacts
<1>3. TypeOK'
  BY <1>1, LinkFacts DEF LinkNode, TypeOK, Goto, Latching
<1>4. ListOK'
  <2>1. \A n \in List' : n \in used' /\ nodeKey'[n] \in Pk
    BY <1>1, <1>2 DEF ListOK
  <2>2. OneNodePerKey'
    BY <1>1, <1>2 DEF ListOK, OneNodePerKey
  <2>3. \A m, n \in List' : m \in Reachable(nodeNext', n) \/ n \in Reachable(nodeNext', m)
    BY <1>2 DEF ListOK
  <2> QED
    BY <2>1, <2>2, <2>3 DEF ListOK
<1>5. LatchOK'
  BY <1>1 DEF LatchOK, Latching
<1>6. ASSUME NEW u \in Thread PROVE CallOK(u)' /\ ReadOK(u)' /\ InsertOK(u)'
  <2>1. CallOK(u) /\ ReadOK(u) /\ InsertOK(u)
    BY DEF CallsOK
  <2>2. CallOK(u)'
    BY <1>0, <1>1, <1>2, <2>1 DEF CallOK, Inserting
  <2>3. cur_node[u] \in List /\ Ahead(u) => Ahead(u)'
    BY <1>1, <1>2 DEF Ahead
  <2>4. ReadOK(u)'
    BY <1>1, <1>2, <2>1, <2>3 DEF ReadOK
  <2>5. pc'[u] \notin {"i_walk", "i_link"}
    BY <1>1 DEF LatchOK, Latching
  <2>6. InsertOK(u)'
    BY <2>5 DEF InsertOK
  <2> QED
    BY <2>2, <2>4, <2>6
<1> QED
  BY <1>3, <1>4, <1>5, <1>6 DEF CallsOK

\* The empty index satisfies the invariant.
LEMMA IndexInit == Init => IndexInv
<1> SUFFICES ASSUME Init PROVE IndexInv
  OBVIOUS
<1>1. TypeOK
  BY DEF Init, TypeOK, Node
<1>2. List = {}
  BY <1>1, ReachOn DEF Init, TypeOK, List
<1>3. ListOK /\ LatchOK
  BY <1>2 DEF Init, ListOK, OneNodePerKey, LatchOK, Latching
<1>4. CallsOK
  BY <1>2 DEF Init, CallsOK, CallOK, ReadOK, InsertOK, Inserting
<1> QED
  BY <1>1, <1>3, <1>4 DEF IndexInv

\* Every step keeps IndexInv.
LEMMA IndexStep == IndexInv /\ [Next]_vars => IndexInv'
<1> SUFFICES ASSUME IndexInv, [Next]_vars PROVE IndexInv'
  OBVIOUS
<1>1. CASE UNCHANGED vars
  <2>1. UNCHANGED <<first_node, locked, nodeKey, nodeNext, nodeItems, used, pc, arg, cur_node,
                    prev_node, res, List>>
    BY <1>1 DEF vars, List
  <2> QED
    BY <2>1 DEF IndexInv, TypeOK, ListOK, OneNodePerKey, LatchOK, CallsOK, CallOK, ReadOK, InsertOK,
                Ahead
<1>2. ASSUME NEW t \in Thread, Call(t) PROVE IndexInv'
  BY <1>2, CallSteps DEF Call
<1>3. ASSUME NEW t \in Thread, Step(t) PROVE IndexInv'
  <2>1. CASE Return(t)
    <3>1. CASE Pk = {}
      BY <2>1, <3>1 DEF Return, IndexInv, CallsOK, CallOK, Args
    <3> QED
      BY <2>1, <3>1, CallSteps
  <2> QED
    BY <1>3, <2>1, ReadSteps, LatchSteps, PushStep, NewStep, LinkStep DEF Step
<1> QED
  BY <1>1, <1>2, <1>3 DEF Next

\* The invariant holds in every reachable state.
LEMMA IndexInvariant == Spec => []IndexInv
BY IndexInit, IndexStep, PTL DEF Spec

\* However many threads insert and read, the list has one node per key: the
\* search for an existing node and the link of the new one are under one latch.
THEOREM OneNodePerKeyHolds == Spec => []OneNodePerKey
BY IndexInvariant, PTL DEF IndexInv, ListOK

-----------------------------------------------------------------------------
(* The index as a map *)

mapVars == <<MapView, OpView, arg, res>>

\* What the list says of a key.
MapOK ==
  /\ \A n \in List : MapView[nodeKey[n]] = nodeItems[n]
  /\ \A p \in Pk : (\A n \in List : nodeKey[n] # p) => MapView[p] = NULL

\* The abstract map is a map, from the keys that have a node.
LEMMA MapFacts == IndexInv => MapOK
<1> SUFFICES ASSUME IndexInv PROVE MapOK
  OBVIOUS
<1>1. ASSUME NEW n \in List PROVE MapView[nodeKey[n]] = nodeItems[n]
  <2> DEFINE c == CHOOSE m \in List : nodeKey[m] = nodeKey[n]
  <2>1. c \in List /\ nodeKey[c] = nodeKey[n] /\ nodeKey[n] \in Pk
    BY DEF IndexInv, ListOK
  <2>2. c = n
    BY <2>1 DEF IndexInv, ListOK, OneNodePerKey
  <2>3. MapView[nodeKey[n]] = nodeItems[c]
    BY <2>1 DEF MapView
  <2> QED
    BY <2>2, <2>3
<1> QED
  BY <1>1 DEF MapOK, MapView

\* The same of the next state.
LEMMA NextMapFacts == IndexInv' => MapOK'
BY MapFacts, PTL

\* Steps that keep the keys and items of the list.
LEMMA SameMap ==
  ASSUME List' = List, \A n \in List : nodeKey'[n] = nodeKey[n] /\ nodeItems'[n] = nodeItems[n]
  PROVE  MapView' = MapView
<1>1. ASSUME NEW p \in Pk PROVE MapView'[p] = MapView[p]
  <2>1. (\E n \in List' : nodeKey'[n] = p) <=> \E n \in List : nodeKey[n] = p
    OBVIOUS
  <2>2. ASSUME \E n \in List : nodeKey[n] = p
        PROVE  nodeItems'[CHOOSE n \in List' : nodeKey'[n] = p] = nodeItems[CHOOSE n \in List : nodeKey[n] = p]
    <3>1. (CHOOSE n \in List' : nodeKey'[n] = p) = (CHOOSE n \in List : nodeKey[n] = p)
      OBVIOUS
    <3> QED
      BY <2>2, <3>1
  <2> QED
    BY <2>1, <2>2 DEF MapView
<1> QED
  BY <1>1 DEF MapView

\* Where a thread is, in the view.
LEMMA OpFacts ==
  ASSUME NEW t \in Thread
  PROVE  /\ pc[t] = "idle" => OpView[t] = "idle"
         /\ pc[t] \in Reading => OpView[t] = "read"
         /\ pc[t] \in Inserting => OpView[t] = "insert"
         /\ pc[t] \in {"i_unlatch", "done"} => OpView[t] = "done"
BY DEF OpView, Reading, Inserting

\* The abstract operation of each thread in the next state.
LEMMA NextOpFacts ==
  ASSUME NEW t \in Thread
  PROVE  /\ pc'[t] = "idle" => OpView'[t] = "idle"
         /\ pc'[t] \in Reading => OpView'[t] = "read"
         /\ pc'[t] \in Inserting => OpView'[t] = "insert"
         /\ pc'[t] \in {"i_unlatch", "done"} => OpView'[t] = "done"
BY DEF OpView, Reading, Inserting

\* A step of t changes the abstract operation of t only.
LEMMA OpMoves ==
  ASSUME TypeOK, NEW t \in Thread, NEW label, Goto(t, label)
  PROVE  OpView' = [OpView EXCEPT ![t] = OpView'[t]] /\ pc'[t] = label
<1>1. pc'[t] = label /\ \A u \in Thread \ {t} : pc'[u] = pc[u]
  BY Others
<1>2. \A u \in Thread \ {t} : OpView'[u] = OpView[u]
  BY <1>1 DEF OpView
<1>3. OpView' = [u \in Thread |-> OpView'[u]] /\ OpView = [u \in Thread |-> OpView[u]]
  BY DEF OpView
<1> QED
  BY <1>1, <1>2, <1>3

\* A step that changes no phase of t leaves the abstract operations alone.
LEMMA OpStays ==
  ASSUME TypeOK, NEW t \in Thread, NEW label, Goto(t, label), OpView'[t] = OpView[t]
  PROVE  OpView' = OpView
<1>1. OpView' = [OpView EXCEPT ![t] = OpView[t]]
  BY OpMoves
<1>2. OpView = [u \in Thread |-> OpView[u]]
  BY DEF OpView
<1> QED
  BY <1>1, <1>2

\* A step that changes no link leaves the abstract map alone.
LEMMA SameList ==
  ASSUME UNCHANGED <<first_node, nodeKey, nodeNext, nodeItems>>
  PROVE  MapView' = MapView
<1>1. List' = List
  BY DEF List
<1> QED
  BY <1>1, SameMap

\* Calls and returns are the map's.
LEMMA CallsSeen ==
  ASSUME IndexInv, NEW t \in Thread,
         (\E p \in Pk : index_read(t, p) \/ \E i \in Item : index_insert(t, p, i)) \/ Return(t)
  PROVE  Map!Next
<1> USE DEF IndexInv
<1>1. MapView' = MapView
  BY SameList DEF index_read, index_insert, Return, listVars
<1>2. ASSUME NEW p \in Pk, index_read(t, p) PROVE Map!Next
  <2>1. OpView[t] = "idle" /\ OpView' = [OpView EXCEPT ![t] = "read"]
    BY <1>2, OpMoves, OpFacts, NextOpFacts DEF index_read, Reading
  <2>2. Map!CallOp(t, "read", p, NULL)
    BY <1>1, <1>2, <2>1 DEF index_read, Map!CallOp
  <2> QED
    BY <2>2 DEF Map!Next
<1>3. ASSUME NEW p \in Pk, NEW i \in Item, index_insert(t, p, i) PROVE Map!Next
  <2>1. OpView[t] = "idle" /\ OpView' = [OpView EXCEPT ![t] = "insert"]
    BY <1>3, OpMoves, OpFacts, NextOpFacts DEF index_insert, Inserting
  <2>2. Map!CallOp(t, "insert", p, i)
    BY <1>1, <1>3, <2>1 DEF index_insert, Map!CallOp
  <2> QED
    BY <2>2 DEF Map!Next
<1>4. CASE Return(t)
  <2>1. OpView[t] = "done" /\ OpView' = [OpView EXCEPT ![t] = "idle"]
    BY <1>4, OpMoves, OpFacts, NextOpFacts DEF Return
  <2>2. Map!ReturnOp(t)
    BY <1>1, <1>4, <2>1 DEF Return, Map!ReturnOp
  <2> QED
    BY <2>2 DEF Map!Next
<1> QED
  BY <1>2, <1>3, <1>4

\* A read takes effect when it loads the item, or the NULL that ends the list:
\* the key has no node then, neither behind the reader nor ahead of it.
LEMMA ReadsSeen ==
  ASSUME IndexInv, NEW t \in Thread, ReadFirst(t) \/ ReadKey(t) \/ ReadNext(t) \/ ReadItems(t)
  PROVE  [Map!Next]_mapVars
<1> USE DEF IndexInv
<1>1. /\ MapView' = MapView /\ MapOK /\ UNCHANGED arg /\ pc[t] \in Reading /\ OpView[t] = "read"
      /\ ReadOK(t) /\ CallOK(t) /\ arg[t].key \in Pk
  <2>1. MapView' = MapView /\ UNCHANGED arg /\ pc[t] \in Reading
    BY SameList DEF ReadFirst, ReadKey, ReadNext, ReadItems, ReadLink, listVars, Reading
  <2>2. ReadOK(t) /\ CallOK(t) /\ MapOK /\ OpView[t] = "read"
    BY <2>1, MapFacts, OpFacts DEF CallsOK
  <2> QED
    BY <2>1, <2>2 DEF CallOK, Args, Reading
<1>2. ASSUME Goto(t, "done"), res' = [res EXCEPT ![t] = MapView[arg[t].key]] PROVE Map!Next
  <2>1. OpView' = [OpView EXCEPT ![t] = "done"]
    BY <1>2, OpMoves, NextOpFacts
  <2>2. Map!DoRead(t)
    BY <1>1, <1>2, <2>1 DEF Map!DoRead
  <2> QED
    BY <2>2 DEF Map!Next
<1>3. ASSUME NEW label \in {"r_key", "r_next", "r_items"}, Goto(t, label), res' = res
      PROVE  UNCHANGED mapVars
  <2>1. OpView' = OpView
    BY <1>1, <1>3, OpMoves, OpStays, NextOpFacts DEF Reading
  <2> QED
    BY <1>1, <1>3, <2>1 DEF mapVars
<1>4. CASE ReadFirst(t)
  <2>1. CASE first_node = NULL
    <3>1. List = {}
      BY <2>1, ReachOn DEF List, TypeOK
    <3>2. MapView[arg[t].key] = NULL
      BY <1>1, <3>1 DEF MapOK
    <3> QED
      BY <1>2, <1>4, <2>1, <3>2 DEF ReadFirst, ReadLink
  <2>2. CASE first_node # NULL
    BY <1>3, <1>4, <2>2 DEF ReadFirst, ReadLink
  <2> QED
    BY <2>1, <2>2
<1>5. CASE ReadKey(t)
  BY <1>3, <1>5 DEF ReadKey
<1>6. CASE ReadNext(t)
  <2> DEFINE c == cur_node[t]
  <2>1. pc[t] = "r_next" /\ c \in List /\ nodeKey[c] # arg[t].key /\ Ahead(t)
    BY <1>1, <1>6 DEF ReadNext, ReadOK
  <2>2. CASE nodeNext[c] = NULL
    <3>1. Reachable(nodeNext, c) = {c} \cup Reachable(nodeNext, NULL) /\ Reachable(nodeNext, NULL) = {}
      BY <2>1, <2>2, ListFacts, ReachStep, ReachOn
    <3>2. \A n \in List : nodeKey[n] # arg[t].key
      BY <2>1, <3>1 DEF Ahead
    <3>3. MapView[arg[t].key] = NULL
      BY <1>1, <3>2 DEF MapOK
    <3> QED
      BY <1>2, <1>6, <2>2, <3>3 DEF ReadNext, ReadLink
  <2>3. CASE nodeNext[c] # NULL
    BY <1>3, <1>6, <2>3 DEF ReadNext, ReadLink
  <2> QED
    BY <2>2, <2>3
<1>7. CASE ReadItems(t)
  <2>1. cur_node[t] \in List /\ nodeKey[cur_node[t]] = arg[t].key
    BY <1>1, <1>7 DEF ReadItems, ReadOK
  <2>2. MapView[arg[t].key] = nodeItems[cur_node[t]]
    BY <1>1, <2>1 DEF MapOK
  <2> QED
    BY <1>2, <1>7, <2>2 DEF ReadItems
<1> QED
  BY <1>4, <1>5, <1>6, <1>7

\* An insertion takes effect when its item can be reached.
LEMMA InsertsSeen ==
  ASSUME IndexInv, IndexInv', NEW t \in Thread, PushItem(t) \/ LinkNode(t)
  PROVE  Map!Next
<1> USE DEF IndexInv
<1>0. PICK p, w : p = arg[t].key /\ w = arg[t].item
  OBVIOUS
<1>1. /\ UNCHANGED <<arg, res, nodeKey>> /\ pc[t] \in Inserting /\ Goto(t, "i_unlatch") /\ MapOK /\ MapOK'
      /\ CallOK(t) /\ InsertOK(t)
  BY MapFacts, NextMapFacts DEF PushItem, LinkNode, Inserting, CallsOK
<1>2. OpView[t] = "insert" /\ OpView' = [OpView EXCEPT ![t] = "done"] /\ p \in Pk
  <2>1. OpView' = [OpView EXCEPT ![t] = OpView'[t]] /\ pc'[t] = "i_unlatch"
    BY <1>1, OpMoves
  <2>2. p \in Pk
    BY <1>0, <1>1 DEF CallOK, Inserting, Args
  <2> QED
    BY <1>1, <2>1, <2>2, OpFacts, NextOpFacts
<1>3. MapView'[p] = w /\ \A q \in Pk \ {p} : MapView'[q] = MapView[q]
  <2>1. CASE PushItem(t)
    <3>0. PICK c : c = cur_node[t]
      OBVIOUS
    <3>1. /\ List' = List /\ c \in List /\ nodeKey[c] = p
          /\ nodeItems' = [nodeItems EXCEPT ![c] = w]
      BY <1>0, <1>1, <2>1, <3>0, PushStep, ListFacts DEF PushItem, InsertOK
    <3>2. nodeItems'[c] = w /\ \A n \in List \ {c} : nodeItems'[n] = nodeItems[n]
      BY <3>1, ListFacts DEF TypeOK
    <3>3. MapView'[p] = w
      BY <1>1, <3>1, <3>2 DEF MapOK
    <3>4. ASSUME NEW q \in Pk \ {p} PROVE MapView'[q] = MapView[q]
      <4>1. CASE \E n \in List : nodeKey[n] = q
        BY <1>1, <3>1, <3>2, <4>1 DEF MapOK
      <4>2. CASE \A n \in List : nodeKey[n] # q
        BY <1>1, <3>1, <4>2 DEF MapOK
      <4> QED
        BY <4>1, <4>2
    <3> QED
      BY <3>3, <3>4
  <2>2. CASE LinkNode(t)
    <3>1. /\ w \notin List /\ List' = List \cup {w} /\ nodeKey[w] = p /\ nodeItems[w] = w
          /\ nodeItems' = nodeItems
      BY <1>0, <2>2, LinkFacts DEF LinkNode
    <3>2. MapView'[p] = w
      BY <1>1, <3>1 DEF MapOK
    <3>3. ASSUME NEW q \in Pk \ {p} PROVE MapView'[q] = MapView[q]
      <4>1. CASE \E n \in List : nodeKey[n] = q
        BY <1>1, <3>1, <4>1 DEF MapOK
      <4>2. CASE \A n \in List : nodeKey[n] # q
        BY <1>1, <3>1, <3>3, <4>2 DEF MapOK
      <4> QED
        BY <4>1, <4>2
    <3> QED
      BY <3>2, <3>3
  <2> QED
    BY <2>1, <2>2
<1>4. MapView' = [MapView EXCEPT ![p] = w]
  <2>1. MapView' = [q \in Pk |-> MapView'[q]] /\ MapView = [q \in Pk |-> MapView[q]]
    BY DEF MapView
  <2> QED
    BY <1>2, <1>3, <2>1
<1>5. Map!DoInsert(t)
  BY <1>0, <1>1, <1>2, <1>4 DEF Map!DoInsert
<1> QED
  BY <1>5 DEF Map!Next

\* What else goes on under the latch is not seen.
LEMMA LatchSeen ==
  ASSUME IndexInv, NEW t \in Thread, get_latch(t) \/ WalkOn(t) \/ NewNode(t) \/ release_latch(t)
  PROVE  UNCHANGED mapVars
<1> USE DEF IndexInv
<1>1. MapView' = MapView
  <2>1. CASE NewNode(t)
    BY <2>1, NewStep, SameMap
  <2> QED
    BY <2>1, SameList DEF get_latch, WalkOn, release_latch, listVars
<1>2. OpView' = OpView
  <2>1. CASE WalkOn(t)
    BY <2>1 DEF WalkOn, OpView
  <2>2. CASE get_latch(t)
    <3>1. pc[t] = "i_latch" /\ Goto(t, "i_walk")
      BY <2>2 DEF get_latch
    <3> QED
      BY <3>1, OpMoves, OpStays, OpFacts, NextOpFacts DEF Inserting
  <2>3. CASE NewNode(t)
    <3>1. pc[t] = "i_walk" /\ Goto(t, "i_link")
      BY <2>3 DEF NewNode
    <3> QED
      BY <3>1, OpMoves, OpStays, OpFacts, NextOpFacts DEF Inserting
  <2>4. CASE release_latch(t)
    <3>1. pc[t] = "i_unlatch" /\ Goto(t, "done")
      BY <2>4 DEF release_latch
    <3> QED
      BY <3>1, OpMoves, OpStays, OpFacts, NextOpFacts
  <2> QED
    BY <2>1, <2>2, <2>3, <2>4
<1> QED
  BY <1>1, <1>2 DEF mapVars, get_latch, WalkOn, NewNode, release_latch

\* An initial state shows an initial state of IndexMap.
LEMMA InitSeen == Init => Map!Init
<1> SUFFICES ASSUME Init PROVE Map!Init
  OBVIOUS
<1>1. IndexInv /\ MapOK
  BY IndexInit, MapFacts
<1>2. List = {}
  BY <1>1, ReachOn DEF Init, IndexInv, TypeOK, List
<1>3. MapView = [p \in Pk |-> NULL]
  BY <1>2 DEF MapView
<1>4. OpView = [t \in Thread |-> "idle"]
  BY DEF Init, OpView
<1> QED
  BY <1>3, <1>4 DEF Init, Map!Init

\* A step shows a step of IndexMap or none.
LEMMA StepSeen == IndexInv /\ IndexInv' /\ [Next]_vars => [Map!Next]_mapVars
<1> SUFFICES ASSUME IndexInv, IndexInv', [Next]_vars PROVE [Map!Next]_mapVars
  OBVIOUS
<1>1. CASE UNCHANGED vars
  BY <1>1, SameList DEF vars, mapVars, OpView
<1>2. ASSUME NEW t \in Thread, Call(t) PROVE Map!Next
  BY <1>2, CallsSeen DEF Call
<1>3. ASSUME NEW t \in Thread, Step(t) PROVE [Map!Next]_mapVars
  BY <1>3, CallsSeen, ReadsSeen, InsertsSeen, LatchSeen DEF Step
<1> QED
  BY <1>1, <1>2, <1>3 DEF Next

\* index_read and index_insert are atomic, although index_read walks the list
\* with no latch while others change it: it returns what the map holds for its
\* key at one instant of the call, and no insertion is lost.
THEOREM ReadsAreAtomic == Spec => Linearizable
<1>1. Spec => Map!Init /\ [][Map!Next]_mapVars
  BY IndexInvariant, InitSeen, StepSeen, PTL DEF Spec
<1> QED
  BY <1>1 DEF Linearizable, Map!Spec, Map!vars, mapVars
=============================================================================
