----------------------------- MODULE IndexHash -----------------------------
(***************************************************************************)
(* The hash index (Storage/DataFormat/index_hash.cpp).  All keys share one *)
(* bucket: a singly linked list of nodes, one node per primary key.        *)
(* index_insert walks and changes the list under the bucket's spin latch;  *)
(* index_read walks it with no latch at all, one load at a time.           *)
(*                                                                         *)
(* Loads and stores take effect in program order, as they do in the        *)
(* unoptimised x86-64 build of CMakeLists.txt.  A node is named by the     *)
(* item it was allocated for.                                              *)
(***************************************************************************)
EXTENDS Naturals

CONSTANTS Thread, Pk, Item, NULL

ASSUME NullAssumption == NULL \notin Item

VARIABLES
  first_node,  \* BucketHeader::first_node
  locked,      \* BucketHeader::locked
  nodeKey, nodeNext, nodeItems,  \* BucketNode::key, next, items
  used,        \* items whose insertion was started
  pc, arg,     \* where each thread is, and the arguments of its call
  cur_node, prev_node,
  res          \* item out-parameter of index_read

vars == <<first_node, locked, nodeKey, nodeNext, nodeItems, used, pc, arg,
          cur_node, prev_node, res>>

listVars == <<first_node, locked, nodeKey, nodeNext, nodeItems>>

Init ==
  /\ first_node = NULL
  /\ locked = FALSE
  /\ nodeKey = [n \in Item |-> NULL]    \* NULL: not allocated
  /\ nodeNext = [n \in Item |-> NULL]
  /\ nodeItems = [n \in Item |-> NULL]
  /\ used = {}
  /\ pc = [t \in Thread |-> "idle"]
  /\ arg = [t \in Thread |-> NULL]
  /\ cur_node = [t \in Thread |-> NULL]
  /\ prev_node = [t \in Thread |-> NULL]
  /\ res = [t \in Thread |-> NULL]

Goto(t, label) == pc' = [pc EXCEPT ![t] = label]
-----------------------------------------------------------------------------
(* index_read *)

index_read(t, p) ==
  /\ pc[t] = "idle"
  /\ Goto(t, "r_first")
  /\ arg' = [arg EXCEPT ![t] = [key |-> p, item |-> NULL]]
  /\ UNCHANGED <<listVars, used, cur_node, prev_node, res>>

\* The load of first_node, or of cur_node->next.  NULL ends the search.
ReadLink(t, from, link) ==
  /\ pc[t] = from
  /\ cur_node' = [cur_node EXCEPT ![t] = link]
  /\ IF link = NULL
     THEN Goto(t, "done") /\ res' = [res EXCEPT ![t] = NULL]
     ELSE Goto(t, "r_key") /\ UNCHANGED res
  /\ UNCHANGED <<listVars, used, arg, prev_node>>

ReadFirst(t) == ReadLink(t, "r_first", first_node)
ReadNext(t) == pc[t] = "r_next" /\ ReadLink(t, "r_next", nodeNext[cur_node[t]])

\* cur_node->key == key
ReadKey(t) ==
  /\ pc[t] = "r_key"
  /\ Goto(t, IF nodeKey[cur_node[t]] = arg[t].key THEN "r_items" ELSE "r_next")
  /\ UNCHANGED <<listVars, used, arg, cur_node, prev_node, res>>

ReadItems(t) ==
  /\ pc[t] = "r_items"
  /\ Goto(t, "done")
  /\ res' = [res EXCEPT ![t] = nodeItems[cur_node[t]]]
  /\ UNCHANGED <<listVars, used, arg, cur_node, prev_node>>
-----------------------------------------------------------------------------
(* index_insert *)

index_insert(t, p, i) ==
  /\ pc[t] = "idle" /\ i \notin used
  /\ Goto(t, "i_latch")
  /\ used' = used \cup {i}
  /\ arg' = [arg EXCEPT ![t] = [key |-> p, item |-> i]]
  /\ UNCHANGED <<listVars, cur_node, prev_node, res>>

\* Inserters do not wait for the latch.
Mut_no_latch(t) ==
  /\ pc[t] = "i_latch"
  /\ locked' = TRUE
  /\ Goto(t, "i_walk")
  /\ cur_node' = [cur_node EXCEPT ![t] = first_node]
  /\ prev_node' = [prev_node EXCEPT ![t] = NULL]
  /\ UNCHANGED <<first_node, nodeKey, nodeNext, nodeItems, used, arg, res>>

\* A compare-and-swap of locked that succeeds; one that fails changes nothing.
ATOM_CAS(oldval, newval) == locked = oldval /\ locked' = newval

get_latch(t) ==
  /\ pc[t] = "i_latch"
  /\ ATOM_CAS(FALSE, TRUE)
  /\ Goto(t, "i_walk")
  /\ cur_node' = [cur_node EXCEPT ![t] = first_node]
  /\ prev_node' = [prev_node EXCEPT ![t] = NULL]
  /\ UNCHANGED <<first_node, nodeKey, nodeNext, nodeItems, used, arg, res>>

\* One turn of the loop that looks for the key's node.
WalkOn(t) ==
  LET n == cur_node[t] IN
  /\ pc[t] = "i_walk" /\ n # NULL /\ nodeKey[n] # arg[t].key
  /\ prev_node' = [prev_node EXCEPT ![t] = n]
  /\ cur_node' = [cur_node EXCEPT ![t] = nodeNext[n]]
  /\ UNCHANGED <<listVars, used, pc, arg, res>>

\* The key has a node: the item is pushed on the front of its items.  The
\* item's own next pointer is set before and never read by any thread.
PushItem(t) ==
  LET n == cur_node[t] IN
  /\ pc[t] = "i_walk" /\ n # NULL /\ nodeKey[n] = arg[t].key
  /\ nodeItems' = [nodeItems EXCEPT ![n] = arg[t].item]
  /\ Goto(t, "i_unlatch")
  /\ UNCHANGED <<first_node, locked, nodeKey, nodeNext, used, arg, cur_node, prev_node, res>>

\* The new node always points to the front of the list.
Mut_front_next(t) ==
  LET n == arg[t].item IN
  /\ pc[t] = "i_walk" /\ cur_node[t] = NULL
  /\ nodeKey' = [nodeKey EXCEPT ![n] = arg[t].key]
  /\ nodeItems' = [nodeItems EXCEPT ![n] = arg[t].item]
  /\ nodeNext' = [nodeNext EXCEPT ![n] = first_node]
  /\ Goto(t, "i_link")
  /\ UNCHANGED <<first_node, locked, used, arg, cur_node, prev_node, res>>

\* The key has no node: one is allocated and filled, still private.
NewNode(t) ==
  LET n == arg[t].item IN
  /\ pc[t] = "i_walk" /\ cur_node[t] = NULL
  /\ nodeKey' = [nodeKey EXCEPT ![n] = arg[t].key]
  /\ nodeItems' = [nodeItems EXCEPT ![n] = arg[t].item]
  /\ nodeNext' = [nodeNext EXCEPT ![n] =
                    IF prev_node[t] # NULL THEN nodeNext[prev_node[t]] ELSE first_node]
  /\ Goto(t, "i_link")
  /\ UNCHANGED <<first_node, locked, used, arg, cur_node, prev_node, res>>

\* The store that publishes the node, at the end of the list.
LinkNode(t) ==
  LET n == arg[t].item IN
  /\ pc[t] = "i_link"
  /\ IF prev_node[t] # NULL
     THEN nodeNext' = [nodeNext EXCEPT ![prev_node[t]] = n] /\ UNCHANGED first_node
     ELSE first_node' = n /\ UNCHANGED nodeNext
  /\ Goto(t, "i_unlatch")
  /\ UNCHANGED <<locked, nodeKey, nodeItems, used, arg, cur_node, prev_node, res>>

\* release_latch asserts that the bucket was latched.
release_latch(t) ==
  /\ pc[t] = "i_unlatch"
  /\ ATOM_CAS(TRUE, FALSE)
  /\ Goto(t, "done")
  /\ UNCHANGED <<first_node, nodeKey, nodeNext, nodeItems, used, arg, cur_node, prev_node, res>>

Return(t) ==
  /\ pc[t] = "done"
  /\ Goto(t, "idle")
  /\ arg' = [arg EXCEPT ![t] = NULL]
  /\ cur_node' = [cur_node EXCEPT ![t] = NULL]
  /\ prev_node' = [prev_node EXCEPT ![t] = NULL]
  /\ UNCHANGED <<listVars, used, res>>
-----------------------------------------------------------------------------
Call(t) ==
  \E p \in Pk : index_read(t, p) \/ \E i \in Item : index_insert(t, p, i)

Step(t) ==
  \/ ReadFirst(t) \/ ReadKey(t) \/ ReadNext(t) \/ ReadItems(t)
  \/ get_latch(t) \/ WalkOn(t) \/ PushItem(t) \/ NewNode(t) \/ LinkNode(t)
  \/ release_latch(t) \/ Return(t)

Next == \E t \in Thread : Call(t) \/ Step(t)

Spec == Init /\ [][Next]_vars

\* Threads are scheduled; whether to call is the engine's choice.
FairSpec == Spec /\ \A t \in Thread : WF_vars(Step(t))
=============================================================================
