------------------------------ MODULE IndexMap ------------------------------
(***************************************************************************)
(* What the hash index promises to the threads that use it: a map from     *)
(* primary key to the item inserted last, where every index_read and       *)
(* index_insert takes effect at one instant between its call and its       *)
(* return.  This is the index that module TxnMan assumes.                  *)
(***************************************************************************)
CONSTANTS Thread, Pk, Item, NULL

VARIABLES map,   \* map[p]: item that a read of p returns, or NULL
          op,    \* op[t]: "idle", "read", "insert" or "done"
          arg,   \* arg[t]: key and item of the call in progress
          res    \* res[t]: item returned by t's last read

vars == <<map, op, arg, res>>

Init ==
  /\ map = [p \in Pk |-> NULL]
  /\ op = [t \in Thread |-> "idle"]
  /\ arg = [t \in Thread |-> NULL]
  /\ res = [t \in Thread |-> NULL]

CallOp(t, o, p, i) ==
  /\ op[t] = "idle"
  /\ op' = [op EXCEPT ![t] = o]
  /\ arg' = [arg EXCEPT ![t] = [key |-> p, item |-> i]]
  /\ UNCHANGED <<map, res>>

DoRead(t) ==
  /\ op[t] = "read"
  /\ op' = [op EXCEPT ![t] = "done"]
  /\ res' = [res EXCEPT ![t] = map[arg[t].key]]
  /\ UNCHANGED <<map, arg>>

DoInsert(t) ==
  /\ op[t] = "insert"
  /\ op' = [op EXCEPT ![t] = "done"]
  /\ map' = [map EXCEPT ![arg[t].key] = arg[t].item]
  /\ UNCHANGED <<arg, res>>

ReturnOp(t) ==
  /\ op[t] = "done"
  /\ op' = [op EXCEPT ![t] = "idle"]
  /\ arg' = [arg EXCEPT ![t] = NULL]
  /\ UNCHANGED <<map, res>>

Next ==
  \E t \in Thread :
    \/ \E p \in Pk : \/ CallOp(t, "read", p, NULL)
                     \/ \E i \in Item : CallOp(t, "insert", p, i)
    \/ DoRead(t) \/ DoInsert(t) \/ ReturnOp(t)

Spec == Init /\ [][Next]_vars
=============================================================================
