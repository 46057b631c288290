----------------------------- MODULE AccessSet -----------------------------
(***************************************************************************)
(* What a transaction's own data promises to the engine: one access per    *)
(* primary key; a validation that latches the accessed rows in the order   *)
(* of their keys, each once, and goes on to write only when it holds them  *)
(* all; the written rows are exactly those accessed for writing; and every *)
(* latch is given back.  Module TxnMan is written in these terms.          *)
(***************************************************************************)
EXTENDS Naturals

CONSTANTS Pk, Row, NULL, get_primary_key(_)

VARIABLES
  set,     \* set[p]: [type, row] of the access with primary key p, or NULL
  locked,  \* rows latched
  out,     \* rows written
  at       \* "running", "validating", "committed", "aborted" or "done"

vars == <<set, locked, out, at>>

Empty == [p \in Pk |-> NULL]

Rows == {set[p].row : p \in {q \in Pk : set[q] # NULL}}
Writes == {r \in Rows : set[get_primary_key(r)].type = "WR"}
First(S) == CHOOSE r \in S : \A q \in S : get_primary_key(r) <= get_primary_key(q)

Init == set = Empty /\ locked = {} /\ out = {} /\ at = "running"

\* The first access of a primary key, or a read turned into a write.
Access(r, type) ==
  LET p == get_primary_key(r) IN
  /\ at = "running"
  /\ set[p] = NULL \/ (set[p] = [type |-> "RD", row |-> r] /\ type = "WR")
  /\ set' = [set EXCEPT ![p] = [type |-> type, row |-> r]]
  /\ UNCHANGED <<locked, out, at>>

Validate == at = "running" /\ at' = "validating" /\ UNCHANGED <<set, locked, out>>

Latch ==
  /\ at = "validating" /\ locked # Rows
  /\ locked' = locked \cup {First(Rows \ locked)}
  /\ UNCHANGED <<set, out, at>>

Commit ==
  /\ at = "validating" /\ locked = Rows
  /\ at' = "committed" /\ out' = Writes /\ set' = Empty
  /\ UNCHANGED locked

Abort ==
  /\ at \in {"running", "validating"}
  /\ at' = "aborted" /\ set' = Empty
  /\ UNCHANGED <<locked, out>>

Unlatch ==
  /\ at \in {"committed", "aborted"} /\ locked # {}
  /\ locked' = locked \ {First(locked)}
  /\ UNCHANGED <<set, out, at>>

Return ==
  /\ at \in {"committed", "aborted"} /\ locked = {}
  /\ at' = "done" /\ UNCHANGED <<set, locked, out>>

Next ==
  \/ \E r \in Row, type \in {"RD", "WR"} : Access(r, type)
  \/ Validate \/ Latch \/ Commit \/ Abort \/ Unlatch \/ Return

Spec == Init /\ [][Next]_vars
=============================================================================
