------------------------------ MODULE SerialKV ------------------------------
(***************************************************************************)
(* What the transaction engine promises for a set of records: transactions *)
(* run as if one at a time, and even an unfinished transaction only ever   *)
(* sees the committed state of the instant at which it began.              *)
(*                                                                         *)
(* A transaction works on the snapshot taken by Begin.  Commit takes       *)
(* effect at one instant, at which every record the transaction used       *)
(* must still have its snapshot value: the commit then equals a serial run *)
(* of the whole transaction at that instant.                               *)
(***************************************************************************)
CONSTANTS Txn,      \* transactions
          Rec,      \* records
          Value,    \* values of a record
          InitVal,  \* value of every record before the first commit
          NULL      \* "not used", "not written"

VARIABLES db,       \* db[p]: committed value of record p
          status,   \* status[t]: "idle", "active", "committed" or "aborted"
          snap,     \* snap[t]: committed state when t began, while t is active
          seen,     \* seen[t][p]: value t got when it first used p, or NULL
          wr        \* wr[t][p]: value t will write to p, or NULL

vars == <<db, status, snap, seen, wr>>

Init ==
  /\ db = [p \in Rec |-> InitVal]
  /\ status = [t \in Txn |-> "idle"]
  /\ snap = [t \in Txn |-> [p \in Rec |-> NULL]]
  /\ seen = [t \in Txn |-> [p \in Rec |-> NULL]]
  /\ wr = [t \in Txn |-> [p \in Rec |-> NULL]]

Begin(t) ==
  /\ status[t] = "idle"
  /\ status' = [status EXCEPT ![t] = "active"]
  /\ snap' = [snap EXCEPT ![t] = db]
  /\ UNCHANGED <<db, seen, wr>>

\* t reads p.  The record comes from the snapshot, whatever committed since.
Get(t, p) ==
  /\ status[t] = "active"
  /\ seen' = [seen EXCEPT ![t][p] = snap[t][p]]
  /\ UNCHANGED <<db, status, snap, wr>>

Put(t, p, v) ==
  /\ status[t] = "active"
  /\ seen' = [seen EXCEPT ![t][p] = snap[t][p]]
  /\ wr' = [wr EXCEPT ![t][p] = v]
  /\ UNCHANGED <<db, status, snap>>

Finish(t, outcome) ==
  /\ status' = [status EXCEPT ![t] = outcome]
  /\ seen' = [seen EXCEPT ![t] = [p \in Rec |-> NULL]]
  /\ wr' = [wr EXCEPT ![t] = [p \in Rec |-> NULL]]
  /\ snap' = [snap EXCEPT ![t] = [p \in Rec |-> NULL]]

Commit(t) ==
  /\ status[t] = "active"
  /\ \A p \in Rec : seen[t][p] # NULL => db[p] = seen[t][p]
  /\ db' = [p \in Rec |-> IF wr[t][p] # NULL THEN wr[t][p] ELSE db[p]]
  /\ Finish(t, "committed")

Abort(t) ==
  /\ status[t] = "active"
  /\ Finish(t, "aborted")
  /\ UNCHANGED db

Next ==
  \E t \in Txn :
    \/ Begin(t)
    \/ \E p \in Rec : Get(t, p) \/ \E v \in Value : Put(t, p, v)
    \/ Commit(t)
    \/ Abort(t)

Spec == Init /\ [][Next]_vars
=============================================================================
