------------------------------- MODULE TxnMan -------------------------------
(***************************************************************************)
(* The transaction engine: server::begin_txn/get/put/commit/abort_txn      *)
(* (Server/kv_api.cpp) over txn_man (Storage/System/txn.cpp), the rows and *)
(* their Row_occ managers, OptCC::validate and Manager::get_ts.            *)
(*                                                                         *)
(* Each transaction is driven by one server thread; the threads interleave *)
(* at the points where they touch shared state: the timestamp counter (an  *)
(* atomic), the hash index (atomic here: module IndexHash shows that), and *)
(* the rows, which are read and written only under their own latch.  A     *)
(* call is therefore two or more steps: the index probe, then one step per *)
(* latch operation.  The rows written by a commit are written in one step, *)
(* because all of them are latched by the committing thread.               *)
(***************************************************************************)
EXTENDS Naturals, FiniteSets

CONSTANTS
  Txn,             \* transactions (one TxnContext each, used once)
  Key, Value,      \* client keys and values
  hash_key,        \* hash_key[k]: the primary key std::hash gives k
  key_buf,         \* key_buf[k]: what the 128-byte KEY field keeps of k
  val_buf,         \* val_buf[v]: what the 1024-byte VALUE field keeps of v
  Loaded,          \* keys that init_engine loads from the data file
  InitVal,         \* their value in that file
  Loader,          \* "owner" of the rows init_engine creates
  NULL,            \* null pointer, free latch
  MAX_ROW_PER_TXN  \* length of txn_man::accesses

Pk == {hash_key[k] : k \in Key}
LoadedPk == {hash_key[k] : k \in Loaded}

\* A row_t is named by the transaction that allocated it and its primary key:
\* a transaction allocates at most one row for a primary key.
Row == (Txn \cup {Loader}) \X Pk
owner(r) == r[1]
pk(r) == r[2]

RowData == [key : {key_buf[k] : k \in Key}, val : Value]
AccessType == {"RD", "WR"}
\* class Access.  orig_data is declared but never assigned by the code; here it
\* is a history field, the copy that Row_occ::access made.
Access == [type : AccessType, orig_row : Row, data : RowData, orig_data : RowData]

ASSUME ConstantsAssumption ==
  /\ hash_key \in [Key -> Nat]
  /\ DOMAIN key_buf = Key
  /\ val_buf \in [Value -> Value]
  /\ IsFiniteSet(Key)
  /\ Loaded \subseteq Key
  /\ \A j, k \in Loaded : hash_key[j] = hash_key[k] => j = k
  /\ InitVal \in Value
  /\ Loader \notin Txn
  /\ MAX_ROW_PER_TXN \in Nat

\* NULL is none of the values it is compared with.
ASSUME NullAssumption ==
  NULL \notin Txn \cup Value \cup Row \cup Access

VARIABLES
  timestamp,   \* *Manager::timestamp
  index,       \* index[p]: location of the first item of p's bucket node, or NULL
  mem,         \* mem[r]: "none", "live" or "freed"
  data,        \* data[r]: row_t::data
  wts,         \* wts[r]: Row_occ::wts
  latch,       \* latch[r]: transaction holding Row_occ::_latch, or NULL
  pc,          \* pc[t]: where t's thread is
  call,        \* call[t]: arguments of the GET or PUT in progress
  start_ts, end_ts,
  accesses,    \* accesses[t][p]: t's Access for primary key p (record_pos), or NULL
  insert_rows, \* insert_rows[t]: rows allocated by t
  locked,      \* locked[t]: rows latched by validate (accesses[0..lock_cnt-1])
  rc,          \* rc[t]: RC of validate
  reply,       \* reply[t]: server::Rc of t's last finished call
  crashed,     \* the process has died
  snap         \* history: committed values of the loaded rows when t began

vars == <<timestamp, index, mem, data, wts, latch, pc, call, start_ts, end_ts,
          accesses, insert_rows, locked, rc, reply, crashed, snap>>

rowVars == <<index, mem, data, wts, latch>>

NoSnap == [p \in LoadedPk |-> NULL]
NoAccesses == [p \in Pk |-> NULL]
-----------------------------------------------------------------------------
(* Helpers *)

\* Operators named Mut_... are plausible mistakes in the code: each one is what
\* one definition would be if the code had that mistake.  Spec uses none.

Mut_untruncated(k, v) == [key |-> k, val |-> val_buf[v]]

\* What set_value(0, key_buf); set_value(1, val_buf) leave in a row.
RowOf(k, v) == [key |-> key_buf[k], val |-> val_buf[v]]

Accessed(t) == {p \in Pk : accesses[t][p] # NULL}
row_cnt(t) == Cardinality(Accessed(t))

\* t will write row r when it commits.
Writes(t, r) ==
  /\ accesses[t][pk(r)] # NULL
  /\ accesses[t][pk(r)].orig_row = r
  /\ accesses[t][pk(r)].type = "WR"

\* t is past its commit point and has still to write p's loaded row.
Pending(t, p) == pc[t] = "commit" /\ Writes(t, <<Loader, p>>)

\* The committed value of a loaded row: transactions commit at the instant
\* they draw end_ts, before they write their rows.
Committed(p) ==
  IF \E t \in Txn : Pending(t, p)
  THEN accesses[CHOOSE t \in Txn : Pending(t, p)][p].data.val
  ELSE data[<<Loader, p>>].val

\* Rows of the read and write set that validate has still to latch.
ToLatch(t) == {accesses[t][p].orig_row : p \in Accessed(t)} \ locked[t]

Mut_unsorted(r, S) == r \in S

\* r is the first of S in the order validate sorts by (one table: by primary key).
IsFirst(r, S) == r \in S /\ \A q \in S : pk(r) <= pk(q)

\* BucketHeader::read_item
index_read(k) == index[hash_key[k]]

\* txn_man::get_row may proceed: a cached access needs no latch.
CanGetRow(t, r) == accesses[t][pk(r)] # NULL \/ latch[r] = NULL

Mut_access_never_refuses(t, r) == FALSE

\* Row_occ::access refuses the copy.
Refused(t, r) == accesses[t][pk(r)] = NULL /\ start_ts[t] < wts[r]

\* The Access that txn_man::get_row(r, type) returns to t.
get_row(t, r, type) ==
  LET a == accesses[t][pk(r)] IN
  IF a # NULL
  THEN [type |-> IF type = "WR" THEN "WR" ELSE a.type, orig_row |-> a.orig_row,
        data |-> a.data, orig_data |-> a.orig_data]
  ELSE [type |-> type, orig_row |-> r, data |-> data[r], orig_data |-> data[r]]

Mut_validate_passes(t, r) == TRUE
Mut_validate_off_by_one(t, r) == ~(start_ts[t] + 1 < wts[r])

\* Row_occ::validate
validate_row(t, r) == ~(start_ts[t] < wts[r])
-----------------------------------------------------------------------------
(* Initial state: init_engine has loaded the data file. *)

Init ==
  /\ timestamp = 1 + Cardinality(Loaded)   \* one get_ts per loaded record
  /\ index = [p \in Pk |-> IF p \in LoadedPk THEN <<Loader, p>> ELSE NULL]
  /\ mem = [r \in Row |->
              IF owner(r) = Loader /\ pk(r) \in LoadedPk THEN "live" ELSE "none"]
  /\ data = [r \in Row |->   \* only the live rows' contents matter
               RowOf(CHOOSE k \in Key : /\ hash_key[k] = pk(r)
                                        /\ pk(r) \in LoadedPk => k \in Loaded,
                     InitVal)]
  /\ wts = [r \in Row |-> 0]
  /\ latch = [r \in Row |-> NULL]
  /\ pc = [t \in Txn |-> "idle"]
  /\ call = [t \in Txn |-> NULL]
  /\ start_ts = [t \in Txn |-> 0]
  /\ end_ts = [t \in Txn |-> 0]
  /\ accesses = [t \in Txn |-> NoAccesses]
  /\ insert_rows = [t \in Txn |-> {}]
  /\ locked = [t \in Txn |-> {}]
  /\ rc = [t \in Txn |-> "RCOK"]
  /\ reply = [t \in Txn |-> "none"]
  /\ crashed = FALSE
  /\ snap = [t \in Txn |-> NoSnap]
-----------------------------------------------------------------------------
(* begin_txn: the atomic fetch-and-add of Manager::get_ts gives start_ts. *)

begin_txn(t) ==
  /\ pc[t] = "idle"
  /\ pc' = [pc EXCEPT ![t] = "ready"]
  /\ start_ts' = [start_ts EXCEPT ![t] = timestamp]
  /\ timestamp' = timestamp + 1
  /\ snap' = [snap EXCEPT ![t] = [p \in LoadedPk |-> Committed(p)]]
  /\ UNCHANGED <<rowVars, call, end_ts, accesses, insert_rows, locked, rc, reply, crashed>>

-----------------------------------------------------------------------------
(* get and put: first the index probe, without the bucket's latch. *)

txnVars == <<timestamp, start_ts, end_ts, accesses, insert_rows, locked, rc, crashed, snap>>

\* The call in progress returns c to the session.
Return(t, c) ==
  /\ pc' = [pc EXCEPT ![t] = "ready"]
  /\ call' = [call EXCEPT ![t] = NULL]
  /\ reply' = [reply EXCEPT ![t] = c]

\* The call in progress goes on with row r at step next.
GoOn(t, next, r, k, v) ==
  /\ pc' = [pc EXCEPT ![t] = next]
  /\ call' = [call EXCEPT ![t] = [row |-> r, key |-> k, val |-> v]]
  /\ UNCHANGED reply

GetAbsent(t, k) ==
  /\ pc[t] = "ready" /\ index_read(k) = NULL
  /\ Return(t, "NOT_FOUND")
  /\ UNCHANGED <<rowVars, txnVars>>

GetFound(t, k) ==
  /\ pc[t] = "ready" /\ index_read(k) # NULL
  /\ GoOn(t, "read", index_read(k), k, NULL)
  /\ UNCHANGED <<rowVars, txnVars>>

PutAbsent(t, k, v) ==
  /\ pc[t] = "ready" /\ index_read(k) = NULL
  /\ GoOn(t, "insert", NULL, k, v)
  /\ UNCHANGED <<rowVars, txnVars>>

PutFound(t, k, v) ==
  /\ pc[t] = "ready" /\ index_read(k) # NULL
  /\ GoOn(t, "update", index_read(k), k, v)
  /\ UNCHANGED <<rowVars, txnVars>>

-----------------------------------------------------------------------------
(* get and put: then the row. *)

\* Row_occ::access says Abort; get answers NOT_FOUND and put ERROR, and the
\* transaction goes on.
RowRefused(t) ==
  /\ pc[t] \in {"read", "update"}
  /\ latch[call[t].row] = NULL
  /\ Refused(t, call[t].row)
  /\ Return(t, IF pc[t] = "read" THEN "NOT_FOUND" ELSE "ERROR")
  /\ UNCHANGED <<rowVars, txnVars>>

SetAccess(t, r, a) ==
  /\ accesses' = [accesses EXCEPT ![t][pk(r)] = a]
  /\ UNCHANGED <<timestamp, start_ts, end_ts, locked, rc, crashed, snap>>

\* txn_man::Read from the row on; the key is compared with the one in the row.
Read(t) ==
  LET r == call[t].row
      a == get_row(t, r, "RD")
  IN /\ pc[t] = "read"
     /\ CanGetRow(t, r) /\ ~Refused(t, r)
     /\ SetAccess(t, r, a)
     /\ Return(t, IF a.data.key = call[t].key THEN "OK" ELSE "NOT_FOUND")
     /\ UNCHANGED <<rowVars, insert_rows>>

\* The update half of txn_man::Write: on a key mismatch the row stays in the
\* write set with the value it had.
Update(t) ==
  LET r == call[t].row
      a == get_row(t, r, "WR")
      hit == a.data.key = call[t].key
  IN /\ pc[t] = "update"
     /\ CanGetRow(t, r) /\ ~Refused(t, r)
     /\ SetAccess(t, r, IF hit THEN [a EXCEPT !.data.val = val_buf[call[t].val]] ELSE a)
     /\ Return(t, IF hit THEN "OK" ELSE "ERROR")
     /\ UNCHANGED <<rowVars, insert_rows>>

\* The insert half of txn_man::Write.  The new row is private until
\* index_insert puts it in front of the items of its primary key.
Insert(t) ==
  LET k == call[t].key
      r == <<t, hash_key[k]>>
      d == RowOf(k, call[t].val)
  IN /\ pc[t] = "insert"
     /\ Cardinality(insert_rows[t]) < MAX_ROW_PER_TXN
     /\ mem' = [mem EXCEPT ![r] = "live"]
     /\ data' = [data EXCEPT ![r] = d]
     /\ index' = [index EXCEPT ![pk(r)] = r]
     /\ insert_rows' = [insert_rows EXCEPT ![t] = insert_rows[t] \cup {r}]
     /\ SetAccess(t, r, [type |-> "WR", orig_row |-> r, data |-> d, orig_data |-> d])
     /\ Return(t, "OK")
     /\ UNCHANGED <<wts, latch>>
-----------------------------------------------------------------------------
(* commit: finish(RCOK) calls OptCC::validate. *)

commit(t) ==
  /\ pc[t] = "ready"
  /\ pc' = [pc EXCEPT ![t] = "validate"]
  /\ UNCHANGED <<rowVars, txnVars, call, reply>>

\* lock_cnt counts a row only once it is valid.
Mut_count_valid(t) ==
  /\ pc[t] = "validate" /\ rc[t] = "RCOK"
  /\ \E r \in Row :
       /\ IsFirst(r, ToLatch(t)) /\ latch[r] = NULL
       /\ latch' = [latch EXCEPT ![r] = t]
       /\ locked' = [locked EXCEPT ![t] =
                       IF validate_row(t, r) THEN locked[t] \cup {r} ELSE locked[t]]
       /\ rc' = [rc EXCEPT ![t] = IF validate_row(t, r) THEN "RCOK" ELSE "Abort"]
  /\ UNCHANGED <<timestamp, index, mem, data, wts, pc, call, start_ts, end_ts,
                 accesses, insert_rows, reply, crashed, snap>>

\* The latch is tried, and its answer ignored.
Mut_trylock(t) ==
  /\ pc[t] = "validate" /\ rc[t] = "RCOK"
  /\ \E r \in Row :
       /\ IsFirst(r, ToLatch(t))
       /\ latch' = [latch EXCEPT ![r] = t]
       /\ locked' = [locked EXCEPT ![t] = locked[t] \cup {r}]
       /\ rc' = [rc EXCEPT ![t] = IF validate_row(t, r) THEN "RCOK" ELSE "Abort"]
  /\ UNCHANGED <<timestamp, index, mem, data, wts, pc, call, start_ts, end_ts,
                 accesses, insert_rows, reply, crashed, snap>>

\* One turn of the validation loop: latch the next row, then compare its wts.
LatchRow(t) ==
  /\ pc[t] = "validate" /\ rc[t] = "RCOK"
  /\ \E r \in Row :
       /\ IsFirst(r, ToLatch(t))
       /\ latch[r] = NULL
       /\ latch' = [latch EXCEPT ![r] = t]
       /\ locked' = [locked EXCEPT ![t] = locked[t] \cup {r}]
       /\ rc' = [rc EXCEPT ![t] = IF validate_row(t, r) THEN "RCOK" ELSE "Abort"]
  /\ UNCHANGED <<timestamp, index, mem, data, wts, pc, call, start_ts, end_ts,
                 accesses, insert_rows, reply, crashed, snap>>

\* Every row is latched and valid: end_ts is drawn.  This is the commit point.
DrawEndTs(t) ==
  /\ pc[t] = "validate" /\ rc[t] = "RCOK"
  /\ ToLatch(t) = {}
  /\ pc' = [pc EXCEPT ![t] = "commit"]
  /\ end_ts' = [end_ts EXCEPT ![t] = timestamp]
  /\ timestamp' = timestamp + 1
  /\ snap' = [snap EXCEPT ![t] = NoSnap]
  /\ UNCHANGED <<rowVars, call, start_ts, accesses, insert_rows, locked, rc, reply, crashed>>

\* The sets of a finished transaction: row_cnt = insert_cnt = 0.
ClearSets(t) ==
  /\ accesses' = [accesses EXCEPT ![t] = NoAccesses]
  /\ insert_rows' = [insert_rows EXCEPT ![t] = {}]

\* The rows get start_ts, the other timestamp of the transaction.
Mut_wts_from_start(t) ==
  /\ pc[t] = "commit"
  /\ data' = [r \in Row |-> IF Writes(t, r) THEN accesses[t][pk(r)].data ELSE data[r]]
  /\ wts' = [r \in Row |-> IF Writes(t, r) THEN start_ts[t] ELSE wts[r]]
  /\ ClearSets(t)
  /\ pc' = [pc EXCEPT ![t] = "release"]
  /\ UNCHANGED <<timestamp, index, mem, latch, call, start_ts, end_ts, locked,
                 rc, reply, crashed, snap>>

\* cleanup(RCOK): every written row gets the local copy and wts = end_ts.
Install(t) ==
  /\ pc[t] = "commit"
  /\ data' = [r \in Row |-> IF Writes(t, r) THEN accesses[t][pk(r)].data ELSE data[r]]
  /\ wts' = [r \in Row |-> IF Writes(t, r) THEN end_ts[t] ELSE wts[r]]
  /\ ClearSets(t)
  /\ pc' = [pc EXCEPT ![t] = "release"]
  /\ UNCHANGED <<timestamp, index, mem, latch, call, start_ts, end_ts, locked,
                 rc, reply, crashed, snap>>

\* cleanup(Abort): the rows t inserted are freed; the index keeps their items.
Rollback(t) ==
  /\ mem' = [r \in Row |-> IF r \in insert_rows[t] THEN "freed" ELSE mem[r]]
  /\ ClearSets(t)
  /\ snap' = [snap EXCEPT ![t] = NoSnap]

\* A failed validation is tried again, with the same start_ts.
Mut_validate_again(t) ==
  /\ pc[t] = "validate" /\ rc[t] = "Abort"
  /\ latch' = [r \in Row |-> IF r \in locked[t] THEN NULL ELSE latch[r]]
  /\ locked' = [locked EXCEPT ![t] = {}]
  /\ rc' = [rc EXCEPT ![t] = "RCOK"]
  /\ UNCHANGED <<timestamp, index, mem, data, wts, pc, call, start_ts, end_ts,
                 accesses, insert_rows, reply, crashed, snap>>

\* Validation failed: cleanup(Abort) runs while the latches are still held.
ValidateAbort(t) ==
  /\ pc[t] = "validate" /\ rc[t] = "Abort"
  /\ Rollback(t)
  /\ pc' = [pc EXCEPT ![t] = "release"]
  /\ UNCHANGED <<timestamp, index, data, wts, latch, call, start_ts, end_ts,
                 locked, rc, reply, crashed>>

\* The final loop of validate unlocks the latched rows in the sorted order.
release(t) ==
  /\ pc[t] = "release"
  /\ \E r \in Row :
       /\ IsFirst(r, locked[t])
       /\ latch' = [latch EXCEPT ![r] = NULL]
       /\ locked' = [locked EXCEPT ![t] = locked[t] \ {r}]
  /\ UNCHANGED <<timestamp, index, mem, data, wts, pc, call, start_ts, end_ts,
                 accesses, insert_rows, rc, reply, crashed, snap>>

\* commit deletes the context and answers the session.
commit_return(t) ==
  /\ pc[t] = "release" /\ locked[t] = {}
  /\ pc' = [pc EXCEPT ![t] = "done"]
  /\ start_ts' = [start_ts EXCEPT ![t] = 0]
  /\ end_ts' = [end_ts EXCEPT ![t] = 0]
  /\ reply' = [reply EXCEPT ![t] = IF rc[t] = "RCOK" THEN "OK" ELSE "ABORT"]
  /\ UNCHANGED <<rowVars, timestamp, call, accesses, insert_rows, locked, rc, crashed, snap>>

\* abort_txn: finish(Abort) only runs cleanup(Abort); no latch is taken.
abort_txn(t) ==
  /\ pc[t] = "ready"
  /\ Rollback(t)
  /\ pc' = [pc EXCEPT ![t] = "done"]
  /\ start_ts' = [start_ts EXCEPT ![t] = 0]
  /\ rc' = [rc EXCEPT ![t] = "Abort"]
  /\ reply' = [reply EXCEPT ![t] = "OK"]
  /\ UNCHANGED <<timestamp, index, data, wts, latch, call, end_ts, locked, crashed>>
-----------------------------------------------------------------------------
(* Undefined behaviour.  t's next step uses a row that has been freed, or the *)
(* element past the end of accesses.  Either the memory still holds what it   *)
(* held, and the step above happens, or the process dies.                     *)

Freed(r) == mem[r] = "freed"

\* get_row would use accesses[MAX_ROW_PER_TXN].
Overrun(t, p) == accesses[t][p] = NULL /\ row_cnt(t) >= MAX_ROW_PER_TXN

Undefined(t) ==
  \/ pc[t] \in {"read", "update"}
       /\ (Freed(call[t].row) \/ Overrun(t, pk(call[t].row)))
  \/ pc[t] = "insert" /\ Overrun(t, hash_key[call[t].key])
  \/ pc[t] = "validate" /\ rc[t] = "RCOK"   \* the sort reads every row's key first
       /\ \E r \in ToLatch(t) : Freed(r) /\ (locked[t] = {} \/ IsFirst(r, ToLatch(t)))
  \/ pc[t] = "commit" /\ \E r \in Row : Writes(t, r) /\ Freed(r)
  \/ pc[t] = "release" /\ \E r \in locked[t] : IsFirst(r, locked[t]) /\ Freed(r)

Fault(t) ==
  /\ Undefined(t)
  /\ crashed' = TRUE
  /\ UNCHANGED <<timestamp, rowVars, pc, call, start_ts, end_ts, accesses,
                 insert_rows, locked, rc, reply, snap>>
-----------------------------------------------------------------------------
(* Requests of the clients, and steps of the server threads. *)

Request(t) ==
  \/ begin_txn(t)
  \/ \E k \in Key :
       \/ GetAbsent(t, k)
       \/ GetFound(t, k)
       \/ \E v \in Value : PutAbsent(t, k, v) \/ PutFound(t, k, v)
  \/ commit(t)
  \/ abort_txn(t)

Step(t) ==
  \/ RowRefused(t) \/ Read(t) \/ Update(t) \/ Insert(t)
  \/ LatchRow(t) \/ DrawEndTs(t) \/ Install(t) \/ ValidateAbort(t)
  \/ release(t) \/ commit_return(t)

\* Nothing is left to do.
Stopped ==
  /\ crashed \/ \A t \in Txn : pc[t] = "done"
  /\ UNCHANGED vars

Next ==
  \/ ~crashed /\ \E t \in Txn : Request(t) \/ Step(t) \/ Fault(t)
  \/ Stopped

Spec == Init /\ [][Next]_vars

\* A server thread that can run does run; clients owe the server nothing.
FairSpec == Spec /\ \A t \in Txn : WF_vars(~crashed /\ Step(t))
=============================================================================
