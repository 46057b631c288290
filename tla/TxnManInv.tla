------------------------------ MODULE TxnManInv ------------------------------
(***************************************************************************)
(* The inductive invariant behind the safety properties of TxnManProps.    *)
(* Each conjunct is a fact the code relies on without stating it.          *)
(***************************************************************************)
EXTENDS TxnManProps

\* A transaction that can still commit: its read and write set matter.
Running(t) == Active(t) \/ pc[t] = "commit"

\* Timestamps are drawn from one counter.
TimeOK ==
  /\ \A t \in Txn : start_ts[t] < timestamp /\ end_ts[t] < timestamp
  /\ \A r \in Row : wts[r] < timestamp

\* Where rows come from: a row is allocated by Insert, once, and everything
\* that leads to a row leads to an allocated one with the right primary key.
RowsOK ==
  /\ \A p \in Pk :
       /\ index[p] # NULL => pk(index[p]) = p /\ mem[index[p]] # "none"
       /\ index[p] = NULL => \A r \in Row : pk(r) = p => mem[r] = "none"
  /\ \A p \in LoadedPk : index[p] = <<Loader, p>>
  /\ \A t \in Txn, p \in Pk :
       accesses[t][p] # NULL =>
         /\ pk(accesses[t][p].orig_row) = p
         /\ mem[accesses[t][p].orig_row] # "none"
         /\ p \in LoadedPk => accesses[t][p].orig_row = <<Loader, p>>

\* What a rollback will free was allocated.
InsertedOK == \A t \in Txn : \A r \in insert_rows[t] : mem[r] # "none"

\* What a call in progress may rely on.
CallOK ==
  \A t \in Txn :
    /\ pc[t] \in {"read", "update"} =>
         /\ call[t] \in Call
         /\ call[t].row \in Row
         /\ mem[call[t].row] # "none"
         /\ pk(call[t].row) \in LoadedPk => owner(call[t].row) = Loader
    /\ pc[t] \in {"update", "insert"} => call[t] \in Call /\ call[t].val \in Value
    /\ pc[t] = "insert" =>
         /\ mem[<<t, hash_key[call[t].key]>>] = "none"
         /\ hash_key[call[t].key] \notin LoadedPk

\* Outside a transaction nothing is left of its sets.
SetsOK ==
  \A t \in Txn :
    /\ ~Running(t) => accesses[t] = NoAccesses
    /\ pc[t] = "commit" => rc[t] = "RCOK"

\* The rows of a transaction that has committed stay latched until written.
CommitLatched ==
  \A t \in Txn, p \in Pk :
    pc[t] = "commit" /\ accesses[t][p] # NULL => accesses[t][p].orig_row \in locked[t]

\* A copy is current, or its row has a wts that will fail validation; the same
\* for a commit that has drawn its end_ts and not yet written the row.
CopiesOK ==
  \A t \in Txn, p \in Pk :
    Running(t) /\ accesses[t][p] # NULL =>
      LET r == accesses[t][p].orig_row IN
      /\ data[r] = accesses[t][p].orig_data \/ start_ts[t] < wts[r]
      /\ \A u \in Txn : u # t /\ pc[u] = "commit" /\ Writes(u, r)
                        => start_ts[t] < end_ts[u]

\* A row that validate has passed keeps its wts while it is latched.
ValidatedOK ==
  \A t \in Txn, r \in Row :
    pc[t] = "validate" /\ rc[t] = "RCOK" /\ r \in locked[t] => validate_row(t, r)

\* The inductive invariant.
IInv ==
  /\ TypeOK
  /\ TimeOK
  /\ RowsOK
  /\ InsertedOK
  /\ CallOK
  /\ SetsOK
  /\ LatchesMatch
  /\ CommitLatched
  /\ CopiesOK
  /\ ValidatedOK
  /\ WriteAdvancesWts
  /\ ReadsAreCurrent

\* Validate has latched the rows of its set with the smaller primary keys.
LockOrder ==
  \A t \in Txn : pc[t] = "validate" =>
    /\ \A r \in locked[t] : accesses[t][pk(r)] # NULL /\ accesses[t][pk(r)].orig_row = r
    /\ \A r \in locked[t], s \in ToLatch(t) : pk(r) < pk(s)
-----------------------------------------------------------------------------
(* What the refinement of SerialKV needs on top. *)

\* A loaded row older than t's start still shows t its snapshot, once the
\* commits that drew end_ts before t began have written it.
SnapAt(t, p) ==
  wts[<<Loader, p>>] <= start_ts[t] =>
    /\ \A u \in Txn : Pending(u, p) /\ end_ts[u] <= start_ts[t]
                      => snap[t][p] = accesses[u][p].data.val
    /\ (\A u \in Txn : Pending(u, p) => start_ts[t] < end_ts[u])
         => snap[t][p] = data[<<Loader, p>>].val

SnapOK == \A t \in Txn, p \in LoadedPk : Active(t) => SnapAt(t, p)

\* What t has used of the loaded rows is its snapshot.
SeenOK ==
  \A t \in Txn, p \in LoadedPk :
    Active(t) /\ accesses[t][p] # NULL => accesses[t][p].orig_data.val = snap[t][p]

\* The invariant under which every step is a step of SerialKV.
RefInv == IInv /\ SnapOK /\ SeenOK
-----------------------------------------------------------------------------
(* What the refinement of KvApi needs on top: the answers of the calls. *)

\* The KEY column of a loaded row is its key, in every copy of it too.
KeysOK ==
  \A k \in Loaded :
    /\ data[<<Loader, hash_key[k]>>].key = key_buf[k]
    /\ \A t \in Txn :
         accesses[t][hash_key[k]] # NULL => accesses[t][hash_key[k]].data.key = key_buf[k]

\* The row of a call in progress is one of the key's primary key.
CallKeyOK ==
  \A t \in Txn : pc[t] \in {"read", "update"} => pk(call[t].row) = hash_key[call[t].key]

\* Before begin_txn a transaction has no answer; only a validation fails, and when
\* it does it has met a row that was written since the transaction began.
AnswerOK ==
  \A t \in Txn :
    /\ pc[t] = "idle" => reply[t] = "none"
    /\ pc[t] \notin {"validate", "release", "done"} => rc[t] = "RCOK"
    /\ pc[t] = "validate" /\ rc[t] = "Abort" =>
         \E p \in Pk : accesses[t][p] # NULL /\ start_ts[t] < wts[accesses[t][p].orig_row]

\* The invariant under which every step is a step of KvApi, if all keys are loaded.
ApiInv == RefInv /\ KeysOK /\ CallKeyOK /\ AnswerOK
=============================================================================
