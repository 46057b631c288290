---------------------------- MODULE TxnManProps ----------------------------
(***************************************************************************)
(* What the transaction engine of module TxnMan guarantees, and what the   *)
(* repository says of it that it does not do.                              *)
(***************************************************************************)
EXTENDS TxnMan

PcSet == {"idle", "ready", "read", "update", "insert", "validate", "commit",
          "release", "done"}
Call == [row : Row \cup {NULL}, key : Key, val : Value \cup {NULL}]

\* Types of the engine's state (kv_api.cpp, txn.h, occ.h).
TypeOK ==
  /\ timestamp \in Nat
  /\ index \in [Pk -> Row \cup {NULL}]
  /\ mem \in [Row -> {"none", "live", "freed"}]
  /\ data \in [Row -> RowData]
  /\ wts \in [Row -> Nat]
  /\ latch \in [Row -> Txn \cup {NULL}]
  /\ pc \in [Txn -> PcSet]
  /\ call \in [Txn -> Call \cup {NULL}]
  /\ start_ts \in [Txn -> Nat]
  /\ end_ts \in [Txn -> Nat]
  /\ accesses \in [Txn -> [Pk -> Access \cup {NULL}]]
  /\ insert_rows \in [Txn -> SUBSET Row]
  /\ locked \in [Txn -> SUBSET Row]
  /\ rc \in [Txn -> {"RCOK", "Abort"}]
  /\ reply \in [Txn -> {"none", "OK", "NOT_FOUND", "ABORT", "ERROR"}]
  /\ crashed \in BOOLEAN
  /\ snap \in [Txn -> [LoadedPk -> Value \cup {NULL}]]
-----------------------------------------------------------------------------
\* Between begin_txn and the commit point or the rollback.
Active(t) == pc[t] \in {"ready", "read", "update", "insert", "validate"}

\* t has drawn its end_ts in validate.
HasCommitted(t) ==
  \/ pc[t] = "commit"
  \/ pc[t] \in {"release", "done"} /\ rc[t] = "RCOK"

(***************************************************************************)
(* The engine as a store of the loaded records.  A record is committed at  *)
(* the instant its transaction draws end_ts.                               *)
(***************************************************************************)
Db == [p \in LoadedPk |-> Committed(p)]

StatusOf(t) ==
  IF pc[t] = "idle" THEN "idle"
  ELSE IF Active(t) THEN "active"
  ELSE IF HasCommitted(t) THEN "committed" ELSE "aborted"

\* The value of p that t has used, and the one it will write.
SeenOf(t, p) ==
  IF Active(t) /\ accesses[t][p] # NULL THEN accesses[t][p].orig_data.val ELSE NULL
WrOf(t, p) ==
  IF Active(t) /\ accesses[t][p] # NULL /\ accesses[t][p].type = "WR"
  THEN accesses[t][p].data.val ELSE NULL

Status == [t \in Txn |-> StatusOf(t)]
Seen == [t \in Txn |-> [p \in LoadedPk |-> SeenOf(t, p)]]
Wr == [t \in Txn |-> [p \in LoadedPk |-> WrOf(t, p)]]

Serial == INSTANCE SerialKV WITH
  Rec <- LoadedPk, InitVal <- val_buf[InitVal], db <- Db, status <- Status, seen <- Seen, wr <- Wr

\* Optimistic validation makes transactions serializable on the loaded
\* records, in the order of their end_ts, and no running transaction ever
\* reads a value newer than its start_ts, a half-written commit, or an
\* uncommitted or rolled back value (txn.cpp:73-105, occ.cpp:29-69).
Serializable == Serial!Spec

(***************************************************************************)
(* The engine as the atomic API of KvApi, for the loaded records.          *)
(***************************************************************************)
\* wts of a loaded record, counting the commit that has still to write it.
CommittedWts(p) ==
  IF \E t \in Txn : Pending(t, p)
  THEN end_ts[CHOOSE t \in Txn : Pending(t, p)]
  ELSE wts[<<Loader, p>>]

\* t's open transaction and its last answer, as KvApi has them.
CtxOf(t) ==
  IF ~Active(t) THEN NULL
  ELSE [copy |-> [p \in LoadedPk |->
                   IF accesses[t][p] # NULL THEN accesses[t][p].data.val ELSE NULL],
        wr |-> {p \in LoadedPk : accesses[t][p] # NULL /\ accesses[t][p].type = "WR"},
        stale |-> {p \in LoadedPk : start_ts[t] < CommittedWts(p)}]

RcOf(t) ==
  IF pc[t] = "idle" THEN "none"
  ELSE IF HasCommitted(t) THEN "OK"
  ELSE IF pc[t] = "release" THEN "ABORT"
  ELSE IF reply[t] = "none" THEN "OK"  \* begin_txn's answer
  ELSE reply[t]

Ctx == [t \in Txn |-> CtxOf(t)]
Rc == [t \in Txn |-> RcOf(t)]

\* A null pointer is no transaction.
ASSUME NullIsNoContext ==
  NULL \notin [copy : [LoadedPk -> Value \cup {NULL}], wr : SUBSET LoadedPk, stale : SUBSET LoadedPk]

Api == INSTANCE KvApi WITH
  Client <- Txn, Rec <- LoadedPk, InitVal <- val_buf[InitVal], val_cut <- val_buf,
  db <- Db, ctx <- Ctx, rc <- Rc

\* With all keys loaded, every call of kv_api.h behaves as if it took effect at
\* one instant, its answer included: what one transaction's validation, copy and
\* write phases do is never seen half done by another one's calls.
CallsAreAtomic == Api!ApiSpec

\* Row_occ::write's assert(ts > wts) never fails (occ_row.cpp:50): end_ts is
\* newer than the last commit of every row about to be written.
WriteAdvancesWts ==
  \A t \in Txn, r \in Row :
    pc[t] = "commit" /\ Writes(t, r) => end_ts[t] > wts[r]

\* A row is latched exactly by the transaction that counts it in lock_cnt, and
\* a transaction that has returned has given every latch back, on the
\* validation failure path too (occ.cpp:48-66).
LatchesMatch ==
  /\ \A r \in Row, t \in Txn : latch[r] = t <=> r \in locked[t]
  /\ \A t \in Txn : locked[t] # {} => pc[t] \in {"validate", "commit", "release"}

\* Two transactions in validate wait for each other in no order: a transaction
\* that waits for a row held by another one that waits too, waits for a row
\* with a smaller primary key than the other one does (the sort of
\* occ.cpp:32-42).  So no cycle of waiting transactions exists.
WaitsAscend ==
  \A t, u \in Txn, r, s \in Row :
    /\ pc[t] = "validate" /\ IsFirst(r, ToLatch(t)) /\ latch[r] = u
    /\ pc[u] = "validate" /\ IsFirst(s, ToLatch(u))
    => pk(r) < pk(s)

\* A transaction that passed validation used, for every row of its read and
\* write set, inserted rows included, the content the row still has when the
\* commit is about to be written: no commit rests on a stale copy or writes
\* over an update it did not see (Row_occ::access and validate against wts).
ReadsAreCurrent ==
  \A t \in Txn, p \in Pk :
    pc[t] = "commit" /\ accesses[t][p] # NULL
    => data[accesses[t][p].orig_row] = accesses[t][p].orig_data

\* Every GET, PUT and COMMIT returns to its session, whatever the other
\* threads do, or the process has died (kv_api.cpp:133-167).
EveryCallReturns ==
  \A t \in Txn :
    pc[t] \notin {"idle", "ready", "done"} ~> pc[t] \in {"ready", "done"} \/ crashed
-----------------------------------------------------------------------------
(* What the repository says of the engine and the engine does not do. *)

\* config.h:46 declares the isolation level SERIALIZABLE, so a transaction that
\* commits has read and overwritten only rows of committed transactions.  The
\* insert half of Write publishes its row in the index at once (txn.cpp:172).
NoDirtyCommit ==
  \A t \in Txn, p \in Pk :
    pc[t] = "commit" /\ accesses[t][p] # NULL
    => LET u == owner(accesses[t][p].orig_row)
       IN u \in {t, Loader} \/ HasCommitted(u)

\* config.h:46 once more: of two transactions that insert the same primary key and
\* commit, the second one in any serial order would have updated the row of the
\* first.  Write finds no item, and nothing looks again before the new one is
\* linked in front (txn.cpp:144-172): both commits are answered OK and one row is
\* hidden.
OneCommittedInsert ==
  \A r, s \in Row :
    /\ pk(r) = pk(s) /\ mem[r] = "live" /\ mem[s] = "live"
    /\ owner(r) \in Txn /\ HasCommitted(owner(r))
    /\ owner(s) \in Txn /\ HasCommitted(owner(s))
    => r = s

\* config.h:50-51 says that a transaction rolls its changes back after abort: the
\* changes of the transaction that aborts, and of no other.  Only a commit sets
\* wts, so a row freed with a wts takes with it a PUT of another transaction,
\* whose COMMIT was answered OK.
RollbackIsOwn ==
  [][\A r \in Row : mem[r] = "live" /\ mem'[r] = "freed" => wts[r] = 0]_vars
=============================================================================
