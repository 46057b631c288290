------------------------------- MODULE KvApi -------------------------------
(***************************************************************************)
(* The API of Server/kv_api.h as its callers see it, for records that have *)
(* been loaded or committed before: every call takes effect at one         *)
(* instant.  Module TxnMan, restricted to such records, implements it; the *)
(* sessions of module Session are built on it.                             *)
(*                                                                         *)
(* Timestamps are reduced to what the engine's comparisons tell apart:     *)
(* p is in stale when some transaction has committed a write of p since    *)
(* this one began, that is, when start_ts < wts.                           *)
(***************************************************************************)
CONSTANTS Client,  \* callers; each has at most one open transaction
          Rec,     \* records
          Value, InitVal, NULL,
          val_cut  \* val_cut[v]: what the engine keeps of a value v that does not fit
                   \* into its 1024-byte buffer

VARIABLES db,   \* db[p]: committed value
          ctx,  \* ctx[c]: TxnHandle::impl, NULL or the open transaction
          rc    \* rc[c]: server::Rc of c's last call

apiVars == <<db, ctx, rc>>

\* The operators named Mut_... are plausible mistakes in the code; the
\* specification uses none of them.

NewTxn == [copy |-> [p \in Rec |-> NULL],  \* local copies of the records used
           wr |-> {},                      \* records written
           stale |-> {}]

ApiInit ==
  /\ db = [p \in Rec |-> InitVal]
  /\ ctx = [c \in Client |-> NULL]
  /\ rc = [c \in Client |-> "none"]

Used(c) == {p \in Rec : ctx[c].copy[p] # NULL}

\* The record's copy may be taken, or was taken already.
CanUse(c, p) == p \in Used(c) \/ p \notin ctx[c].stale

value_out(c, p) == IF p \in Used(c) THEN ctx[c].copy[p] ELSE db[p]

Answer(c, code) == rc' = [rc EXCEPT ![c] = code]

begin_txn(c) ==
  /\ ctx[c] = NULL
  /\ ctx' = [ctx EXCEPT ![c] = NewTxn]
  /\ Answer(c, "OK")
  /\ UNCHANGED db

\* A record that was overwritten since begin_txn is reported as not found.
get(c, p) ==
  /\ ctx[c] # NULL
  /\ IF CanUse(c, p)
     THEN ctx' = [ctx EXCEPT ![c].copy[p] = value_out(c, p)] /\ Answer(c, "OK")
     ELSE UNCHANGED ctx /\ Answer(c, "NOT_FOUND")
  /\ UNCHANGED db

\* What strncpy leaves in val_buf.
buffered(v) == IF v \in DOMAIN val_cut THEN val_cut[v] ELSE v

\* A value that is too long is cut, and the answer is OK all the same.
put(c, p, v) ==
  /\ ctx[c] # NULL
  /\ IF CanUse(c, p)
     THEN /\ ctx' = [ctx EXCEPT ![c].copy[p] = buffered(v), ![c].wr = ctx[c].wr \cup {p}]
          /\ Answer(c, "OK")
     ELSE UNCHANGED ctx /\ Answer(c, "ERROR")
  /\ UNCHANGED db

Mut_always_valid(c) == TRUE

\* validate succeeds.
Valid(c) == Used(c) \cap ctx[c].stale = {}

commit(c) ==
  /\ ctx[c] # NULL
  /\ Answer(c, IF Valid(c) THEN "OK" ELSE "ABORT")
  /\ db' = IF Valid(c)
           THEN [p \in Rec |-> IF p \in ctx[c].wr THEN ctx[c].copy[p] ELSE db[p]]
           ELSE db
  /\ ctx' = [d \in Client |->
               IF d = c \/ ctx[d] = NULL THEN NULL
               ELSE [ctx[d] EXCEPT !.stale = IF Valid(c) THEN @ \cup ctx[c].wr ELSE @]]

abort_txn(c) ==
  /\ ctx[c] # NULL
  /\ ctx' = [ctx EXCEPT ![c] = NULL]
  /\ Answer(c, "OK")
  /\ UNCHANGED db

ApiNext ==
  \E c \in Client :
    \/ begin_txn(c) \/ commit(c) \/ abort_txn(c)
    \/ \E p \in Rec : get(c, p) \/ \E v \in Value : put(c, p, v)

ApiSpec == ApiInit /\ [][ApiNext]_apiVars
=============================================================================
