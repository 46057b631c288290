------------------------------ MODULE TxnSets ------------------------------
(***************************************************************************)
(* One transaction's own data: class txn_man with its array of accesses,   *)
(* record_pos, its counters and the rows it inserts (System/txn.cpp), the  *)
(* loops of OptCC::validate over them (concurrency_control/occ.cpp), and   *)
(* the memory these allocate and free (row.cpp, occ_row.cpp, table.cpp).   *)
(*                                                                         *)
(* Module TxnMan keeps of all this one Access per primary key and latches  *)
(* rows in the order of their keys.  Here the array is searched, filled,   *)
(* bubble-sorted, walked down by cleanup and walked up by the unlock loop, *)
(* one turn of a loop per step.  Other transactions are what they are to   *)
(* this thread: rows they put into the index, and free if they abort, and  *)
(* the answers of Row_occ::access and Row_occ::validate.                   *)
(***************************************************************************)
EXTENDS Integers, FiniteSets, Sequences

CONSTANTS
  Pk,               \* primary keys
  MAX_ROW_PER_TXN,
  MaxRefused,       \* bound: copies that Row_occ::access refuses
  NULL

ASSUME SetsAssumption ==
  /\ Pk \subseteq Nat
  /\ MAX_ROW_PER_TXN \in Nat
  /\ MaxRefused \in Nat

\* A row_t is named by who allocated it and by its primary key.
Row == {"own", "other"} \X Pk
get_primary_key(r) == r[2]

Slot == 0..(MAX_ROW_PER_TXN - 1)

\* Blocks of memory are numbered in the order of allocation, so that freeing
\* one twice shows.
Block == Nat

Access == [type : {"none", "RD", "WR"}, orig_row : Row \cup {NULL}, data : Block \cup {NULL}]

ASSUME NullIsNoValue == NULL \notin Row \cup Block \cup Access

VARIABLES
  index,        \* index[p]: row that the index leads to, or NULL
  row_cnt, wr_cnt, lock_cnt, insert_cnt, num_accesses_alloc,
  accesses,     \* accesses[i], NULL before the slot is first used
  record_pos,   \* record_pos[p]: slot of primary key p, or NULL
  insert_rows,
  pc,           \* where the thread is
  i, j,         \* loop variables of validate and cleanup
  rc,           \* RC of finish
  latched,      \* rows whose Row_occ::_latch the thread holds
  written,      \* rows that Row_occ::write has changed
  live,         \* blocks allocated and not freed: [id, kind]
  allocs,       \* number of allocations so far
  rowBlock,     \* rowBlock[p]: block of the row inserted for p, or NULL
  refused,      \* number of refused copies
  gone,         \* primary keys whose "other" row has been freed
  faulted       \* the process has died, or the thread hangs, on a freed row

\* The members of txn_man, and what the thread has in hand.
sets == <<row_cnt, wr_cnt, accesses, record_pos>>
inserts == <<insert_cnt, insert_rows, rowBlock>>
heap == <<live, allocs, num_accesses_alloc>>
work == <<index, sets, inserts, heap, lock_cnt, pc, i, j, rc, latched, written, refused>>
vars == <<work, gone, faulted>>

\* Operators named Mut_... are plausible mistakes in the code; Spec uses none.

\* txn_man::init.  OtherInserts gives the keys whatever rows there are.
Init ==
  /\ index = [p \in Pk |-> NULL]
  /\ row_cnt = 0 /\ wr_cnt = 0 /\ lock_cnt = 0 /\ insert_cnt = 0
  /\ accesses = [s \in Slot |-> NULL]
  /\ num_accesses_alloc = 0
  /\ record_pos = [p \in Pk |-> NULL]
  /\ insert_rows = [s \in Slot |-> NULL]
  /\ rowBlock = [p \in Pk |-> NULL]
  /\ pc = "ready" /\ i = 0 /\ j = 0 /\ rc = "RCOK"
  /\ latched = {} /\ written = {}
  /\ live = {} /\ allocs = 0 /\ refused = 0
  /\ gone = {} /\ faulted = FALSE
-----------------------------------------------------------------------------
(* Read and Write *)

\* Another transaction inserts a row for p: each one at most once.
OtherInserts(p) ==
  /\ index[p] # <<"other", p>>
  /\ index' = [index EXCEPT ![p] = <<"other", p>>]
  /\ UNCHANGED <<sets, inserts, heap, lock_cnt, pc, i, j, rc, latched, written, refused>>

\* The cached access becomes a write.
Upgrade(r, type) == accesses[record_pos[get_primary_key(r)]].type = "RD" /\ type = "WR"

\* The upgraded access is not counted.
Mut_upgrade_uncounted(r, type) ==
  LET s == record_pos[get_primary_key(r)] IN
  /\ s # NULL
  /\ accesses' = IF Upgrade(r, type) THEN [accesses EXCEPT ![s].type = "WR"] ELSE accesses
  /\ UNCHANGED <<wr_cnt, row_cnt, record_pos, refused, heap>>

\* get_row finds the primary key in record_pos.
CachedRow(r, type) ==
  LET s == record_pos[get_primary_key(r)] IN
  /\ s # NULL
  /\ IF Upgrade(r, type)
     THEN accesses' = [accesses EXCEPT ![s].type = "WR"] /\ wr_cnt' = wr_cnt + 1
     ELSE UNCHANGED <<accesses, wr_cnt>>
  /\ UNCHANGED <<row_cnt, record_pos, refused, heap>>

\* memset(access, 0, sizeof(Access))
EmptyAccess == [type |-> "none", orig_row |-> NULL, data |-> NULL]

\* malloc of n blocks of the given kinds.
Alloc(kinds) ==
  /\ live' = live \cup {[id |-> allocs + n, kind |-> kinds[n]] : n \in DOMAIN kinds}
  /\ allocs' = allocs + Len(kinds)

\* The n-th of the blocks that an Alloc of this step returns.
NewBlock(n) == allocs + n

\* record_pos is set before the copy is known to be good.
Mut_position_first(r, type, b, ok) ==
  LET s == row_cnt
      a == IF accesses[s] = NULL THEN EmptyAccess ELSE accesses[s]
  IN /\ record_pos[get_primary_key(r)] = NULL
     /\ row_cnt \in Slot   \* beyond: TxnMan!Fault
     /\ num_accesses_alloc' = num_accesses_alloc + (IF accesses[s] = NULL THEN 1 ELSE 0)
     /\ IF ok
        THEN /\ accesses' = [accesses EXCEPT ![s] = [type |-> type, orig_row |-> r, data |-> b]]
             /\ record_pos' = [record_pos EXCEPT ![get_primary_key(r)] = s]
             /\ row_cnt' = row_cnt + 1
             /\ wr_cnt' = wr_cnt + (IF type = "WR" THEN 1 ELSE 0)
             /\ UNCHANGED refused
        ELSE /\ accesses' = [accesses EXCEPT ![s] = [a EXCEPT !.data = b]]
             /\ refused < MaxRefused /\ refused' = refused + 1
             /\ record_pos' = [record_pos EXCEPT ![get_primary_key(r)] = s]
             /\ UNCHANGED <<row_cnt, wr_cnt>>

\* The slot is given a new Access whether it has one or not.
Mut_always_allocate(r, type, b, ok) ==
  LET s == row_cnt
      a == IF accesses[s] = NULL THEN EmptyAccess ELSE accesses[s]
  IN /\ record_pos[get_primary_key(r)] = NULL
     /\ row_cnt \in Slot   \* beyond: TxnMan!Fault
     /\ num_accesses_alloc' = num_accesses_alloc + 1
     /\ IF ok
        THEN /\ accesses' = [accesses EXCEPT ![s] = [type |-> type, orig_row |-> r, data |-> b]]
             /\ record_pos' = [record_pos EXCEPT ![get_primary_key(r)] = s]
             /\ row_cnt' = row_cnt + 1
             /\ wr_cnt' = wr_cnt + (IF type = "WR" THEN 1 ELSE 0)
             /\ UNCHANGED refused
        ELSE /\ accesses' = [accesses EXCEPT ![s] = [a EXCEPT !.data = b]]
             /\ refused < MaxRefused /\ refused' = refused + 1
             /\ UNCHANGED <<record_pos, row_cnt, wr_cnt>>

\* get_row allocates the slot's Access, if it has none, and row_t::get_row a
\* local copy, block b.  If the copy is refused, the access is given the copy's
\* address all the same, and stays unused.
UncachedRow(r, type, b, ok) ==
  LET s == row_cnt
      a == IF accesses[s] = NULL THEN EmptyAccess ELSE accesses[s]
  IN /\ record_pos[get_primary_key(r)] = NULL
     /\ row_cnt \in Slot   \* beyond: TxnMan!Fault
     /\ num_accesses_alloc' = num_accesses_alloc + (IF accesses[s] = NULL THEN 1 ELSE 0)
     /\ IF ok
        THEN /\ accesses' = [accesses EXCEPT ![s] = [type |-> type, orig_row |-> r, data |-> b]]
             /\ record_pos' = [record_pos EXCEPT ![get_primary_key(r)] = s]
             /\ row_cnt' = row_cnt + 1
             /\ wr_cnt' = wr_cnt + (IF type = "WR" THEN 1 ELSE 0)
             /\ UNCHANGED refused
        ELSE /\ accesses' = [accesses EXCEPT ![s] = [a EXCEPT !.data = b]]
             /\ refused < MaxRefused /\ refused' = refused + 1
             /\ UNCHANGED <<record_pos, row_cnt, wr_cnt>>

\* Read, and Write of a key that has a row.
Use(p, type) ==
  /\ pc = "ready" /\ index[p] # NULL
  /\ \/ CachedRow(index[p], type)
     \/ \E ok \in BOOLEAN :
          UncachedRow(index[p], type, NewBlock(1), ok) /\ Alloc(<<"copy">>)
  /\ UNCHANGED <<index, inserts, lock_cnt, pc, i, j, rc, latched, written>>

insert_row(r) ==
  /\ insert_cnt \in Slot   \* asserted
  /\ insert_rows' = [insert_rows EXCEPT ![insert_cnt] = r]
  /\ insert_cnt' = insert_cnt + 1

\* Write of a key that has none: get_new_row allocates the row with its manager
\* and latch, get_row the copy (never refused: the row is new), and insert_row
\* notes the row before the index is given an item for it.
Insert(p) ==
  LET r == <<"own", p>> IN
  /\ pc = "ready" /\ index[p] = NULL
  /\ UncachedRow(r, "WR", NewBlock(4), TRUE)
  /\ Alloc(<<"row", "manager", "latch", "copy", "item">>)
  /\ rowBlock' = [rowBlock EXCEPT ![p] = NewBlock(1)]
  /\ insert_row(r)
  /\ index' = [index EXCEPT ![p] = r]
  /\ UNCHANGED <<lock_cnt, pc, i, j, rc, latched, written>>
-----------------------------------------------------------------------------
(* finish *)

\* finish(RCOK): validate sorts the accesses first.
commit ==
  /\ pc = "ready"
  /\ pc' = "sort" /\ i' = row_cnt - 1 /\ j' = 0
  /\ UNCHANGED <<index, sets, inserts, heap, lock_cnt, rc, latched, written, refused>>

\* finish(Abort) goes straight to cleanup.
abort_txn ==
  /\ pc = "ready"
  /\ pc' = "cleanup" /\ i' = row_cnt - 1 /\ rc' = "Abort"
  /\ UNCHANGED <<index, sets, inserts, heap, lock_cnt, j, latched, written, refused>>

key_at(s) == get_primary_key(accesses[s].orig_row)

\* One turn of the inner loop of the bubble sort.  All rows are of one table.
SortStep ==
  /\ pc = "sort" /\ i > 0 /\ j < i
  /\ j' = j + 1
  /\ accesses' = IF key_at(j) > key_at(j + 1)
                 THEN [accesses EXCEPT ![j] = accesses[j + 1], ![j + 1] = accesses[j]]
                 ELSE accesses
  /\ UNCHANGED <<index, row_cnt, wr_cnt, record_pos, inserts, heap, lock_cnt, pc, i, rc,
                 latched, written, refused>>

\* The outer loop does not count down.
Mut_same_pass ==
  /\ pc = "sort" /\ i > 0 /\ j >= i
  /\ j' = 0
  /\ UNCHANGED <<index, sets, inserts, heap, lock_cnt, pc, i, rc, latched, written, refused>>

\* The inner loop is left one turn too early.
Mut_short_pass ==
  /\ pc = "sort" /\ i > 0 /\ j >= i - 1
  /\ i' = i - 1 /\ j' = 0
  /\ UNCHANGED <<index, sets, inserts, heap, lock_cnt, pc, rc, latched, written, refused>>

SortPass ==
  /\ pc = "sort" /\ i > 0 /\ j >= i
  /\ i' = i - 1 /\ j' = 0
  /\ UNCHANGED <<index, sets, inserts, heap, lock_cnt, pc, rc, latched, written, refused>>

Sorted ==
  /\ pc = "sort" /\ i <= 0
  /\ pc' = "latch" /\ i' = 0 /\ lock_cnt' = 0
  /\ UNCHANGED <<index, sets, inserts, heap, j, rc, latched, written, refused>>

\* Row_occ::latch.  A latch that the thread holds already would never be given
\* to it.
latch(r) == r \notin latched /\ latched' = latched \cup {r}

\* Row_occ::release
release(r) == latched' = latched \ {r}

\* The row is latched and validated.
LatchRow(ok) ==
  /\ pc = "latch" /\ rc = "RCOK" /\ i < row_cnt
  /\ lock_cnt' = lock_cnt + 1
  /\ latch(accesses[i].orig_row)
  /\ rc' = IF ok THEN "RCOK" ELSE "Abort"
  /\ i' = i + 1
  /\ UNCHANGED <<index, sets, inserts, heap, pc, j, written, refused>>

\* Only the accesses that were latched are cleaned up.
Mut_clean_latched ==
  /\ pc = "latch" /\ (rc = "Abort" \/ i >= row_cnt)
  /\ pc' = "cleanup" /\ i' = lock_cnt - 1
  /\ UNCHANGED <<index, sets, inserts, heap, lock_cnt, j, rc, latched, written, refused>>

\* The loop has ended; cleanup(rc) walks the accesses from the last one down.
Validated ==
  /\ pc = "latch" /\ (rc = "Abort" \/ i >= row_cnt)
  /\ pc' = "cleanup" /\ i' = row_cnt - 1
  /\ UNCHANGED <<index, sets, inserts, heap, lock_cnt, j, rc, latched, written, refused>>

\* free
Free(b) == live' = {x \in live : x.id # b}

\* Row_occ::write; the timestamps are module TxnMan's.
write(r) == written' = written \cup {r}

\* return_row: a write is installed unless the transaction aborts, and the local
\* copy is freed.
return_row ==
  /\ pc = "cleanup" /\ i >= 0
  /\ IF accesses[i].type = "WR" /\ rc = "RCOK"
     THEN write(accesses[i].orig_row) ELSE UNCHANGED written
  /\ Free(accesses[i].data)
  /\ accesses' = [accesses EXCEPT ![i].data = NULL]
  /\ i' = i - 1
  /\ UNCHANGED <<index, row_cnt, wr_cnt, record_pos, inserts, allocs, num_accesses_alloc,
                 lock_cnt, pc, j, rc, latched, refused>>

\* The inserted rows are freed whatever has become of the transaction.
Mut_free_always ==
  /\ pc = "cleanup" /\ i < 0
  /\ pc' = "free" /\ i' = 0
  /\ UNCHANGED <<index, sets, inserts, heap, lock_cnt, j, rc, latched, written, refused>>

\* On an abort the inserted rows are freed next; their managers, latches and
\* index items are not.
RowsReturned ==
  /\ pc = "cleanup" /\ i < 0
  /\ pc' = IF rc = "Abort" THEN "free" ELSE "reset"
  /\ i' = 0
  /\ UNCHANGED <<index, sets, inserts, heap, lock_cnt, j, rc, latched, written, refused>>

FreeInserted ==
  /\ pc = "free" /\ i < insert_cnt
  /\ Free(rowBlock[get_primary_key(insert_rows[i])])
  /\ i' = i + 1
  /\ UNCHANGED <<index, sets, inserts, allocs, num_accesses_alloc, lock_cnt, pc, j, rc,
                 latched, written, refused>>

\* The last lines of cleanup.  accesses keeps its elements: the unlock loop of
\* validate uses the first lock_cnt of them.
Reset ==
  /\ pc = "reset" \/ (pc = "free" /\ i >= insert_cnt)
  /\ row_cnt' = 0 /\ wr_cnt' = 0 /\ insert_cnt' = 0
  /\ record_pos' = [p \in Pk |-> NULL]
  /\ pc' = "unlock" /\ i' = 0
  /\ UNCHANGED <<index, accesses, insert_rows, rowBlock, heap, lock_cnt, j, rc, latched,
                 written, refused>>

\* After a failed validation this is also a use of the rows that were inserted
\* and have just been freed: Undefined, below.
Unlock ==
  /\ pc = "unlock" /\ i < lock_cnt
  /\ release(accesses[i].orig_row)
  /\ i' = i + 1
  /\ UNCHANGED <<index, sets, inserts, heap, lock_cnt, pc, j, rc, written, refused>>

\* finish returns, and the session's thread deletes the context.
finish_return ==
  /\ pc = "unlock" /\ i >= lock_cnt
  /\ pc' = "done"
  /\ UNCHANGED <<index, sets, inserts, heap, lock_cnt, i, j, rc, latched, written, refused>>
-----------------------------------------------------------------------------
(* Undefined behaviour.  The thread's next step uses a row that has been freed: *)
(* either the memory still holds what it held, and the step above happens, or   *)
(* the process dies or the thread waits for ever.  That free puts its own       *)
(* pointer where row_t has its manager makes the latter likely.                 *)

\* The other transaction aborts: it frees the row, and the item that leads to it
\* stays in the index (txn.cpp:223-224).
OtherFrees(p) ==
  /\ index[p] = <<"other", p>> /\ p \notin gone
  /\ gone' = gone \cup {p}
  /\ UNCHANGED <<work, faulted>>

Freed(r) ==
  IF r[1] = "own" THEN \A b \in live : b.id # rowBlock[get_primary_key(r)]
  ELSE get_primary_key(r) \in gone

FreedAt(s) == Freed(accesses[s].orig_row)

Undefined ==
  \/ pc = "ready" /\ \E p \in Pk : index[p] # NULL /\ Freed(index[p])   \* get_row
  \/ pc = "sort" /\ i > 0 /\ j < i /\ (FreedAt(j) \/ FreedAt(j + 1))
  \/ pc = "latch" /\ rc = "RCOK" /\ i < row_cnt /\ FreedAt(i)
  \/ pc = "cleanup" /\ i >= 0 /\ accesses[i].type = "WR" /\ rc = "RCOK" /\ FreedAt(i)
  \/ pc = "unlock" /\ i < lock_cnt /\ FreedAt(i)

Fault ==
  /\ Undefined
  /\ faulted' = TRUE
  /\ UNCHANGED <<work, gone>>
-----------------------------------------------------------------------------
Call == commit \/ abort_txn \/ \E p \in Pk : Insert(p) \/ \E type \in {"RD", "WR"} : Use(p, type)

Step ==
  \/ SortStep \/ SortPass \/ Sorted \/ (\E ok \in BOOLEAN : LatchRow(ok)) \/ Validated
  \/ return_row \/ RowsReturned \/ FreeInserted \/ Reset \/ Unlock \/ finish_return

\* The thread that A is a step of can run.
Runs(A) == ~faulted /\ A /\ UNCHANGED <<gone, faulted>>

Stopped == (faulted \/ pc = "done") /\ UNCHANGED vars

Next ==
  \/ Runs(Call) \/ Runs(Step) \/ (~faulted /\ Fault) \/ Stopped
  \/ \E p \in Pk : Runs(OtherInserts(p)) \/ (~faulted /\ OtherFrees(p))

Spec == Init /\ [][Next]_vars

\* The thread runs; whether and when the client ends its transaction is open.
FairSpec == Spec /\ WF_vars(Runs(Step))
=============================================================================
