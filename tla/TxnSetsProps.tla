---------------------------- MODULE TxnSetsProps ----------------------------
(***************************************************************************)
(* What a transaction's own data must be for the engine to be what module  *)
(* TxnMan says it is.                                                      *)
(***************************************************************************)
EXTENDS TxnSets

Filled == 0..(row_cnt - 1)

WorkTypeOK ==
  /\ index \in [Pk -> Row \cup {NULL}]
  /\ {row_cnt, wr_cnt, lock_cnt, insert_cnt, num_accesses_alloc} \subseteq 0..MAX_ROW_PER_TXN
  /\ accesses \in [Slot -> Access \cup {NULL}]
  /\ record_pos \in [Pk -> Slot \cup {NULL}]
  /\ insert_rows \in [Slot -> Row \cup {NULL}]
  /\ rowBlock \in [Pk -> Block \cup {NULL}]
  /\ pc \in {"ready", "sort", "latch", "cleanup", "free", "reset", "unlock", "done"}
  /\ i \in -1..MAX_ROW_PER_TXN /\ j \in 0..MAX_ROW_PER_TXN
  /\ rc \in {"RCOK", "Abort"}
  /\ latched \subseteq Row /\ written \subseteq Row
  /\ allocs \in Nat /\ refused \in 0..MaxRefused
  /\ \A b \in live : b.id \in 1..allocs /\ b.kind \in {"copy", "row", "manager", "latch", "item"}

TypeOK == WorkTypeOK /\ gone \subseteq Pk /\ faulted \in BOOLEAN

\* As long as get_row may use it, record_pos leads from a primary key to the one
\* access of that key, and to no other, although copies are refused in between
\* (their slots are used again) and the index may by then lead to another row
\* of the same key (txn.cpp:76-83 and 100).
PositionsAgree ==
  pc = "ready" =>
    /\ \A s \in Filled : record_pos[key_at(s)] = s
    /\ \A p \in Pk : record_pos[p] # NULL => record_pos[p] \in Filled /\ key_at(record_pos[p]) = p

\* The members of a set_ent that tell; its rows are given by their slots.
set_ent(size, slots) == [set_size |-> size, rows |-> slots]

\* OptCC::get_rw_set: sizes by the counters, rows by the accesses' types.
get_rw_set ==
  [wset |-> set_ent(wr_cnt, {s \in Filled : accesses[s].type = "WR"}),
   rset |-> set_ent(row_cnt - wr_cnt, {s \in Filled : accesses[s].type # "WR"})]

\* OptCC::test_valid: the two sets have no row in common.
test_valid(set1, set2) ==
  \A m \in set1.rows, n \in set2.rows : accesses[m].orig_row # accesses[n].orig_row

\* The counts that get_rw_set asserts (occ.cpp:89-90): wr_cnt is the number of
\* accesses for writing, through upgrades, refused copies and the sort, and the
\* rest are the reads; no row is in both sets.
RwSetsMatchCounts ==
  /\ \A set \in {get_rw_set.wset, get_rw_set.rset} : Cardinality(set.rows) = set.set_size
  /\ test_valid(get_rw_set.wset, get_rw_set.rset)

\* What cleanup has still to free: the copies of these slots, and the rows of
\* these elements of insert_rows.
CopySlots ==
  CASE pc \in {"ready", "sort", "latch"} -> Filled
    [] pc = "cleanup" -> 0..i
    [] OTHER -> {}

RowSlots ==
  CASE pc \in {"ready", "sort", "latch", "cleanup"} -> 0..(insert_cnt - 1)
    [] pc = "free" -> i..(insert_cnt - 1)
    [] OTHER -> {}

HeldCopies == {[id |-> accesses[s].data, kind |-> "copy"] : s \in CopySlots}
HeldRows == {[id |-> rowBlock[get_primary_key(insert_rows[s])], kind |-> "row"] : s \in RowSlots}

Live(kind) == {b \in live : b.kind = kind}

\* The transaction has not committed.
Aborting == rc = "Abort" \/ pc \in {"ready", "sort", "latch", "cleanup", "free"}

\* Every block that cleanup frees is allocated at that moment and freed once, by
\* its own kind; of the local copies only the refused ones are lost
\* (txn.cpp:92-96 drops them), and of the inserted rows none unless the
\* transaction commits (txn.cpp:209-232, row.cpp:117-136).
FreesAreExact ==
  /\ HeldCopies \cup HeldRows \subseteq live
  /\ Cardinality(HeldCopies) = Cardinality(CopySlots)
  /\ Cardinality(Live("copy") \ HeldCopies) = refused
  /\ Aborting => Live("row") = HeldRows

\* What these data are to the engine: its accesses by their keys, the rows that
\* are written or, after the validation, bound to be, and the transaction's stage.
SetView ==
  [p \in Pk |-> IF pc \in {"ready", "sort", "latch"} /\ \E s \in Filled : key_at(s) = p
                THEN LET a == accesses[CHOOSE s \in Filled : key_at(s) = p]
                     IN [type |-> a.type, row |-> a.orig_row]
                ELSE NULL]

ASSUME NullIsNoEntry == NULL \notin [type : {"RD", "WR"}, row : Row]

OutView ==
  written \cup IF pc = "cleanup" /\ rc = "RCOK"
              THEN {accesses[s].orig_row : s \in {n \in 0..i : accesses[n].type = "WR"}}
              ELSE {}

AtView ==
  CASE pc = "ready" -> "running"
    [] pc \in {"sort", "latch"} -> "validating"
    [] pc = "done" -> "done"
    [] OTHER -> IF rc = "RCOK" THEN "committed" ELSE "aborted"

\* The engine's view: one access per primary key, latches in key order, exactly
\* the accesses for writing written, every latch given back (occ.cpp:30-69).
Abstract == INSTANCE AccessSet WITH
  set <- SetView, locked <- latched, out <- OutView, at <- AtView

KeepsAccessSet == Abstract!Spec

\* The only row that the transaction uses after freeing it itself is one that it
\* inserted and latched before its validation failed, in the loop that releases
\* the latches (occ.cpp:65-66): neither a commit nor a rollback that the client
\* asks for comes to use one.  Any other freed row is one of another transaction
\* that the index still led to.
OnlyReleaseUsesFreed ==
  faulted => \/ gone # {}
             \/ pc = "unlock" /\ rc = "Abort" /\ \E p \in Pk : <<"own", p>> \in latched

\* Every validation and every cleanup comes to its end, unless a freed row is
\* the end of the thread: the sort terminates, and no row is latched twice by
\* the thread, which would wait for itself.
FinishEnds == pc # "ready" ~> pc = "done" \/ faulted
=============================================================================
