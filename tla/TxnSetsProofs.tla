---------------------------- MODULE TxnSetsProofs ----------------------------
(***************************************************************************)
(* Proofs about a transaction's own data, for every set of primary keys,   *)
(* every MAX_ROW_PER_TXN and every number of refused copies.               *)
(***************************************************************************)
EXTENDS TxnSetsProps, FiniteSetTheorems, TLAPS

\* The index leads from a primary key to a row of that key.
IndexOK == \A p \in Pk : index[p] # NULL => get_primary_key(index[p]) = p

\* The slots in use, and those whose latch is to be released, hold accesses of
\* rows; the slots that ever had an access are the first ones.
SlotsOK ==
  /\ \A s \in Filled \cup 0..(lock_cnt - 1) :
       accesses[s] # NULL /\ accesses[s].orig_row # NULL /\ accesses[s].type # "none"
  /\ row_cnt <= num_accesses_alloc
  /\ \A s \in Slot : accesses[s] # NULL <=> s < num_accesses_alloc

\* One access per primary key, from the first to the last line of validate.
OneAccessPerKey == \A s \in Filled, t \in Filled : key_at(s) = key_at(t) => s = t

\* Where the loops stand.
LoopsOK ==
  /\ pc \in {"ready", "sort"} => lock_cnt = 0
  /\ pc = "sort" => i < row_cnt /\ (i >= 0 => j <= i)
  /\ pc = "latch" => i = lock_cnt /\ i <= row_cnt
  /\ pc = "latch" /\ rc = "RCOK" => 0 <= i
  /\ pc = "cleanup" => i < row_cnt
  /\ pc \in {"free", "unlock", "done"} => 0 <= i
  /\ pc \in {"ready", "sort", "reset"} => rc = "RCOK"
  /\ pc = "free" => rc = "Abort"

\* wr_cnt counts the accesses for writing.
Writing == {s \in Filled : accesses[s].type = "WR"}
CountsOK == wr_cnt = Cardinality(Writing)

SetsInv ==
  WorkTypeOK /\ IndexOK /\ SlotsOK /\ OneAccessPerKey /\ LoopsOK /\ PositionsAgree /\ CountsOK

\* The heap: no two blocks have one id, no two slots one copy, and no two
\* inserted rows one key or one block.
HeapOK ==
  /\ IsFiniteSet(live)
  /\ \A b \in live, c \in live : b.id = c.id => b = c
  /\ \A s \in CopySlots, t \in CopySlots : accesses[s].data = accesses[t].data => s = t

InsertsOK ==
  /\ \A s \in 0..(insert_cnt - 1) :
       LET p == get_primary_key(insert_rows[s]) IN
       insert_rows[s] # NULL /\ index[p] # NULL /\ rowBlock[p] # NULL
  /\ \A s \in 0..(insert_cnt - 1), t \in 0..(insert_cnt - 1) :
       LET p == get_primary_key(insert_rows[s])
           q == get_primary_key(insert_rows[t])
       IN p = q \/ rowBlock[p] = rowBlock[q] => s = t

\* The refused copies.
Lost == Live("copy") \ HeldCopies

HeapInv ==
  /\ HeapOK /\ InsertsOK
  /\ HeldCopies \cup HeldRows \subseteq live
  /\ Cardinality(Lost) = refused
  /\ Aborting => Live("row") = HeldRows

\* Bubble sort: the accesses above i are in their places, and that at j is the
\* greatest so far; validate latches from the least key up.
SortOK ==
  pc = "sort" =>
    /\ \A s \in (i + 1)..(row_cnt - 1), t \in Filled : t < s => key_at(t) < key_at(s)
    /\ i >= 0 => \A t \in 0..(j - 1) : key_at(t) < key_at(j)

\* The latches that are held, by the slots of their rows.
HeldSlots == (IF pc \in {"unlock", "done"} THEN i ELSE 0)..(lock_cnt - 1)

LatchOrderOK ==
  /\ pc = "latch" => \A s \in Filled, t \in Filled : s < t => key_at(s) < key_at(t)
  /\ \A s \in 0..(lock_cnt - 1), t \in 0..(lock_cnt - 1) : s < t => key_at(s) < key_at(t)
  /\ latched = {accesses[s].orig_row : s \in HeldSlots}

NothingWritten == rc = "Abort" \/ pc \in {"ready", "sort", "latch"} => written = {}

OrderInv == SortOK /\ LatchOrderOK /\ NothingWritten

-----------------------------------------------------------------------------
\* What the assumptions on the constants say, in the form that the provers
\* need.
LEMMA ConstantFacts ==
  /\ MAX_ROW_PER_TXN \in Nat /\ MaxRefused \in Nat /\ Pk \subseteq Nat
  /\ NULL \notin Row /\ NULL \notin Nat /\ NULL \notin Access
  /\ \A n \in Slot : n # NULL
  /\ \A r \in Row : get_primary_key(r) \in Pk /\ r \in {"own", "other"} \X Pk
  /\ \A p \in Pk : <<"own", p>> \in Row /\ <<"other", p>> \in Row
       /\ get_primary_key(<<"own", p>>) = p /\ get_primary_key(<<"other", p>>) = p
BY SetsAssumption, NullIsNoValue DEF Row, Block, Slot, get_primary_key

\* An access in use, and its key.
LEMMA FilledFacts ==
  ASSUME SetsInv, NEW s \in Filled
  PROVE  /\ s \in Slot /\ s \in Int /\ accesses[s] \in Access /\ accesses[s] # NULL
         /\ accesses[s].orig_row \in Row /\ accesses[s].type \in {"RD", "WR"}
         /\ key_at(s) \in Pk /\ key_at(s) \in Nat
<1>1. s \in Slot /\ s \in Int
  BY ConstantFacts DEF SetsInv, WorkTypeOK, Filled, Slot
<1>2. accesses[s] # NULL /\ accesses[s].orig_row # NULL /\ accesses[s].type # "none"
  BY DEF SetsInv, SlotsOK
<1>3. accesses[s] \in Access
  BY <1>1, <1>2 DEF SetsInv, WorkTypeOK
<1> QED
  BY <1>1, <1>2, <1>3, ConstantFacts DEF Access, key_at

\* An access whose latch is counted in lock_cnt, and its key.
LEMMA LockedFacts ==
  ASSUME SetsInv, NEW s \in 0..(lock_cnt - 1)
  PROVE  /\ s \in Slot /\ s \in Nat /\ accesses[s] \in Access /\ accesses[s] # NULL
         /\ accesses[s].orig_row \in Row /\ key_at(s) \in Pk /\ key_at(s) \in Nat
<1>1. s \in Slot /\ s \in Nat
  BY ConstantFacts DEF SetsInv, WorkTypeOK, Slot
<1>2. accesses[s] # NULL /\ accesses[s].orig_row # NULL
  BY DEF SetsInv, SlotsOK
<1>3. accesses[s] \in Access
  BY <1>1, <1>2 DEF SetsInv, WorkTypeOK
<1> QED
  BY <1>1, <1>2, <1>3, ConstantFacts DEF Access, key_at

\* A set of the first n slots has at most n elements.
LEMMA SlotCount ==
  ASSUME NEW n \in Nat, NEW S \in SUBSET (0..(n - 1))
  PROVE  IsFiniteSet(S) /\ Cardinality(S) \in 0..n
<1>1. IsFiniteSet(0..(n - 1)) /\ Cardinality(0..(n - 1)) = n
  BY FS_Interval
<1>2. IsFiniteSet(S) /\ Cardinality(S) <= n
  BY <1>1, FS_Subset
<1> QED
  BY <1>2, FS_CardinalityType

\* Every step but those of Read, Write and the loops that move accesses leaves
\* the sets alone.
LEMMA SetsFrame ==
  ASSUME SetsInv, UNCHANGED <<sets, num_accesses_alloc>>, WorkTypeOK', IndexOK', LoopsOK',
         0..(lock_cnt' - 1) \subseteq Filled \cup 0..(lock_cnt - 1),
         pc' = "ready" => pc = "ready"
  PROVE  SetsInv'
<1> USE DEF SetsInv, Filled, key_at, sets
<1>1. SlotsOK'
  BY DEF SlotsOK
<1>2. OneAccessPerKey' /\ PositionsAgree'
  BY DEF OneAccessPerKey, PositionsAgree
<1>3. CountsOK'
  BY DEF CountsOK, Writing
<1> QED
  BY <1>1, <1>2, <1>3

\* Another transaction's insertion only sets an empty entry of the index.
LEMMA OtherInsertsStep ==
  ASSUME SetsInv, NEW p \in Pk, OtherInserts(p)
  PROVE  SetsInv'
<1> USE ConstantFacts DEF SetsInv, OtherInserts
<1>1. WorkTypeOK' /\ IndexOK'
  BY DEF WorkTypeOK, IndexOK, heap, inserts, sets
<1>2. LoopsOK'
  BY DEF LoopsOK, sets
<1> QED
  BY <1>1, <1>2, SetsFrame DEF heap

\* A Read or Write of a key that is cached: at most, its access becomes a write.
LEMMA CachedStep ==
  ASSUME SetsInv, pc = "ready", NEW r \in Row, NEW type \in {"RD", "WR"}, CachedRow(r, type),
         UNCHANGED <<index, inserts, lock_cnt, pc, i, j, rc, latched, written>>
  PROVE  SetsInv'
<1> USE ConstantFacts DEF SetsInv
<1> DEFINE s == record_pos[get_primary_key(r)]
<1>1. s \in Filled /\ s \in Slot /\ accesses[s] \in Access /\ accesses[s] # NULL
  BY FilledFacts DEF CachedRow, PositionsAgree
<1>2. \/ accesses' = accesses /\ wr_cnt' = wr_cnt
      \/ accesses' = [accesses EXCEPT ![s].type = "WR"] /\ wr_cnt' = wr_cnt + 1 /\ accesses[s].type # "WR"
  BY DEF CachedRow, Upgrade
<1>3. accesses' \in [Slot -> Access \cup {NULL}]
  BY <1>1, <1>2 DEF WorkTypeOK, Access
<1>4. \A t \in Slot : /\ accesses'[t] = NULL <=> accesses[t] = NULL
                      /\ accesses[t] # NULL => accesses'[t].orig_row = accesses[t].orig_row
                      /\ accesses[t] # NULL /\ accesses[t].type # "none" => accesses'[t].type # "none"
  BY <1>1, <1>2, <1>3 DEF WorkTypeOK, Access
<1>5. /\ UNCHANGED <<row_cnt, record_pos, live, allocs, num_accesses_alloc, lock_cnt, pc, i, j>>
      /\ UNCHANGED <<index, insert_cnt, insert_rows, rowBlock, rc, latched, written, refused>>
  BY DEF CachedRow, heap, inserts
<1>6. row_cnt \in Nat /\ Filled \subseteq Slot /\ Writing \in SUBSET (0..(row_cnt - 1)) /\ lock_cnt = 0
  BY FilledFacts DEF WorkTypeOK, Writing, Filled, LoopsOK
<1>7. CountsOK' /\ wr_cnt' \in 0..MAX_ROW_PER_TXN
  <2>1. CASE accesses' = accesses /\ wr_cnt' = wr_cnt
    BY <2>1, <1>5 DEF CountsOK, Writing, Filled, WorkTypeOK
  <2>2. CASE accesses' = [accesses EXCEPT ![s].type = "WR"] /\ wr_cnt' = wr_cnt + 1 /\ accesses[s].type # "WR"
    <3>1. Writing' = Writing \cup {s} /\ s \notin Writing
      BY <2>2, <1>1, <1>5, <1>6, FilledFacts DEF Writing, Filled, WorkTypeOK, Access
    <3>2. Cardinality(Writing') = Cardinality(Writing) + 1
      BY <3>1, <1>6, SlotCount, FS_AddElement
    <3>3. Writing' \in SUBSET (0..(row_cnt - 1))
      BY <3>1, <1>1, <1>6 DEF Filled
    <3>4. Cardinality(Writing') \in 0..row_cnt
      BY <3>3, <1>6, SlotCount
    <3> QED
      BY <2>2, <3>2, <3>4 DEF CountsOK, WorkTypeOK
  <2> QED
    BY <1>2, <2>1, <2>2
<1>8. WorkTypeOK'
  BY <1>3, <1>5, <1>7 DEF WorkTypeOK
<1>9. SlotsOK'
  BY <1>4, <1>5, <1>6 DEF SlotsOK, Filled
<1>10. \A t \in Filled : key_at(t)' = key_at(t)
  BY <1>4, <1>6, FilledFacts DEF key_at
<1>11. OneAccessPerKey' /\ PositionsAgree'
  BY <1>5, <1>10 DEF OneAccessPerKey, PositionsAgree, Filled
<1>12. IndexOK' /\ LoopsOK'
  BY <1>5 DEF IndexOK, LoopsOK
<1> QED
  BY <1>7, <1>8, <1>9, <1>11, <1>12

\* What UncachedRow makes of the sets.
SetsTypeOK ==
  /\ {row_cnt, wr_cnt, num_accesses_alloc} \subseteq 0..MAX_ROW_PER_TXN
  /\ accesses \in [Slot -> Access \cup {NULL}]
  /\ record_pos \in [Pk -> Slot \cup {NULL}]
  /\ refused \in 0..MaxRefused

\* A Read or Write of a key that is not: the next slot is used, or prepared.
LEMMA UncachedStep ==
  ASSUME SetsInv, pc = "ready", NEW r \in Row, NEW type \in {"RD", "WR"}, NEW b \in Block,
         NEW ok \in BOOLEAN, UncachedRow(r, type, b, ok), UNCHANGED <<lock_cnt, pc, i, j, rc>>
  PROVE  SetsTypeOK' /\ SlotsOK' /\ OneAccessPerKey' /\ PositionsAgree' /\ CountsOK' /\ LoopsOK'
<1> USE ConstantFacts DEF SetsInv
<1>0. PICK s : s = row_cnt
  OBVIOUS
<1> DEFINE p == get_primary_key(r)
           a == IF accesses[s] = NULL THEN EmptyAccess ELSE accesses[s]
<1>1. /\ s \in Slot /\ s \in 0..MAX_ROW_PER_TXN - 1 /\ p \in Pk /\ record_pos[p] = NULL
      /\ lock_cnt = 0 /\ num_accesses_alloc \in 0..MAX_ROW_PER_TXN
  BY <1>0 DEF UncachedRow, Slot, LoopsOK, WorkTypeOK
<1>2. num_accesses_alloc' = (IF accesses[s] = NULL THEN s + 1 ELSE num_accesses_alloc)
  BY <1>0, <1>1 DEF UncachedRow, SlotsOK
<1>3. num_accesses_alloc' \in (s + 1)..MAX_ROW_PER_TXN
  BY <1>0, <1>1, <1>2 DEF SlotsOK
<1>4. a \in Access
  BY <1>1 DEF EmptyAccess, Access, WorkTypeOK
<1>5. Filled \subseteq Slot /\ s \notin Filled /\ Writing \in SUBSET (0..(s - 1))
  BY <1>0, <1>1, FilledFacts DEF Filled, Writing
<1>6. LoopsOK'
  BY DEF LoopsOK, UncachedRow
<1>7. CASE ok
  <2>1. /\ accesses' = [accesses EXCEPT ![s] = [type |-> type, orig_row |-> r, data |-> b]]
        /\ record_pos' = [record_pos EXCEPT ![p] = s]
        /\ row_cnt' = s + 1
        /\ wr_cnt' = wr_cnt + (IF type = "WR" THEN 1 ELSE 0)
        /\ UNCHANGED refused
    BY <1>0, <1>7 DEF UncachedRow
  <2>2. [type |-> type, orig_row |-> r, data |-> b] \in Access
    BY DEF Access
  <2>3. accesses' \in [Slot -> Access \cup {NULL}]
    BY <1>1, <2>1, <2>2 DEF WorkTypeOK
  <2>4. /\ accesses'[s].type = type /\ accesses'[s].orig_row = r /\ accesses'[s] # NULL
        /\ \A t \in Slot \ {s} : accesses'[t] = accesses[t]
    BY <1>1, <2>1, <2>2 DEF WorkTypeOK
  <2>5. Filled' = Filled \cup {s}
    BY <1>0, <1>1, <2>1 DEF Filled
  <2>6. Writing' = IF type = "WR" THEN Writing \cup {s} ELSE Writing
    BY <1>5, <2>4, <2>5 DEF Writing
  <2>7. CountsOK'
    <3>1. IsFiniteSet(Writing) /\ s \notin Writing /\ Cardinality(Writing) \in 0..s
      BY <1>1, <1>5, SlotCount DEF Writing
    <3>2. Cardinality(Writing \cup {s}) = Cardinality(Writing) + 1
      BY <3>1, FS_AddElement
    <3> QED
      BY <2>1, <2>6, <3>1, <3>2 DEF CountsOK
  <2>8. wr_cnt' \in 0..MAX_ROW_PER_TXN
    <3>1. Writing' \in SUBSET (0..((s + 1) - 1))
      BY <1>1, <1>5, <2>6
    <3>2. Cardinality(Writing') \in 0..(s + 1)
      BY <1>1, <3>1, SlotCount
    <3> QED
      BY <1>1, <2>7, <3>2 DEF CountsOK
  <2>9. record_pos' \in [Pk -> Slot \cup {NULL}]
    BY <1>1, <2>1 DEF WorkTypeOK
  <2>10. SetsTypeOK'
    BY <1>1, <1>3, <2>1, <2>3, <2>8, <2>9 DEF SetsTypeOK, WorkTypeOK
  <2>11. SlotsOK'
    BY <1>1, <1>2, <1>3, <1>5, <2>1, <2>4, <2>5, <1>0 DEF SlotsOK, Slot
  <2>12. \A t \in Filled : key_at(t)' = key_at(t) /\ key_at(t) # p
    BY <1>1, <1>5, <2>4 DEF key_at, PositionsAgree, Slot
  <2>13. key_at(s)' = p
    BY <2>4 DEF key_at
  <2>14. OneAccessPerKey'
    BY <2>5, <2>12, <2>13 DEF OneAccessPerKey
  <2>15. PositionsAgree'
    BY <1>1, <2>1, <2>5, <2>9, <2>12, <2>13, FilledFacts DEF PositionsAgree, WorkTypeOK
  <2> QED
    BY <1>6, <2>7, <2>10, <2>11, <2>14, <2>15
<1>8. CASE ~ok
  <2>1. /\ accesses' = [accesses EXCEPT ![s] = [a EXCEPT !.data = b]]
        /\ refused < MaxRefused /\ refused' = refused + 1
        /\ UNCHANGED <<record_pos, row_cnt, wr_cnt>>
    BY <1>0, <1>8 DEF UncachedRow
  <2>2. [a EXCEPT !.data = b] \in Access
    BY <1>4 DEF Access
  <2>3. accesses' \in [Slot -> Access \cup {NULL}]
    BY <1>1, <2>1, <2>2 DEF WorkTypeOK
  <2>4. accesses'[s] # NULL /\ \A t \in Slot \ {s} : accesses'[t] = accesses[t]
    BY <1>1, <2>1, <2>2 DEF WorkTypeOK
  <2>5. Filled' = Filled /\ Writing' = Writing /\ \A t \in Filled : key_at(t)' = key_at(t)
    BY <1>5, <2>1, <2>4 DEF Filled, Writing, key_at
  <2>6. SetsTypeOK'
    BY <1>0, <1>1, <1>3, <2>1, <2>3 DEF SetsTypeOK, WorkTypeOK
  <2>7. SlotsOK'
    BY <1>1, <1>2, <1>3, <1>5, <2>1, <2>4, <2>5, <1>0 DEF SlotsOK, Slot
  <2>8. OneAccessPerKey' /\ PositionsAgree' /\ CountsOK'
    BY <2>1, <2>5 DEF OneAccessPerKey, PositionsAgree, CountsOK
  <2> QED
    BY <1>6, <2>6, <2>7, <2>8
<1> QED
  BY <1>7, <1>8

\* malloc gives new blocks, numbered from allocs on.
LEMMA AllocFacts ==
  ASSUME WorkTypeOK, NEW kinds \in Seq({"copy", "row", "manager", "latch", "item"}), Alloc(kinds)
  PROVE  /\ allocs' \in Nat /\ allocs' = allocs + Len(kinds)
         /\ \A b \in live' : b.id \in 1..allocs' /\ b.kind \in {"copy", "row", "manager", "latch", "item"}
         /\ \A b \in live' \ live : b.id > allocs
<1>1. allocs \in Nat /\ Len(kinds) \in Nat /\ DOMAIN kinds = 1..Len(kinds)
  BY DEF WorkTypeOK
<1>2. \A n \in DOMAIN kinds : kinds[n] \in {"copy", "row", "manager", "latch", "item"}
  BY <1>1
<1>3. \A b \in live' : b \in live \/ \E n \in DOMAIN kinds : b = [id |-> allocs + n, kind |-> kinds[n]]
  BY DEF Alloc
<1> QED
  BY <1>1, <1>2, <1>3 DEF Alloc, WorkTypeOK

\* get_row of a row that has no access yet keeps the invariant.
LEMMA UseStep ==
  ASSUME SetsInv, NEW p \in Pk, NEW type \in {"RD", "WR"}, Use(p, type)
  PROVE  SetsInv'
<1> USE ConstantFacts DEF SetsInv
<1>1. index[p] \in Row /\ pc = "ready" /\ UNCHANGED <<index, inserts, lock_cnt, pc, i, j, rc, latched, written>>
  BY DEF Use, WorkTypeOK
<1>2. ASSUME CachedRow(index[p], type) PROVE SetsInv'
  BY <1>1, <1>2, CachedStep
<1>3. ASSUME NEW ok \in BOOLEAN, UncachedRow(index[p], type, NewBlock(1), ok), Alloc(<<"copy">>)
      PROVE  SetsInv'
  <2>1. NewBlock(1) \in Block
    BY DEF NewBlock, Block, WorkTypeOK
  <2>2. SetsTypeOK' /\ SlotsOK' /\ OneAccessPerKey' /\ PositionsAgree' /\ CountsOK' /\ LoopsOK'
    BY <1>1, <1>3, <2>1, UncachedStep
  <2>3. /\ allocs' \in Nat
        /\ \A b \in live' : b.id \in 1..allocs' /\ b.kind \in {"copy", "row", "manager", "latch", "item"}
    <3>1. <<"copy">> \in Seq({"copy", "row", "manager", "latch", "item"})
      OBVIOUS
    <3> QED
      BY <1>3, <3>1, AllocFacts
  <2>4. WorkTypeOK'
    BY <1>1, <2>2, <2>3 DEF WorkTypeOK, SetsTypeOK, inserts
  <2>5. IndexOK'
    BY <1>1 DEF IndexOK
  <2> QED
    BY <2>2, <2>4, <2>5
<1> QED
  BY <1>2, <1>3 DEF Use

\* insert_row keeps the invariant: the new row is in no slot of accesses.
LEMMA InsertStep ==
  ASSUME SetsInv, NEW p \in Pk, Insert(p)
  PROVE  SetsInv'
<1> USE ConstantFacts DEF SetsInv
<1> DEFINE r == <<"own", p>>
           kinds == <<"row", "manager", "latch", "copy", "item">>
<1>1. /\ pc = "ready" /\ UncachedRow(r, "WR", NewBlock(4), TRUE) /\ Alloc(kinds)
      /\ rowBlock' = [rowBlock EXCEPT ![p] = NewBlock(1)]
      /\ insert_cnt \in Slot /\ insert_rows' = [insert_rows EXCEPT ![insert_cnt] = r]
      /\ insert_cnt' = insert_cnt + 1
      /\ index' = [index EXCEPT ![p] = r]
      /\ UNCHANGED <<lock_cnt, pc, i, j, rc, latched, written>>
  BY DEF Insert, insert_row
<1> r \in Row /\ get_primary_key(r) = p
  BY DEF Row, get_primary_key
<1> HIDE DEF r
<1>2. NewBlock(4) \in Block /\ NewBlock(1) \in Block /\ kinds \in Seq({"copy", "row", "manager", "latch", "item"})
  BY DEF NewBlock, Block, WorkTypeOK
<1>3. SetsTypeOK' /\ SlotsOK' /\ OneAccessPerKey' /\ PositionsAgree' /\ CountsOK' /\ LoopsOK'
  BY <1>1, <1>2, UncachedStep
<1>4. /\ allocs' \in Nat
      /\ \A b \in live' : b.id \in 1..allocs' /\ b.kind \in {"copy", "row", "manager", "latch", "item"}
  BY <1>1, <1>2, AllocFacts
<1>5. index' \in [Pk -> Row \cup {NULL}] /\ insert_rows' \in [Slot -> Row \cup {NULL}]
      /\ rowBlock' \in [Pk -> Block \cup {NULL}] /\ insert_cnt' \in 0..MAX_ROW_PER_TXN
  <2>1. index' \in [Pk -> Row \cup {NULL}] /\ insert_cnt' \in 0..MAX_ROW_PER_TXN
    BY <1>1 DEF WorkTypeOK, Slot
  <2>2. insert_rows' \in [Slot -> Row \cup {NULL}]
    BY <1>1, <1>2 DEF WorkTypeOK
  <2>3. rowBlock' \in [Pk -> Block \cup {NULL}]
    BY <1>1, <1>2 DEF WorkTypeOK
  <2> QED
    BY <2>1, <2>2, <2>3
<1>6. WorkTypeOK'
  BY <1>1, <1>3, <1>4, <1>5 DEF WorkTypeOK, SetsTypeOK
<1>7. IndexOK'
  BY <1>1 DEF IndexOK, WorkTypeOK
<1> QED
  BY <1>3, <1>6, <1>7

\* The steps of finish that move no access.
LEMMA LoopStep ==
  ASSUME SetsInv,
         \/ commit \/ abort_txn \/ SortPass \/ Sorted \/ (\E ok \in BOOLEAN : LatchRow(ok))
         \/ Validated \/ RowsReturned \/ FreeInserted \/ Unlock \/ finish_return
  PROVE  SetsInv'
<1> USE ConstantFacts DEF SetsInv, WorkTypeOK, IndexOK, LoopsOK, inserts, heap
<1>1. CASE commit \/ abort_txn
  <2>1. /\ pc = "ready" /\ i' = row_cnt - 1 /\ j' \in {0, j} /\ pc' \in {"sort", "cleanup"}
        /\ pc' = "sort" => j' = 0 /\ rc' = rc
        /\ rc' \in {rc, "Abort"} /\ row_cnt \in 0..MAX_ROW_PER_TXN
        /\ UNCHANGED <<index, sets, inserts, heap, lock_cnt, latched, written, refused>>
    BY <1>1 DEF commit, abort_txn
  <2>2. WorkTypeOK'
    BY <2>1 DEF sets
  <2>3. LoopsOK' /\ IndexOK'
    BY <2>1 DEF sets
  <2> QED
    BY <2>1, <2>2, <2>3, SetsFrame
<1>2. CASE SortPass
  BY <1>2, SetsFrame DEF SortPass, sets
<1>3. CASE Sorted
  BY <1>3, SetsFrame DEF Sorted, sets
<1>4. ASSUME NEW ok \in BOOLEAN, LatchRow(ok) PROVE SetsInv'
  <2>1. i \in Filled /\ i = lock_cnt /\ i' = i + 1 /\ lock_cnt' = lock_cnt + 1
    BY <1>4 DEF LatchRow, Filled
  <2>2. accesses[i].orig_row \in Row
    BY <2>1, FilledFacts
  <2>3. WorkTypeOK'
    BY <1>4, <2>1, <2>2 DEF LatchRow, latch, sets, Filled
  <2>4. LoopsOK' /\ IndexOK'
    BY <1>4, <2>1 DEF LatchRow, sets, Filled
  <2>5. 0..(lock_cnt' - 1) \subseteq Filled \cup 0..(lock_cnt - 1)
    BY <2>1
  <2> QED
    BY <1>4, <2>3, <2>4, <2>5, SetsFrame DEF LatchRow
<1>5. CASE Validated \/ RowsReturned
  BY <1>5, SetsFrame DEF Validated, RowsReturned, sets
<1>6. CASE FreeInserted
  BY <1>6, SetsFrame DEF FreeInserted, Free, sets
<1>7. CASE Unlock \/ finish_return
  BY <1>7, SetsFrame DEF Unlock, release, finish_return, sets
<1> QED
  BY <1>1, <1>2, <1>3, <1>4, <1>5, <1>6, <1>7

\* Two neighbours change places.
Swap(a) == [accesses EXCEPT ![a] = accesses[a + 1], ![a + 1] = accesses[a]]
Other(a, s) == IF s = a THEN a + 1 ELSE IF s = a + 1 THEN a ELSE s

\* What an exchange of two neighbouring slots does to the sets of slots.
LEMMA SwapFacts ==
  ASSUME SetsInv, NEW a \in Filled, a + 1 \in Filled
  PROVE  /\ Swap(a) \in [Slot -> Access \cup {NULL}]
         /\ \A s \in Slot : Other(a, s) \in Slot /\ Swap(a)[s] = accesses[Other(a, s)]
         /\ \A s \in Filled : Other(a, s) \in Filled
         /\ \A s \in Filled, t \in Filled : Other(a, s) = Other(a, t) => s = t
<1>1. a \in Slot /\ a + 1 \in Slot /\ a # a + 1
  BY FilledFacts
<1>2. Filled \subseteq Slot /\ Filled \subseteq Int
  BY FilledFacts
<1> QED
  BY <1>1, <1>2 DEF SetsInv, WorkTypeOK, Swap, Other

\* As many accesses for writing as before.
LEMMA SwapCount ==
  ASSUME SetsInv, NEW a \in Filled, a + 1 \in Filled
  PROVE  Cardinality({s \in Filled : Swap(a)[s].type = "WR"}) = Cardinality(Writing)
<1> DEFINE W == {s \in Filled : Swap(a)[s].type = "WR"}
           b == a + 1
<1>1. a \in Slot /\ b \in Slot /\ a # b /\ Filled \subseteq Slot
  BY FilledFacts
<1>2. /\ Swap(a)[a] = accesses[b] /\ Swap(a)[b] = accesses[a]
      /\ \A s \in Filled \ {a, b} : Swap(a)[s] = accesses[s]
  BY <1>1, SwapFacts DEF Other
<1>3. IsFiniteSet(Writing)
  <2>1. row_cnt \in Nat /\ Writing \in SUBSET (0..(row_cnt - 1))
    BY ConstantFacts DEF SetsInv, WorkTypeOK, Writing, Filled
  <2> QED
    BY <2>1, SlotCount
<1>4. IsFiniteSet(Writing) /\ Cardinality(Writing) \in Nat
  BY <1>3, FS_CardinalityType
<1>5. \A x, y : x \in Writing /\ y \notin Writing =>
         Cardinality((Writing \ {x}) \cup {y}) = Cardinality(Writing)
  <2> SUFFICES ASSUME NEW x, NEW y, x \in Writing, y \notin Writing
               PROVE  Cardinality((Writing \ {x}) \cup {y}) = Cardinality(Writing)
    OBVIOUS
  <2>1. IsFiniteSet(Writing \ {x}) /\ Cardinality(Writing \ {x}) = Cardinality(Writing) - 1
    BY <1>4, FS_RemoveElement
  <2>2. y \notin Writing \ {x}
    OBVIOUS
  <2>3. Cardinality((Writing \ {x}) \cup {y}) = Cardinality(Writing \ {x}) + 1
    BY <2>1, <2>2, FS_AddElement
  <2> QED
    BY <1>4, <2>1, <2>3
<1>6. CASE a \in Writing <=> b \in Writing
  <2>1. W = Writing
    BY <1>1, <1>2, <1>6 DEF Writing
  <2> QED
    BY <2>1
<1>7. CASE a \in Writing /\ b \notin Writing
  <2>1. W = (Writing \ {a}) \cup {b}
    BY <1>1, <1>2, <1>7 DEF Writing
  <2> QED
    BY <1>5, <1>7, <2>1
<1>8. CASE b \in Writing /\ a \notin Writing
  <2>1. W = (Writing \ {b}) \cup {a}
    BY <1>1, <1>2, <1>8 DEF Writing
  <2> QED
    BY <1>5, <1>8, <2>1
<1> QED
  BY <1>6, <1>7, <1>8

\* A turn of the inner loop exchanges the slots at j and j + 1, or leaves them.
LEMMA SortStepFacts ==
  ASSUME SetsInv, SortStep
  PROVE  /\ j \in Filled /\ j + 1 \in Filled
         /\ pc = "sort" /\ i > 0 /\ j < i /\ j' = j + 1 /\ lock_cnt = 0
         /\ UNCHANGED <<index, row_cnt, wr_cnt, record_pos, inserts, heap, lock_cnt, pc, i, rc,
                        latched, written, refused>>
         /\ \/ key_at(j) > key_at(j + 1) /\ accesses' = Swap(j)
            \/ key_at(j) <= key_at(j + 1) /\ accesses' = accesses
<1>1. j \in Filled /\ j + 1 \in Filled
  BY ConstantFacts DEF SetsInv, SortStep, LoopsOK, WorkTypeOK, Filled
<1>2. key_at(j) \in Nat /\ key_at(j + 1) \in Nat
  BY <1>1, FilledFacts
<1> QED
  BY <1>1, <1>2 DEF SortStep, Swap, SetsInv, LoopsOK

\* A turn of the sort keeps one access per key and the counts.
LEMMA SortStepStep ==
  ASSUME SetsInv, SortStep
  PROVE  SetsInv'
<1> USE ConstantFacts DEF SetsInv
<1>0. PICK a : a = j
  OBVIOUS
<1>1. CASE accesses' = accesses
  BY <1>1, SortStepFacts, SetsFrame DEF WorkTypeOK, IndexOK, LoopsOK, inserts, heap, sets
<1>2. CASE accesses' = Swap(a)
  <2>0. a \in Filled /\ a + 1 \in Filled
    BY <1>0, SortStepFacts
  <2>1. WorkTypeOK' /\ IndexOK' /\ LoopsOK'
    BY <1>2, <2>0, SortStepFacts, SwapFacts DEF WorkTypeOK, IndexOK, LoopsOK, inserts, heap
  <2>2. Filled' = Filled /\ 0..(lock_cnt' - 1) = {} /\ UNCHANGED <<num_accesses_alloc, row_cnt>>
    BY SortStepFacts DEF Filled, heap
  <2>3. \A s \in Filled : /\ accesses'[s] # NULL /\ accesses'[s].orig_row # NULL
                          /\ accesses'[s].type # "none"
    BY <1>2, <2>0, SwapFacts, FilledFacts DEF SlotsOK
  <2>4. \A s \in Slot : accesses'[s] # NULL <=> accesses[s] # NULL
    BY <1>2, <2>0, SwapFacts, FilledFacts DEF Other
  <2>5. SlotsOK'
    BY <2>2, <2>3, <2>4 DEF SlotsOK
  <2>6. \A s \in Filled : key_at(s)' = key_at(Other(a, s)) /\ Other(a, s) \in Filled
    BY <1>2, <2>0, SwapFacts, FilledFacts DEF key_at
  <2>7. OneAccessPerKey'
    BY <2>0, <2>2, <2>6, SwapFacts DEF OneAccessPerKey
  <2>8. CountsOK'
    BY <1>2, <2>0, <2>2, SortStepFacts, SwapCount DEF CountsOK, Writing
  <2>9. PositionsAgree'
    BY SortStepFacts DEF PositionsAgree
  <2> QED
    BY <2>1, <2>5, <2>7, <2>8, <2>9
<1> QED
  BY <1>0, <1>1, <1>2, SortStepFacts

\* return_row and the unlocking keep the invariant.
LEMMA ReturnStep ==
  ASSUME SetsInv, return_row
  PROVE  SetsInv'
<1> USE ConstantFacts DEF SetsInv
<1>0. PICK a : a = i
  OBVIOUS
<1>1. /\ a \in Filled /\ pc = "cleanup" /\ i' = a - 1
      /\ accesses' = [accesses EXCEPT ![a].data = NULL]
      /\ written' \subseteq written \cup {accesses[a].orig_row}
      /\ live' \subseteq live
      /\ UNCHANGED <<index, row_cnt, wr_cnt, record_pos, inserts, allocs, num_accesses_alloc,
                     lock_cnt, pc, j, rc, latched, refused>>
  BY <1>0 DEF return_row, write, Free, LoopsOK, WorkTypeOK, Filled
<1>2. a \in Slot /\ accesses[a] \in Access /\ accesses[a].orig_row \in Row
  BY <1>1, FilledFacts
<1>3. accesses' \in [Slot -> Access \cup {NULL}]
  BY <1>1, <1>2 DEF WorkTypeOK, Access
<1>4. \A s \in Slot : /\ accesses'[s] = NULL <=> accesses[s] = NULL
                      /\ accesses[s] # NULL => accesses'[s].orig_row = accesses[s].orig_row
                      /\ accesses[s] # NULL => accesses'[s].type = accesses[s].type
  BY <1>1, <1>2, <1>3 DEF WorkTypeOK, Access
<1>5. WorkTypeOK'
  <2>1. i' \in -1..MAX_ROW_PER_TXN
    BY <1>0, <1>1, <1>2 DEF Slot
  <2> QED
    BY <1>1, <1>2, <1>3, <2>1 DEF WorkTypeOK, inserts
<1>6. Filled \cup 0..(lock_cnt - 1) \subseteq Slot
  BY FilledFacts DEF WorkTypeOK, Slot
<1>7. SlotsOK'
  BY <1>1, <1>4, <1>6 DEF SlotsOK, Filled
<1>8. \A s \in Filled : /\ accesses'[s].orig_row = accesses[s].orig_row
                        /\ accesses'[s].type = accesses[s].type
  BY <1>4, FilledFacts
<1>9. UNCHANGED Filled
  BY <1>1 DEF Filled
<1>10. OneAccessPerKey' /\ PositionsAgree'
  BY <1>1, <1>8, <1>9 DEF OneAccessPerKey, PositionsAgree, key_at
<1>11. Writing' = Writing
  BY <1>8, <1>9 DEF Writing
<1>12. CountsOK'
  <2>1. wr_cnt' = wr_cnt /\ wr_cnt = Cardinality(Writing)
    BY <1>1 DEF CountsOK
  <2> QED
    BY <1>11, <2>1 DEF CountsOK
<1>13. IndexOK' /\ LoopsOK'
  <2>1. i' < row_cnt'
    BY <1>1, <1>2 DEF Filled, WorkTypeOK, Slot
  <2> QED
    BY <1>1, <2>1 DEF IndexOK, LoopsOK
<1> QED
  BY <1>5, <1>7, <1>10, <1>12, <1>13

\* The last lines of cleanup empty the sets.
LEMMA ResetStep ==
  ASSUME SetsInv, Reset
  PROVE  SetsInv'
<1> USE ConstantFacts DEF SetsInv, Reset
<1>1. Filled' = {} /\ Writing' = {}
  BY DEF Filled, Writing
<1>2. WorkTypeOK' /\ IndexOK' /\ LoopsOK'
  BY DEF WorkTypeOK, IndexOK, LoopsOK, heap
<1>3. SlotsOK'
  BY <1>1 DEF SlotsOK, WorkTypeOK, heap
<1>4. CountsOK'
  BY <1>1, FS_EmptySet DEF CountsOK
<1> QED
  BY <1>1, <1>2, <1>3, <1>4 DEF OneAccessPerKey, PositionsAgree

\* What a step does to the thread's own state and to the index.  A fault, and
\* another transaction's abort, leave them as they are.
LEMMA NextCases ==
  [Next]_vars => Call \/ Step \/ (\E p \in Pk : OtherInserts(p)) \/ UNCHANGED work
BY DEF Next, Runs, OtherFrees, Fault, Stopped, vars

\* The initial state has empty sets.
LEMMA SetsInit == Init => SetsInv
<1> SUFFICES ASSUME Init PROVE SetsInv
  OBVIOUS
<1> USE ConstantFacts DEF Init
<1>1. Filled = {} /\ Writing = {}
  BY DEF Filled, Writing
<1>2. WorkTypeOK /\ IndexOK /\ LoopsOK /\ PositionsAgree
  BY <1>1 DEF WorkTypeOK, IndexOK, LoopsOK, PositionsAgree
<1>3. SlotsOK /\ CountsOK /\ OneAccessPerKey
  BY <1>1, FS_EmptySet DEF SlotsOK, CountsOK, OneAccessPerKey, Slot
<1> QED
  BY <1>2, <1>3 DEF SetsInv

\* Every step keeps SetsInv.
LEMMA SetsStep ==
  ASSUME SetsInv, [Next]_vars
  PROVE  SetsInv'
<1>1. CASE UNCHANGED work
  BY <1>1, SetsFrame DEF work, SetsInv, WorkTypeOK, IndexOK, LoopsOK, sets, inserts, heap
<1>2. CASE Call
  BY <1>2, UseStep, InsertStep, LoopStep DEF Call
<1>3. CASE Step
  BY <1>3, LoopStep, SortStepStep, ReturnStep, ResetStep DEF Step
<1>4. ASSUME NEW p \in Pk, OtherInserts(p) PROVE SetsInv'
  BY <1>4, OtherInsertsStep
<1> QED
  BY <1>1, <1>2, <1>3, <1>4, NextCases
-----------------------------------------------------------------------------
\* SetsInv holds in every reachable state.
LEMMA SetsInvariant == Spec => []SetsInv
BY SetsInit, SetsStep, PTL DEF Spec

\* Every slot, counter and loop variable stays within its array.
THEOREM SetsTypeCorrect == Spec => []TypeOK
<1> DEFINE Rest == gone \subseteq Pk /\ faulted \in BOOLEAN
<1>1. Init => Rest
  BY DEF Init
<1>2. Rest /\ [Next]_vars => Rest'
  BY DEF Next, Runs, OtherFrees, Fault, Stopped, vars
<1>3. SetsInv /\ Rest => TypeOK
  BY DEF SetsInv, TypeOK
<1> QED
  BY <1>1, <1>2, <1>3, SetsInvariant, PTL DEF Spec

\* As long as get_row may use it, record_pos leads from a primary key to the one
\* access of that key and to no other.
THEOREM PositionsRight == Spec => []PositionsAgree
<1>1. SetsInv => PositionsAgree
  BY DEF SetsInv
<1> QED
  BY <1>1, SetsInvariant, PTL

\* The counters are the sizes of the two sets of get_rw_set, which have no row in
\* common.
THEOREM RwSetsRight == Spec => []RwSetsMatchCounts
<1>1. ASSUME SetsInv PROVE RwSetsMatchCounts
  <2> DEFINE R == {s \in Filled : accesses[s].type # "WR"}
  <2>0. row_cnt \in Nat /\ Writing \subseteq Filled
    BY <1>1, ConstantFacts DEF SetsInv, WorkTypeOK, Writing
  <2>1. IsFiniteSet(Filled) /\ Cardinality(Filled) = row_cnt
    BY <2>0, FS_Interval DEF Filled
  <2>2. IsFiniteSet(Writing) /\ R = Filled \ Writing /\ Filled \cap Writing = Writing
    BY <2>0, <2>1, FS_Subset DEF Writing
  <2>3. Cardinality(R) = row_cnt - Cardinality(Writing)
    BY <2>1, <2>2, FS_Difference
  <2>4. Cardinality(Writing) = wr_cnt
    BY <1>1 DEF SetsInv, CountsOK
  <2>5. \A m \in Writing, n \in R : accesses[m].orig_row # accesses[n].orig_row
    BY <1>1, <2>0 DEF SetsInv, OneAccessPerKey, key_at, Writing
  <2> QED
    BY <2>3, <2>4, <2>5 DEF RwSetsMatchCounts, get_rw_set, set_ent, test_valid, Writing
<1> QED
  BY <1>1, SetsInvariant, PTL
-----------------------------------------------------------------------------
\* A slot that holds a copy holds an allocated access with data.
LEMMA CopySlotFacts ==
  ASSUME SetsInv, NEW s \in CopySlots
  PROVE  s \in Filled /\ s \in Slot /\ accesses[s] \in Access
<1>1. s \in Filled
  BY ConstantFacts DEF CopySlots, Filled, SetsInv, LoopsOK, WorkTypeOK
<1> QED
  BY <1>1, FilledFacts

\* A slot of insert_rows that is still to be freed.
LEMMA RowSlotFacts ==
  ASSUME SetsInv, HeapInv, NEW s \in 0..(insert_cnt - 1)
  PROVE  /\ s \in Slot /\ insert_rows[s] \in Row /\ get_primary_key(insert_rows[s]) \in Pk
         /\ rowBlock[get_primary_key(insert_rows[s])] \in Block
<1>1. s \in Slot /\ insert_rows[s] # NULL /\ rowBlock[get_primary_key(insert_rows[s])] # NULL
  BY ConstantFacts DEF SetsInv, WorkTypeOK, Slot, HeapInv, InsertsOK
<1> QED
  BY <1>1, ConstantFacts DEF SetsInv, WorkTypeOK

\* As long as nothing has been freed, these are all slots of insert_rows.
LEMMA RowSlotsInserted ==
  ASSUME SetsInv, NEW s \in RowSlots
  PROVE  s \in 0..(insert_cnt - 1)
BY ConstantFacts DEF RowSlots, SetsInv, LoopsOK, WorkTypeOK

\* The steps that allocate and free nothing.  Rows need no longer be held when the
\* transaction has committed.
LEMMA HeapFrame ==
  ASSUME SetsInv, HeapInv, UNCHANGED <<live, refused, insert_rows, rowBlock>>,
         insert_cnt' \in {0, insert_cnt},
         CopySlots' = CopySlots, \A s \in CopySlots : accesses'[s].data = accesses[s].data,
         RowSlots' \subseteq RowSlots, Aborting' => Aborting /\ RowSlots' = RowSlots,
         \A p \in Pk : index[p] # NULL => index'[p] # NULL
  PROVE  HeapInv'
<1>1. HeldCopies' = HeldCopies /\ HeldRows' \subseteq HeldRows /\ (Aborting' => HeldRows' = HeldRows)
  BY DEF HeldCopies, HeldRows
<1>2. HeapOK'
  BY DEF HeapInv, HeapOK
<1>3. InsertsOK'
  <2>1. 0..(insert_cnt' - 1) \subseteq 0..(insert_cnt - 1)
    <3>1. insert_cnt \in Nat
      BY ConstantFacts DEF SetsInv, WorkTypeOK
    <3>2. CASE insert_cnt' = 0
      BY <3>1, <3>2
    <3>3. CASE insert_cnt' = insert_cnt
      BY <3>3
    <3> QED
      BY <3>2, <3>3
  <2>2. \A s \in 0..(insert_cnt - 1) : get_primary_key(insert_rows[s]) \in Pk
    BY RowSlotFacts
  <2> QED
    BY <2>1, <2>2 DEF HeapInv, InsertsOK
<1>4. Lost' = Lost /\ Live("row")' = Live("row")
  BY <1>1 DEF Lost, Live
<1> QED
  BY <1>1, <1>2, <1>3, <1>4 DEF HeapInv

\* Steps that move loop variables leave the heap alone.
LEMMA HeapLoopStep ==
  ASSUME SetsInv, HeapInv,
         \/ commit \/ abort_txn \/ SortPass \/ Sorted \/ (\E ok \in BOOLEAN : LatchRow(ok))
         \/ Validated \/ RowsReturned \/ Reset \/ Unlock \/ finish_return
         \/ \E p \in Pk : OtherInserts(p)
  PROVE  HeapInv'
<1> USE ConstantFacts DEF CopySlots, RowSlots, Filled, Aborting, sets, inserts, heap
<1>1. CASE commit \/ abort_txn
  BY <1>1, HeapFrame DEF commit, abort_txn, SetsInv, LoopsOK, WorkTypeOK
<1>2. CASE SortPass \/ Sorted
  BY <1>2, HeapFrame DEF SortPass, Sorted
<1>3. CASE \E ok \in BOOLEAN : LatchRow(ok)
  BY <1>3, HeapFrame DEF LatchRow
<1>4. CASE Validated
  BY <1>4, HeapFrame DEF Validated
<1>5. CASE RowsReturned
  BY <1>5, HeapFrame DEF RowsReturned, SetsInv, WorkTypeOK
<1>6. CASE Reset
  BY <1>6, HeapFrame DEF Reset, SetsInv, LoopsOK, WorkTypeOK
<1>7. CASE Unlock \/ finish_return
  BY <1>7, HeapFrame DEF Unlock, finish_return
<1>8. ASSUME NEW p \in Pk, OtherInserts(p) PROVE HeapInv'
  <2>1. <<"other", p>> # NULL
    OBVIOUS
  <2>2. \A q \in Pk : index[q] # NULL => index'[q] # NULL
    BY <1>8, <2>1 DEF OtherInserts, SetsInv, WorkTypeOK
  <2> QED
    BY <1>8, <2>2, HeapFrame DEF OtherInserts
<1> QED
  BY <1>1, <1>2, <1>3, <1>4, <1>5, <1>6, <1>7, <1>8

\* The sort moves copies between slots and loses none.
LEMMA HeapSortStep ==
  ASSUME SetsInv, HeapInv, SortStep
  PROVE  HeapInv'
<1>0. PICK a : a = j
  OBVIOUS
<1>1. /\ a \in Filled /\ a + 1 \in Filled /\ pc = "sort"
      /\ accesses' = Swap(a) \/ accesses' = accesses
      /\ UNCHANGED <<index, row_cnt, insert_cnt, insert_rows, rowBlock, live, refused, pc, rc, i>>
  BY <1>0, SortStepFacts DEF inserts, heap
<1>2. /\ CopySlots = Filled /\ CopySlots' = CopySlots /\ RowSlots' = RowSlots /\ Aborting
  BY <1>1 DEF CopySlots, RowSlots, Aborting, Filled
<1>3. CASE accesses' = accesses
  BY <1>1, <1>2, <1>3, HeapFrame
<1>4. CASE accesses' = Swap(a)
  <2>1. \A s \in Filled : accesses'[s] = accesses[Other(a, s)] /\ Other(a, s) \in Filled
    BY <1>1, <1>4, SwapFacts, FilledFacts
  <2>2. \A s \in Filled : Other(a, s) \in Filled /\ Other(a, Other(a, s)) = s
    BY <1>1, SwapFacts, FilledFacts DEF Other
  <2>3. \A s \in Filled : accesses'[Other(a, s)] = accesses[s]
    BY <2>1, <2>2
  <2>4. HeldCopies' \subseteq HeldCopies
    BY <1>2, <2>1 DEF HeldCopies
  <2>5. HeldCopies \subseteq HeldCopies'
    BY <1>2, <2>2, <2>3 DEF HeldCopies
  <2>6. HeapOK'
    BY <1>1, <1>2, <2>1, <2>2 DEF HeapInv, HeapOK
  <2>7. HeldRows' = HeldRows /\ InsertsOK'
    BY <1>1, <1>2 DEF HeldRows, HeapInv, InsertsOK
  <2>8. Lost' = Lost /\ Live("row")' = Live("row")
    BY <1>1, <2>4, <2>5 DEF Lost, Live
  <2> QED
    BY <1>1, <1>2, <2>4, <2>5, <2>6, <2>7, <2>8 DEF HeapInv
<1> QED
  BY <1>1, <1>3, <1>4

\* A row that has an access already is not copied again.
LEMMA HeapCachedStep ==
  ASSUME SetsInv, HeapInv, pc = "ready", NEW r \in Row, NEW type \in {"RD", "WR"}, CachedRow(r, type),
         UNCHANGED <<index, inserts, lock_cnt, pc, i, j, rc, latched, written>>
  PROVE  HeapInv'
<1> DEFINE s == record_pos[get_primary_key(r)]
<1>1. s \in Filled /\ s \in Slot /\ accesses[s] \in Access
  BY FilledFacts, ConstantFacts DEF CachedRow, SetsInv, PositionsAgree
<1>2. accesses' = accesses \/ accesses' = [accesses EXCEPT ![s].type = "WR"]
  BY DEF CachedRow
<1>3. \A t \in CopySlots : accesses'[t].data = accesses[t].data
  BY <1>1, <1>2, CopySlotFacts DEF Access, SetsInv, WorkTypeOK
<1>4. UNCHANGED <<live, refused, row_cnt, insert_cnt, insert_rows, rowBlock>>
  BY DEF CachedRow, heap, inserts
<1>5. CopySlots' = CopySlots /\ RowSlots' = RowSlots /\ (Aborting' <=> Aborting)
  BY <1>4 DEF CopySlots, RowSlots, Aborting, Filled
<1> QED
  BY <1>3, <1>4, <1>5, HeapFrame

\* New blocks are none of the old ones.
LEMMA AllocHeap ==
  ASSUME SetsInv, HeapInv, NEW kinds \in Seq({"copy", "row", "manager", "latch", "item"}), Alloc(kinds)
  PROVE  /\ IsFiniteSet(live')
         /\ \A b \in live', c \in live' : b.id = c.id => b = c
         /\ \A n \in DOMAIN kinds : [id |-> allocs + n, kind |-> kinds[n]] \notin live
<1> DEFINE new == {[id |-> allocs + n, kind |-> kinds[n]] : n \in DOMAIN kinds}
<1>1. allocs \in Nat /\ Len(kinds) \in Nat /\ DOMAIN kinds = 1..Len(kinds) /\ live' = live \cup new
  BY DEF Alloc, SetsInv, WorkTypeOK
<1>2. \A b \in live : b.id \in 1..allocs
  BY DEF SetsInv, WorkTypeOK
<1>3. IsFiniteSet(new)
  <2> DEFINE f == [n \in 1..Len(kinds) |-> [id |-> allocs + n, kind |-> kinds[n]]]
  <2>1. f \in Surjection(1..Len(kinds), new)
    BY <1>1 DEF Surjection
  <2>2. IsFiniteSet(1..Len(kinds))
    BY <1>1, FS_Interval
  <2> QED
    BY <2>1, <2>2, FS_Surjection
<1>4. IsFiniteSet(live')
  BY <1>1, <1>3, FS_Union DEF HeapInv, HeapOK
<1>5. \A b \in live', c \in live' : b.id = c.id => b = c
  BY <1>1, <1>2 DEF HeapInv, HeapOK
<1> QED
  BY <1>1, <1>2, <1>4, <1>5

\* What a new copy, block b, makes of the held and the lost ones.
LEMMA UncachedHeap ==
  ASSUME SetsInv, HeapInv, pc = "ready", pc' = pc,
         NEW r \in Row, NEW type \in {"RD", "WR"}, NEW b \in Block, NEW ok \in BOOLEAN,
         UncachedRow(r, type, b, ok), b > allocs,
         IsFiniteSet(live'), \A x \in live', y \in live' : x.id = y.id => x = y,
         live \subseteq live',
         Live("copy")' = Live("copy") \cup {[id |-> b, kind |-> "copy"]},
         [id |-> b, kind |-> "copy"] \in live'
  PROVE  HeapOK' /\ HeldCopies' \subseteq live' /\ Cardinality(Lost') = refused'
<1> DEFINE new == [id |-> b, kind |-> "copy"]
<1>0. PICK s : s = row_cnt
  OBVIOUS
<1>1. s \in Slot /\ s \notin Filled /\ Filled \subseteq Slot /\ CopySlots = Filled /\ CopySlots' = Filled'
  <2>1. s \in Slot /\ s \notin Filled
    BY <1>0, ConstantFacts DEF UncachedRow, Filled, Slot
  <2> QED
    BY <2>1, FilledFacts DEF CopySlots
<1>2. \A t \in Filled : accesses[t].data \in 1..allocs /\ [id |-> accesses[t].data, kind |-> "copy"] \in live
  <2> SUFFICES ASSUME NEW t \in Filled
               PROVE  accesses[t].data \in 1..allocs /\ [id |-> accesses[t].data, kind |-> "copy"] \in live
    OBVIOUS
  <2>1. [id |-> accesses[t].data, kind |-> "copy"] \in live
    BY <1>1 DEF HeapInv, HeldCopies
  <2> QED
    BY <2>1 DEF SetsInv, WorkTypeOK
<1>3. accesses'[s].data = b /\ \A t \in Slot \ {s} : accesses'[t] = accesses[t]
  <2> DEFINE a == IF accesses[s] = NULL THEN EmptyAccess ELSE accesses[s]
  <2>1. a \in Access
    BY <1>1, ConstantFacts DEF SetsInv, WorkTypeOK, EmptyAccess, Access
  <2>2. \/ accesses' = [accesses EXCEPT ![s] = [type |-> type, orig_row |-> r, data |-> b]]
        \/ accesses' = [accesses EXCEPT ![s] = [a EXCEPT !.data = b]]
    BY <1>0 DEF UncachedRow
  <2> QED
    BY <1>1, <2>1, <2>2 DEF SetsInv, WorkTypeOK, Access
<1>4. \A t \in Filled : accesses'[t].data = accesses[t].data
  BY <1>1, <1>3
<1>5. new \notin live /\ allocs \in Nat /\ b \in Nat
  BY DEF SetsInv, WorkTypeOK, Block
<1>6. \A x \in {new} : x.kind = "copy"
  OBVIOUS
<1>7. HeldCopies \subseteq live /\ new \notin HeldCopies /\ IsFiniteSet(Lost)
  <2>1. HeldCopies \subseteq live /\ IsFiniteSet(live) /\ Lost \subseteq live
    BY DEF HeapInv, HeapOK, Lost, Live
  <2> QED
    BY <1>5, <2>1, FS_Subset
<1>8. CASE ok
  <2>1. Filled' = Filled \cup {s} /\ refused' = refused
    BY <1>0, <1>1, <1>8, ConstantFacts DEF UncachedRow, Filled, Slot
  <2>2. HeldCopies' = HeldCopies \cup {new}
    BY <1>1, <1>3, <1>4, <2>1 DEF HeldCopies
  <2>3. Lost' = Lost
    BY <1>5, <2>2 DEF Lost, Live
  <2>4. \A t \in CopySlots', u \in CopySlots' : accesses'[t].data = accesses'[u].data => t = u
    BY <1>1, <1>2, <1>3, <1>4, <1>5, <2>1 DEF HeapInv, HeapOK
  <2>5. HeldCopies' \subseteq live'
    BY <1>7, <2>2
  <2>6. Cardinality(Lost') = refused'
    BY <2>1, <2>3 DEF HeapInv
  <2> QED
    BY <2>4, <2>5, <2>6 DEF HeapOK
<1>9. CASE ~ok
  <2>1. Filled' = Filled /\ refused' = refused + 1
    BY <1>9 DEF UncachedRow, Filled
  <2>2. HeldCopies' = HeldCopies
    BY <1>1, <1>4, <2>1 DEF HeldCopies
  <2>3. Lost' = Lost \cup {new} /\ new \notin Lost
    BY <1>5, <1>7, <2>2 DEF Lost, Live
  <2>4. Cardinality(Lost \cup {new}) = Cardinality(Lost) + 1
    BY <1>7, <2>3, FS_AddElement
  <2>5. \A t \in CopySlots', u \in CopySlots' : accesses'[t].data = accesses'[u].data => t = u
    BY <1>1, <1>4, <2>1 DEF HeapInv, HeapOK
  <2>6. Cardinality(Lost') = refused'
    BY <2>1, <2>3, <2>4 DEF HeapInv
  <2>7. HeldCopies' \subseteq live'
    BY <1>7, <2>2
  <2> QED
    BY <2>5, <2>6, <2>7 DEF HeapOK
<1> QED
  BY <1>8, <1>9

\* A copy is allocated and either kept in its slot or, if refused, lost when
\* the slot is filled.
LEMMA HeapUseStep ==
  ASSUME SetsInv, HeapInv, NEW p \in Pk, NEW type \in {"RD", "WR"}, Use(p, type)
  PROVE  HeapInv'
<1>1. /\ index[p] \in Row /\ pc = "ready"
      /\ UNCHANGED <<index, inserts, lock_cnt, pc, i, j, rc, latched, written>>
  BY ConstantFacts DEF Use, SetsInv, WorkTypeOK
<1>2. ASSUME CachedRow(index[p], type) PROVE HeapInv'
  BY <1>1, <1>2, HeapCachedStep
<1>3. ASSUME NEW ok \in BOOLEAN, UncachedRow(index[p], type, NewBlock(1), ok), Alloc(<<"copy">>)
      PROVE  HeapInv'
  <2> DEFINE new == [id |-> allocs + 1, kind |-> "copy"]
  <2>1. <<"copy">> \in Seq({"copy", "row", "manager", "latch", "item"}) /\ allocs \in Nat
    BY DEF SetsInv, WorkTypeOK
  <2>2. live' = live \cup {new}
    BY <1>3 DEF Alloc
  <2>3. /\ IsFiniteSet(live')
        /\ \A b \in live', c \in live' : b.id = c.id => b = c
    BY <1>3, <2>1, AllocHeap
  <2>4. Live("copy")' = Live("copy") \cup {new} /\ Live("row")' = Live("row")
    BY <2>2 DEF Live
  <2>5. NewBlock(1) = allocs + 1 /\ NewBlock(1) \in Block /\ NewBlock(1) > allocs
    BY <2>1 DEF NewBlock, Block
  <2>6. live \subseteq live' /\ new \in live'
    BY <2>2
  <2>7. HeapOK' /\ HeldCopies' \subseteq live' /\ Cardinality(Lost') = refused'
    BY <1>1, <1>3, <2>3, <2>4, <2>5, <2>6, UncachedHeap
  <2>8. HeldRows' = HeldRows /\ InsertsOK' /\ Aborting
    BY <1>1 DEF HeldRows, RowSlots, InsertsOK, HeapInv, inserts, Aborting
  <2>9. HeldRows' \subseteq live' /\ Live("row")' = HeldRows'
    BY <2>2, <2>4, <2>8 DEF HeapInv
  <2> QED
    BY <2>7, <2>8, <2>9 DEF HeapInv
<1> QED
  BY <1>2, <1>3 DEF Use

\* An insertion allocates a row, which insert_rows then holds.
LEMMA HeapInsertStep ==
  ASSUME SetsInv, HeapInv, NEW p \in Pk, Insert(p)
  PROVE  HeapInv'
<1> DEFINE kinds == <<"row", "manager", "latch", "copy", "item">>
           new(n) == [id |-> allocs + n, kind |-> kinds[n]]
<1>1. PICK r : r = <<"own", p>>
  OBVIOUS
<1>2. r \in Row /\ get_primary_key(r) = p
  BY <1>1 DEF Row, get_primary_key
<1>3. /\ pc = "ready" /\ pc' = pc /\ index[p] = NULL
      /\ UncachedRow(r, "WR", NewBlock(4), TRUE) /\ Alloc(kinds)
      /\ rowBlock' = [rowBlock EXCEPT ![p] = NewBlock(1)]
      /\ insert_cnt \in Slot /\ insert_rows' = [insert_rows EXCEPT ![insert_cnt] = r]
      /\ insert_cnt' = insert_cnt + 1
      /\ index' = [index EXCEPT ![p] = r]
  BY <1>1 DEF Insert, insert_row
<1>4. kinds \in Seq({"copy", "row", "manager", "latch", "item"}) /\ allocs \in Nat
  BY DEF SetsInv, WorkTypeOK
<1>5. live' = live \cup {new(1), new(2), new(3), new(4), new(5)}
  <2>1. DOMAIN kinds = 1..5
    OBVIOUS
  <2>2. 1..5 = {1, 2, 3, 4, 5}
    OBVIOUS
  <2> QED
    BY <1>3, <2>1, <2>2 DEF Alloc
<1>6. /\ IsFiniteSet(live')
      /\ \A b \in live', c \in live' : b.id = c.id => b = c
  BY <1>3, <1>4, AllocHeap
<1>7. /\ Live("copy")' = Live("copy") \cup {[id |-> allocs + 4, kind |-> "copy"]}
      /\ Live("row")' = Live("row") \cup {[id |-> allocs + 1, kind |-> "row"]}
  BY <1>5 DEF Live
<1>8. /\ NewBlock(4) = allocs + 4 /\ NewBlock(4) \in Block /\ NewBlock(4) > allocs
      /\ NewBlock(1) = allocs + 1 /\ NewBlock(1) \in Block
  BY <1>4 DEF NewBlock, Block
<1>9. live \subseteq live' /\ {[id |-> allocs + 4, kind |-> "copy"], [id |-> allocs + 1, kind |-> "row"]} \subseteq live'
  BY <1>5
<1>10. HeapOK' /\ HeldCopies' \subseteq live' /\ Cardinality(Lost') = refused'
  BY <1>2, <1>3, <1>6, <1>7, <1>8, <1>9, UncachedHeap
<1>11. PICK n : n = insert_cnt
  OBVIOUS
<1>12. n \in Nat /\ n \in Slot /\ RowSlots = 0..(n - 1) /\ RowSlots' = 0..n
  BY <1>3, <1>11, ConstantFacts DEF RowSlots, Slot
<1>13. /\ insert_rows'[n] = r
       /\ \A s \in 0..(n - 1) : insert_rows'[s] = insert_rows[s] /\ get_primary_key(insert_rows[s]) # p
  BY <1>3, <1>11, <1>12, RowSlotFacts DEF SetsInv, WorkTypeOK, HeapInv, InsertsOK
<1>14. /\ rowBlock'[p] = allocs + 1
       /\ \A s \in 0..(n - 1) :
            rowBlock'[get_primary_key(insert_rows[s])] = rowBlock[get_primary_key(insert_rows[s])]
  BY <1>3, <1>8, <1>11, <1>13, RowSlotFacts DEF SetsInv, WorkTypeOK
<1>15. HeldRows' = HeldRows \cup {[id |-> allocs + 1, kind |-> "row"]}
  BY <1>2, <1>12, <1>13, <1>14 DEF HeldRows
<1>16. HeldRows' \subseteq live' /\ Live("row")' = HeldRows'
  BY <1>3, <1>7, <1>9, <1>15 DEF HeapInv, Aborting
<1>17. InsertsOK'
  <2>1. 0..(insert_cnt' - 1) = 0..n /\ 0..n = 0..(n - 1) \cup {n}
    BY <1>3, <1>11, <1>12
  <2>2. \A q \in Pk : index[q] # NULL => index'[q] # NULL
    BY <1>2, <1>3, ConstantFacts DEF SetsInv, WorkTypeOK
  <2>3. \A s \in 0..(n - 1) :
           LET q == get_primary_key(insert_rows'[s]) IN
           insert_rows'[s] # NULL /\ index'[q] # NULL /\ rowBlock'[q] # NULL
    BY <1>11, <1>13, <1>14, <2>2, RowSlotFacts DEF HeapInv, InsertsOK
  <2>4. insert_rows'[n] # NULL /\ index'[p] # NULL /\ rowBlock'[p] # NULL
    BY <1>2, <1>3, <1>8, <1>13, <1>14, ConstantFacts DEF SetsInv, WorkTypeOK, Block
  <2>5. \A s \in 0..(n - 1) : rowBlock[get_primary_key(insert_rows[s])] # allocs + 1
    <3> SUFFICES ASSUME NEW s \in 0..(n - 1), NEW b, b = rowBlock[get_primary_key(insert_rows[s])]
                 PROVE  b # allocs + 1
      OBVIOUS
    <3>1. [id |-> b, kind |-> "row"] \in live
      BY <1>12 DEF HeapInv, HeldRows
    <3> QED
      BY <1>4, <3>1 DEF SetsInv, WorkTypeOK
  <2>6. \A s \in 0..n, t \in 0..n :
           LET q == get_primary_key(insert_rows'[s])
               u == get_primary_key(insert_rows'[t])
           IN q = u \/ rowBlock'[q] = rowBlock'[u] => s = t
    BY <1>2, <1>11, <1>13, <1>14, <2>1, <2>5 DEF HeapInv, InsertsOK
  <2> QED
    BY <1>2, <1>13, <2>1, <2>3, <2>4, <2>6 DEF InsertsOK
<1> QED
  BY <1>10, <1>16, <1>17 DEF HeapInv

\* free takes the one block with that id.
LEMMA FreeFacts ==
  ASSUME HeapInv, NEW b \in live, Free(b.id)
  PROVE  live' = live \ {b} /\ IsFiniteSet(live')
<1>1. live' = live \ {b}
  BY DEF Free, HeapInv, HeapOK
<1> QED
  BY <1>1, FS_RemoveElement DEF HeapInv, HeapOK

\* return_row frees the copy of its slot and no other block.
LEMMA HeapReturnStep ==
  ASSUME SetsInv, HeapInv, return_row
  PROVE  HeapInv'
<1> DEFINE d == accesses[i].data
           b == [id |-> d, kind |-> "copy"]
<1>1. PICK a : a = i
  OBVIOUS
<1>2. /\ pc = "cleanup" /\ a \in CopySlots /\ CopySlots = 0..a /\ CopySlots' = 0..(a - 1)
      /\ a \in Nat /\ RowSlots' = RowSlots /\ (Aborting <=> Aborting')
      /\ accesses' = [accesses EXCEPT ![a].data = NULL]
      /\ UNCHANGED <<index, insert_cnt, insert_rows, rowBlock, refused>>
  BY <1>1 DEF return_row, CopySlots, RowSlots, Aborting, SetsInv, WorkTypeOK, inserts
<1>3. b \in live /\ Free(b.id)
  BY <1>1, <1>2 DEF HeapInv, HeldCopies, return_row
<1>4. live' = live \ {b} /\ IsFiniteSet(live')
  BY <1>3, FreeFacts
<1>5. \A s \in CopySlots' : s \in CopySlots /\ s # a /\ accesses'[s] = accesses[s]
  BY <1>2, CopySlotFacts DEF SetsInv, WorkTypeOK
<1>6. HeldCopies' = HeldCopies \ {b}
  <2>1. \A s \in CopySlots \ {a} : s \in CopySlots' /\ [id |-> accesses[s].data, kind |-> "copy"] # b
    BY <1>1, <1>2 DEF HeapInv, HeapOK
  <2> QED
    BY <1>1, <1>2, <1>5, <2>1 DEF HeldCopies
<1>7. HeapOK'
  BY <1>4, <1>5 DEF HeapInv, HeapOK
<1>8. HeldRows' = HeldRows /\ b \notin HeldRows
  BY <1>2 DEF HeldRows
<1>9. Lost' = Lost /\ Live("row")' = Live("row")
  BY <1>1, <1>2, <1>4, <1>6 DEF Lost, Live, HeldCopies
<1>10. InsertsOK'
  BY <1>2 DEF HeapInv, InsertsOK
<1> QED
  BY <1>2, <1>4, <1>6, <1>7, <1>8, <1>9, <1>10 DEF HeapInv

\* free_row frees an inserted row of an aborted transaction once.
LEMMA HeapFreeStep ==
  ASSUME SetsInv, HeapInv, FreeInserted
  PROVE  HeapInv'
<1> DEFINE d == rowBlock[get_primary_key(insert_rows[i])]
           b == [id |-> d, kind |-> "row"]
<1>1. PICK a : a = i
  OBVIOUS
<1>2. /\ pc = "free" /\ a \in 0..(insert_cnt - 1) /\ insert_cnt \in Nat /\ a \in Nat
      /\ RowSlots = a..(insert_cnt - 1) /\ RowSlots' = (a + 1)..(insert_cnt - 1)
      /\ CopySlots = {} /\ CopySlots' = {} /\ Aborting /\ Aborting'
      /\ UNCHANGED <<index, insert_cnt, insert_rows, rowBlock, refused>>
  BY <1>1, ConstantFacts
     DEF FreeInserted, CopySlots, RowSlots, Aborting, SetsInv, WorkTypeOK, LoopsOK, inserts
<1>3. b \in live /\ Free(b.id)
  BY <1>1, <1>2 DEF HeapInv, HeldRows, FreeInserted
<1>4. live' = live \ {b} /\ IsFiniteSet(live')
  BY <1>3, FreeFacts
<1>5. HeldRows' = HeldRows \ {b}
  <2>1. \A s \in RowSlots : s # a =>
          /\ s \in RowSlots'
          /\ [id |-> rowBlock[get_primary_key(insert_rows[s])], kind |-> "row"] # b
    BY <1>1, <1>2 DEF HeapInv, InsertsOK
  <2>2. RowSlots' = RowSlots \ {a} /\ a \in RowSlots
    BY <1>2
  <2> QED
    BY <1>1, <1>2, <2>1, <2>2 DEF HeldRows
<1>6. HeldCopies = {} /\ HeldCopies' = {} /\ HeapOK'
  BY <1>2, <1>4 DEF HeldCopies, HeapInv, HeapOK
<1>7. Lost' = Lost /\ Live("row")' = Live("row") \ {b}
  BY <1>4, <1>6 DEF Lost, Live
<1>8. InsertsOK'
  BY <1>2 DEF HeapInv, InsertsOK
<1> QED
  BY <1>2, <1>4, <1>5, <1>6, <1>7, <1>8 DEF HeapInv

\* Initially nothing is allocated.
LEMMA HeapInit == Init => HeapInv
<1> SUFFICES ASSUME Init PROVE HeapInv
  OBVIOUS
<1> USE DEF Init
<1>1. CopySlots = {} /\ RowSlots = {} /\ 0..(insert_cnt - 1) = {}
  BY DEF CopySlots, RowSlots, Filled
<1>2. HeldCopies = {} /\ HeldRows = {} /\ Lost = {} /\ Live("row") = {}
  BY <1>1 DEF HeldCopies, HeldRows, Lost, Live
<1> QED
  BY <1>1, <1>2, FS_EmptySet DEF HeapInv, HeapOK, InsertsOK

\* Every step keeps HeapInv.
LEMMA HeapStep ==
  ASSUME SetsInv, HeapInv, [Next]_vars
  PROVE  HeapInv'
<1>1. CASE UNCHANGED work
  BY <1>1, HeapFrame DEF work, sets, inserts, heap, CopySlots, RowSlots, Aborting, Filled
<1>2. CASE Call
  BY <1>2, HeapUseStep, HeapInsertStep, HeapLoopStep DEF Call
<1>3. CASE Step
  BY <1>3, HeapLoopStep, HeapSortStep, HeapReturnStep, HeapFreeStep DEF Step
<1>4. CASE \E p \in Pk : OtherInserts(p)
  BY <1>4, HeapLoopStep
<1> QED
  BY <1>1, <1>2, <1>3, <1>4, NextCases

\* HeapInv holds in every reachable state.
LEMMA HeapInvariant == Spec => []HeapInv
BY SetsInvariant, HeapInit, HeapStep, PTL DEF Spec

\* cleanup frees what is allocated, once and by its own kind; only refused copies
\* and, after a commit, the inserted rows are left.
THEOREM FreesExact == Spec => []FreesAreExact
<1>1. ASSUME SetsInv, HeapInv PROVE FreesAreExact
  <2> DEFINE f == [s \in CopySlots |-> [id |-> accesses[s].data, kind |-> "copy"]]
  <2>1. f \in Bijection(CopySlots, HeldCopies)
    <3>1. f \in [CopySlots -> HeldCopies]
      BY DEF HeldCopies
    <3>2. \A s \in CopySlots, t \in CopySlots : f[s] = f[t] => s = t
      <4>1. \A s \in CopySlots, t \in CopySlots :
              accesses[s].data = accesses[t].data => s = t
        BY <1>1 DEF HeapInv, HeapOK
      <4>2. \A s \in CopySlots : f[s].id = accesses[s].data
        OBVIOUS
      <4> QED
        BY <4>1, <4>2
    <3>3. \A b \in HeldCopies : \E s \in CopySlots : f[s] = b
      BY DEF HeldCopies
    <3> HIDE DEF f
    <3> QED
      BY <3>1, <3>2, <3>3 DEF Bijection, Injection, Surjection, IsInjective
  <2>2. IsFiniteSet(CopySlots)
    <3>1. IsFiniteSet(Filled)
      BY <1>1, FS_Interval, ConstantFacts DEF SetsInv, WorkTypeOK, Filled
    <3>2. CopySlots \subseteq Filled
      BY <1>1, CopySlotFacts
    <3> QED
      BY <3>1, <3>2, FS_Subset
  <2>3. Cardinality(HeldCopies) = Cardinality(CopySlots)
    BY <2>1, <2>2, FS_Bijection DEF ExistsBijection
  <2> QED
    BY <1>1, <2>3 DEF HeapInv, FreesAreExact, Lost
<1> QED
  BY <1>1, SetsInvariant, HeapInvariant, PTL
-----------------------------------------------------------------------------
(* The order of the latches *)

\* return_row changes nothing of an access but its data.
LEMMA ReturnFacts ==
  ASSUME SetsInv, return_row
  PROVE  \A s \in Slot : accesses[s] # NULL =>
           /\ accesses'[s].orig_row = accesses[s].orig_row
           /\ accesses'[s].type = accesses[s].type
<1>0. PICK a : a = i
  OBVIOUS
<1>1. a \in Filled /\ accesses' = [accesses EXCEPT ![a].data = NULL]
  BY <1>0, ConstantFacts DEF return_row, SetsInv, LoopsOK, WorkTypeOK, Filled
<1>2. a \in Slot /\ accesses[a] \in Access
  BY <1>1, FilledFacts
<1> QED
  BY <1>1, <1>2 DEF SetsInv, WorkTypeOK, Access

\* The steps that neither sort nor latch nor release.
LEMMA OrderFrame ==
  ASSUME SetsInv, OrderInv, UNCHANGED <<lock_cnt, latched, HeldSlots>>, NothingWritten',
         \A s \in 0..(lock_cnt - 1) : accesses'[s].orig_row = accesses[s].orig_row,
         pc' \notin {"sort", "latch"}
  PROVE  OrderInv'
<1>1. \A s \in HeldSlots : s \in 0..(lock_cnt - 1)
  BY ConstantFacts DEF HeldSlots, SetsInv, WorkTypeOK, LoopsOK
<1> QED
  BY <1>1 DEF OrderInv, SortOK, LatchOrderOK, key_at

\* A turn of the inner loop keeps what is known of the order.
LEMMA OrderSortStep ==
  ASSUME SetsInv, OrderInv, SortStep
  PROVE  OrderInv'
<1>0. PICK a : a = j
  OBVIOUS
<1>1. /\ a \in Filled /\ a + 1 \in Filled /\ pc = "sort" /\ pc' = "sort"
      /\ i > 0 /\ a < i /\ i' = i /\ j' = a + 1 /\ lock_cnt' = 0 /\ lock_cnt = 0
      /\ UNCHANGED <<row_cnt, latched, written, rc>> /\ Filled' = Filled
      /\ \/ key_at(a) > key_at(a + 1) /\ accesses' = Swap(a)
         \/ key_at(a) <= key_at(a + 1) /\ accesses' = accesses
  BY <1>0, SortStepFacts DEF Filled
<1>2. /\ Filled \subseteq Nat /\ i \in Nat /\ a \in Nat /\ row_cnt \in Nat /\ i < row_cnt
      /\ \A s \in Filled : key_at(s) \in Nat
  BY <1>1, FilledFacts, ConstantFacts DEF SetsInv, WorkTypeOK, Filled, LoopsOK
<1>3. /\ \A s \in (i + 1)..(row_cnt - 1), t \in Filled : t < s => key_at(t) < key_at(s)
      /\ \A t \in 0..(a - 1) : key_at(t) < key_at(a)
  BY <1>0, <1>1, <1>2 DEF OrderInv, SortOK
<1>4. HeldSlots = {} /\ HeldSlots' = {}
  BY <1>1 DEF HeldSlots
<1>5. LatchOrderOK' /\ NothingWritten'
  BY <1>1, <1>4 DEF OrderInv, LatchOrderOK, NothingWritten
<1>6. CASE accesses' = accesses /\ key_at(a) <= key_at(a + 1)
  <2>1. \A s \in Filled : key_at(s)' = key_at(s)
    BY <1>6 DEF key_at
  <2>2. key_at(a) < key_at(a + 1)
    BY <1>1, <1>2, <1>6 DEF SetsInv, OneAccessPerKey
  <2>3. \A t \in 0..a : t \in Filled /\ key_at(t) < key_at(a + 1)
    <3>1. \A t \in 0..a : t \in Filled /\ (t \in 0..(a - 1) \/ t = a)
      BY <1>1, <1>2 DEF Filled
    <3> QED
      BY <1>1, <1>2, <1>3, <2>2, <3>1
  <2>4. \A t \in 0..(j' - 1) : key_at(t)' < (key_at(a + 1))'
    BY <1>1, <1>2, <2>1, <2>3
  <2>5. SortOK'
    BY <1>1, <1>2, <1>3, <2>1, <2>4 DEF SortOK, Filled
  <2> QED
    BY <1>5, <2>5 DEF OrderInv
<1>7. CASE accesses' = Swap(a) /\ key_at(a) > key_at(a + 1)
  <2>1. \A s \in Filled : key_at(s)' = key_at(Other(a, s)) /\ Other(a, s) \in Filled
    BY <1>1, <1>7, SwapFacts, FilledFacts DEF key_at
  <2>2. \A t \in 0..a : t \in Filled /\ key_at(Other(a, t)) < key_at(a)
    <3>1. \A t \in 0..a : t \in Filled /\ (t \in 0..(a - 1) \/ t = a)
      BY <1>1, <1>2 DEF Filled
    <3>2. \A t \in 0..(a - 1) : Other(a, t) = t
      BY <1>2 DEF Other
    <3>3. Other(a, a) = a + 1
      BY DEF Other
    <3> QED
      BY <1>1, <1>2, <1>3, <1>7, <3>1, <3>2, <3>3
  <2>3. Other(a, a + 1) = a
    BY <1>2 DEF Other
  <2>4. \A t \in 0..(j' - 1) : key_at(t)' < (key_at(a + 1))'
    BY <1>1, <1>2, <2>1, <2>2, <2>3
  <2>5. \A s \in (i + 1)..(row_cnt - 1), t \in Filled :
          t < s => s \in Filled /\ Other(a, s) = s /\ Other(a, t) \in Filled /\ Other(a, t) < s
    BY <1>1, <1>2 DEF Other, Filled
  <2>6. \A s \in (i + 1)..(row_cnt - 1), t \in Filled : t < s => key_at(t)' < key_at(s)'
    BY <1>3, <2>1, <2>5
  <2>7. SortOK'
    BY <1>1, <1>2, <2>4, <2>6 DEF SortOK
  <2> QED
    BY <1>5, <2>7 DEF OrderInv
<1> QED
  BY <1>1, <1>6, <1>7

\* A pass of the sort has brought the greatest remaining key to its place.
LEMMA OrderPassStep ==
  ASSUME SetsInv, OrderInv, commit \/ SortPass \/ Sorted
  PROVE  OrderInv'
<1>1. /\ lock_cnt = 0 /\ lock_cnt' = 0 /\ pc \in {"ready", "sort"} /\ pc' \in {"sort", "latch"}
      /\ UNCHANGED <<accesses, row_cnt, latched, written, rc>> /\ Filled' = Filled
      /\ row_cnt \in Nat /\ i \in Int /\ j \in Nat
  BY ConstantFacts DEF commit, SortPass, Sorted, sets, SetsInv, LoopsOK, WorkTypeOK, Filled
<1>2. HeldSlots = {} /\ HeldSlots' = {}
  BY <1>1 DEF HeldSlots
<1>3. NothingWritten'
  BY <1>1 DEF OrderInv, NothingWritten
<1>4. \A s \in Filled : key_at(s)' = key_at(s)
  BY <1>1 DEF key_at
<1>5. CASE commit
  BY <1>1, <1>2, <1>3, <1>5 DEF commit, OrderInv, SortOK, LatchOrderOK
<1>6. CASE SortPass
  <2>1. pc = "sort" /\ pc' = "sort" /\ i > 0 /\ j = i /\ i' = i - 1 /\ j' = 0
    BY <1>1, <1>6 DEF SortPass, SetsInv, LoopsOK
  <2>2. PICK a : a = i
    OBVIOUS
  <2>3. \A s \in a..(row_cnt - 1), t \in Filled : t < s => key_at(t) < key_at(s)
    BY <1>1, <2>1, <2>2 DEF OrderInv, SortOK, Filled
  <2>4. \A s \in a..(row_cnt - 1) : s \in Filled
    BY <1>1, <2>1, <2>2 DEF Filled
  <2>5. SortOK'
    BY <1>1, <1>4, <2>1, <2>2, <2>3, <2>4 DEF SortOK
  <2> QED
    BY <1>1, <1>2, <1>3, <2>1, <2>5 DEF OrderInv, LatchOrderOK
<1>7. CASE Sorted
  <2>1. pc = "sort" /\ pc' = "latch" /\ i <= 0
    BY <1>7 DEF Sorted
  <2>2. \A s \in Filled, t \in Filled : s < t => key_at(s) < key_at(t)
    BY <1>1, <2>1 DEF OrderInv, SortOK, Filled
  <2> QED
    BY <1>1, <1>2, <1>3, <1>4, <2>1, <2>2 DEF OrderInv, SortOK, LatchOrderOK
<1> QED
  BY <1>5, <1>6, <1>7

\* validate latches the slots in the order of their keys.
LEMMA OrderLatchStep ==
  ASSUME SetsInv, OrderInv, NEW ok \in BOOLEAN, LatchRow(ok)
  PROVE  OrderInv'
<1>0. PICK a : a = i
  OBVIOUS
<1>1. /\ a \in Filled /\ a \in Nat /\ lock_cnt = a /\ lock_cnt' = a + 1 /\ pc = "latch" /\ pc' = "latch"
      /\ latched' = latched \cup {accesses[a].orig_row} /\ row_cnt \in Nat
      /\ UNCHANGED <<accesses, row_cnt, written>> /\ Filled' = Filled
  BY <1>0, ConstantFacts DEF LatchRow, latch, sets, SetsInv, LoopsOK, WorkTypeOK, Filled
<1>2. HeldSlots = 0..(a - 1) /\ HeldSlots' = 0..a /\ 0..a = 0..(a - 1) \cup {a}
  BY <1>1 DEF HeldSlots
<1>3. \A s \in 0..a : s \in Filled
  BY <1>1 DEF Filled
<1>4. \A s \in Filled : key_at(s)' = key_at(s)
  BY <1>1 DEF key_at
<1>5. latched' = {accesses'[s].orig_row : s \in HeldSlots'}
  BY <1>1, <1>2 DEF OrderInv, LatchOrderOK
<1>6. LatchOrderOK'
  BY <1>1, <1>3, <1>4, <1>5 DEF OrderInv, LatchOrderOK
<1> QED
  BY <1>1, <1>6 DEF OrderInv, SortOK, NothingWritten

\* Latches are given back in the order in which they were taken.
LEMMA OrderUnlockStep ==
  ASSUME SetsInv, OrderInv, Unlock
  PROVE  OrderInv'
<1>0. PICK a : a = i
  OBVIOUS
<1>1. /\ a \in Nat /\ a < lock_cnt /\ lock_cnt \in Nat /\ i' = a + 1 /\ pc = "unlock" /\ pc' = "unlock"
      /\ latched' = latched \ {accesses[a].orig_row}
      /\ UNCHANGED <<accesses, lock_cnt, rc, written>>
  BY <1>0, ConstantFacts DEF Unlock, release, sets, SetsInv, LoopsOK, WorkTypeOK
<1>2. HeldSlots = a..(lock_cnt - 1) /\ HeldSlots' = (a + 1)..(lock_cnt - 1)
  BY <1>0, <1>1 DEF HeldSlots
<1>3. /\ HeldSlots' = HeldSlots \ {a}
      /\ \A s \in HeldSlots' : a < s /\ s \in 0..(lock_cnt - 1) /\ a \in 0..(lock_cnt - 1)
  BY <1>1, <1>2
<1>4. \A s \in HeldSlots' : key_at(a) < key_at(s)
  BY <1>3 DEF OrderInv, LatchOrderOK
<1>5. \A s \in 0..(lock_cnt - 1) : key_at(s) \in Nat
  BY LockedFacts
<1>6. \A s \in HeldSlots' : accesses[s].orig_row # accesses[a].orig_row
  BY <1>3, <1>4, <1>5 DEF key_at
<1>7. latched' = {accesses'[s].orig_row : s \in HeldSlots'}
  BY <1>1, <1>2, <1>3, <1>6 DEF OrderInv, LatchOrderOK
<1>8. LatchOrderOK'
  BY <1>1, <1>7 DEF OrderInv, LatchOrderOK, key_at
<1> QED
  BY <1>1, <1>8 DEF OrderInv, SortOK, NothingWritten

\* Every other step.
LEMMA OrderStep ==
  ASSUME SetsInv, OrderInv, [Next]_vars
  PROVE  OrderInv'
<1> USE DEF sets, inserts, heap
<1>1. CASE UNCHANGED work \/ \E p \in Pk : OtherInserts(p)
  <2>1. UNCHANGED <<row_cnt, accesses, pc, i, j, rc, latched, written, lock_cnt>>
    BY <1>1 DEF work, OtherInserts
  <2> QED
    BY <2>1 DEF OrderInv, SortOK, LatchOrderOK, NothingWritten, HeldSlots, Filled, key_at
<1>2. CASE (\E p \in Pk : Insert(p)) \/ \E p \in Pk, type \in {"RD", "WR"} : Use(p, type)
  <2>1. /\ pc = "ready" /\ pc' = "ready" /\ lock_cnt = 0 /\ lock_cnt' = 0
        /\ UNCHANGED <<latched, written, rc>>
    BY <1>2 DEF Insert, Use, SetsInv, LoopsOK
  <2>2. HeldSlots = {} /\ HeldSlots' = {}
    BY <2>1 DEF HeldSlots
  <2> QED
    BY <2>1, <2>2 DEF OrderInv, SortOK, LatchOrderOK, NothingWritten
<1>3. CASE abort_txn
  BY <1>3, OrderFrame DEF abort_txn, OrderInv, NothingWritten, HeldSlots
<1>4. CASE Validated
  BY <1>4, OrderFrame DEF Validated, OrderInv, NothingWritten, HeldSlots
<1>5. CASE RowsReturned \/ FreeInserted
  BY <1>5, OrderFrame DEF RowsReturned, FreeInserted, OrderInv, NothingWritten, HeldSlots
<1>6. CASE Reset
  BY <1>6, OrderFrame DEF Reset, OrderInv, NothingWritten, HeldSlots
<1>7. CASE finish_return
  BY <1>7, OrderFrame DEF finish_return, OrderInv, NothingWritten, HeldSlots
<1>8. CASE return_row
  <2>1. \A s \in 0..(lock_cnt - 1) : accesses'[s].orig_row = accesses[s].orig_row
    BY <1>8, ReturnFacts, LockedFacts
  <2>2. UNCHANGED <<lock_cnt, latched, HeldSlots>> /\ NothingWritten'
    BY <1>8 DEF return_row, HeldSlots, OrderInv, NothingWritten
  <2> QED
    BY <1>8, <2>1, <2>2, OrderFrame DEF return_row
<1> QED
  BY <1>1, <1>2, <1>3, <1>4, <1>5, <1>6, <1>7, <1>8, OrderSortStep, OrderPassStep, OrderLatchStep,
     OrderUnlockStep, NextCases DEF Call, Step

\* Initially there is no access, so all are in order.
LEMMA OrderInit == Init => OrderInv
<1> SUFFICES ASSUME Init PROVE OrderInv
  OBVIOUS
<1>1. HeldSlots = {}
  BY DEF HeldSlots, Init
<1> QED
  BY <1>1 DEF Init, OrderInv, SortOK, LatchOrderOK, NothingWritten

\* OrderInv holds in every reachable state.
LEMMA OrderInvariant == Spec => []OrderInv
BY SetsInvariant, OrderInit, OrderStep, PTL DEF Spec
-----------------------------------------------------------------------------
(* Rows that have been freed *)

\* A row that the transaction inserted is allocated until the transaction turns
\* out to abort, and the index and the accesses lead to no other row of its own.
OwnLive ==
  /\ rc = "RCOK" => \A p \in Pk : rowBlock[p] # NULL => [id |-> rowBlock[p], kind |-> "row"] \in live
  /\ \A p \in Pk : index[p] = <<"own", p>> => rowBlock[p] # NULL
  /\ \A s \in Filled \cup 0..(lock_cnt - 1) :
       accesses[s].orig_row[1] = "own" => rowBlock[key_at(s)] # NULL

\* Steps that free no row, or abort, and lead to no new access.
LEMMA OwnFrame ==
  ASSUME OwnLive, UNCHANGED rowBlock,
         rc' = "RCOK" => rc = "RCOK" /\ \A b \in live : b.kind = "row" => b \in live',
         \A p \in Pk : index'[p] = <<"own", p>> => index[p] = <<"own", p>>,
         \A s \in (Filled \cup 0..(lock_cnt - 1))' : \E t \in Filled \cup 0..(lock_cnt - 1) :
            accesses'[s].orig_row = accesses[t].orig_row
  PROVE  OwnLive'
BY DEF OwnLive, key_at, get_primary_key

\* A Read or Write of a key that has a row.
LEMMA OwnUse ==
  ASSUME SetsInv, OwnLive, NEW p \in Pk, NEW type \in {"RD", "WR"}, Use(p, type)
  PROVE  OwnLive'
<1> USE ConstantFacts DEF SetsInv
<1>1. /\ index[p] \in Row /\ get_primary_key(index[p]) = p /\ lock_cnt = 0
      /\ UNCHANGED <<index, rowBlock, lock_cnt, rc>>
  BY DEF Use, inserts, WorkTypeOK, IndexOK, LoopsOK
<1>2. \A b \in live : b \in live'
  BY DEF Use, CachedRow, Alloc, heap
<1>3. ASSUME CachedRow(index[p], type) PROVE OwnLive'
  <2>1. record_pos[p] \in Filled /\ row_cnt' = row_cnt /\ Filled \subseteq Slot
    BY <1>1, <1>3, FilledFacts DEF CachedRow, PositionsAgree, Use
  <2>2. \A s \in Filled : accesses'[s].orig_row = accesses[s].orig_row
    BY <1>1, <1>3, <2>1, FilledFacts DEF CachedRow, Upgrade, WorkTypeOK, Access
  <2> QED
    BY <1>1, <1>2, <2>1, <2>2, OwnFrame DEF Filled
<1>4. ASSUME NEW ok \in BOOLEAN, UncachedRow(index[p], type, NewBlock(1), ok) PROVE OwnLive'
  <2>1. PICK n : n = row_cnt
    OBVIOUS
  <2>2. n \in Slot /\ n \in Nat /\ Filled \subseteq Slot /\ n \notin Filled
    BY <1>4, <2>1, FilledFacts DEF UncachedRow, Slot, Filled, WorkTypeOK
  <2>3. \A s \in Filled : accesses'[s] = accesses[s]
    BY <1>4, <2>1, <2>2 DEF UncachedRow, WorkTypeOK
  <2>4. CASE ok
    <3>0. /\ row_cnt' = n + 1
          /\ accesses' = [accesses EXCEPT ![n] =
                            [type |-> type, orig_row |-> index[p], data |-> NewBlock(1)]]
      BY <1>4, <2>1, <2>4 DEF UncachedRow
    <3>1. Filled' = Filled \cup {n} /\ accesses'[n].orig_row = index[p]
      BY <2>1, <2>2, <3>0 DEF Filled, WorkTypeOK
    <3>2. index[p] = <<index[p][1], p>>
      BY <1>1 DEF Row, get_primary_key
    <3>3. index[p][1] = "own" => rowBlock[p] # NULL
      BY <3>2 DEF OwnLive
    <3> QED
      BY <1>1, <1>2, <2>3, <3>1, <3>3 DEF OwnLive, key_at
  <2>5. CASE ~ok
    <3>1. Filled' = Filled
      BY <1>4, <2>5 DEF UncachedRow, Filled
    <3> QED
      BY <1>1, <1>2, <2>3, <3>1, OwnFrame
  <2> QED
    BY <2>4, <2>5
<1> QED
  BY <1>3, <1>4 DEF Use

\* An insertion.
LEMMA OwnInsert ==
  ASSUME SetsInv, OwnLive, NEW p \in Pk, Insert(p)
  PROVE  OwnLive'
<1> USE ConstantFacts DEF SetsInv
<1> DEFINE new == NewBlock(1)
           kinds == <<"row", "manager", "latch", "copy", "item">>
<1>1. PICK n : n = row_cnt
  OBVIOUS
<1>2. /\ lock_cnt = 0 /\ UNCHANGED <<lock_cnt, rc>> /\ new \in Nat /\ new # NULL
      /\ rowBlock' = [rowBlock EXCEPT ![p] = new] /\ rowBlock \in [Pk -> Block \cup {NULL}]
      /\ index' = [index EXCEPT ![p] = <<"own", p>>] /\ index \in [Pk -> Row \cup {NULL}]
  BY DEF Insert, WorkTypeOK, LoopsOK, NewBlock
<1>3. (\A b \in live : b \in live') /\ [id |-> new, kind |-> "row"] \in live'
  <2>1. Alloc(kinds) /\ 1 \in DOMAIN kinds /\ kinds[1] = "row"
    BY DEF Insert
  <2> QED
    BY <2>1 DEF Alloc, NewBlock
<1>4. /\ n \in Slot /\ n \in Nat /\ Filled \subseteq Slot /\ n \notin Filled
      /\ row_cnt' = n + 1
      /\ accesses' = [accesses EXCEPT ![n] =
                        [type |-> "WR", orig_row |-> <<"own", p>>, data |-> NewBlock(4)]]
  <2>1. UncachedRow(<<"own", p>>, "WR", NewBlock(4), TRUE)
    BY DEF Insert
  <2>2. /\ n \in Slot /\ row_cnt' = n + 1
        /\ accesses' = [accesses EXCEPT ![n] =
                          [type |-> "WR", orig_row |-> <<"own", p>>, data |-> NewBlock(4)]]
    BY <1>1, <2>1 DEF UncachedRow
  <2> QED
    BY <1>1, <2>2, FilledFacts DEF Slot, Filled
<1>5. /\ Filled' = Filled \cup {n} /\ accesses'[n].orig_row = <<"own", p>>
      /\ \A s \in Filled : accesses'[s] = accesses[s]
  BY <1>1, <1>4 DEF Filled, WorkTypeOK
<1>6. \A s \in Filled : key_at(s)' = key_at(s) /\ key_at(s) \in Pk
  BY <1>5, FilledFacts DEF key_at
<1>7. key_at(n)' = p
  BY <1>5 DEF key_at, get_primary_key
<1> HIDE DEF new
<1>8. \A s \in Filled' : accesses'[s].orig_row[1] = "own" => rowBlock'[key_at(s)'] # NULL
  BY <1>2, <1>5, <1>6, <1>7 DEF OwnLive
<1> QED
  BY <1>2, <1>3, <1>8 DEF OwnLive

\* Every step keeps OwnLive.
LEMMA OwnStep ==
  ASSUME SetsInv, HeapInv, OwnLive, [Next]_vars
  PROVE  OwnLive'
<1> USE ConstantFacts DEF SetsInv, sets, inserts, heap
<1>1. CASE (\E p \in Pk : OtherInserts(p)) \/ UNCHANGED work
  <2>1. UNCHANGED <<row_cnt, accesses, lock_cnt, rowBlock, rc, live, Filled>>
    BY <1>1 DEF OtherInserts, work, Filled
  <2>2. \A p \in Pk : index'[p] = <<"own", p>> => index[p] = <<"own", p>>
    BY <1>1 DEF OtherInserts, work, WorkTypeOK
  <2> QED
    BY <2>1, <2>2, OwnFrame
<1>2. CASE \/ commit \/ abort_txn \/ SortPass \/ Sorted \/ Validated \/ RowsReturned \/ Unlock
           \/ finish_return \/ \E ok \in BOOLEAN : LatchRow(ok)
  <2>1. /\ UNCHANGED <<row_cnt, accesses, index, rowBlock, live, Filled>>
        /\ rc' = "RCOK" => rc = "RCOK"
    BY <1>2 DEF commit, abort_txn, SortPass, Sorted, Validated, RowsReturned, Unlock, finish_return,
                LatchRow, Filled
  <2>2. 0..(lock_cnt' - 1) \subseteq Filled \cup 0..(lock_cnt - 1)
    BY <1>2 DEF commit, abort_txn, SortPass, Sorted, Validated, RowsReturned, Unlock, finish_return,
                LatchRow, Filled, LoopsOK, WorkTypeOK
  <2> QED
    BY <2>1, <2>2, OwnFrame
<1>3. CASE SortStep
  <2>1. /\ UNCHANGED <<row_cnt, lock_cnt, index, rowBlock, live, rc, Filled>> /\ lock_cnt = 0
        /\ Filled \subseteq Slot
    BY <1>3, FilledFacts DEF SortStep, LoopsOK, Filled
  <2>2. PICK a : a = j
    OBVIOUS
  <2>3. a \in Filled /\ a + 1 \in Filled
    BY <1>3, <2>2, SortStepFacts
  <2>4. \A s \in Filled : \E t \in Filled : accesses'[s] = accesses[t]
    BY <1>3, <2>1, <2>2, <2>3 DEF SortStep, WorkTypeOK
  <2> QED
    BY <2>1, <2>4, OwnFrame
<1>4. CASE return_row
  <2>1. /\ UNCHANGED <<row_cnt, lock_cnt, index, rowBlock, rc, Filled>> /\ Filled \subseteq Slot
        /\ i \in Slot /\ 0..(lock_cnt - 1) \subseteq Slot
    BY <1>4, FilledFacts, LockedFacts DEF return_row, LoopsOK, Filled, WorkTypeOK, Slot
  <2>2. \A s \in Filled \cup 0..(lock_cnt - 1) : accesses'[s].orig_row = accesses[s].orig_row
    BY <1>4, <2>1, FilledFacts, LockedFacts DEF return_row, WorkTypeOK, Access
  <2>3. PICK d : d = accesses[i].data
    OBVIOUS
  <2>4. [id |-> d, kind |-> "copy"] \in live
    BY <1>4, <2>3 DEF return_row, HeapInv, HeldCopies, CopySlots, WorkTypeOK
  <2>5. \A b \in live : b.kind = "row" => b.id # d
    BY <2>4 DEF HeapInv, HeapOK
  <2>6. \A b \in live : b.kind = "row" => b \in live'
    BY <1>4, <2>3, <2>5 DEF return_row, Free
  <2> QED
    BY <2>1, <2>2, <2>6, OwnFrame
<1>5. CASE FreeInserted
  <2>1. UNCHANGED <<row_cnt, accesses, lock_cnt, index, rowBlock, rc, Filled>> /\ rc = "Abort"
    BY <1>5 DEF FreeInserted, Filled, LoopsOK
  <2> QED
    BY <2>1, OwnFrame
<1>6. CASE Reset
  <2>1. UNCHANGED <<accesses, lock_cnt, index, rowBlock, rc, live>> /\ Filled' = {}
    BY <1>6 DEF Reset, Filled
  <2> QED
    BY <2>1, OwnFrame
<1> QED
  BY <1>1, <1>2, <1>3, <1>4, <1>5, <1>6, OwnUse, OwnInsert, NextCases DEF Call, Step

\* The row of an access, freed though no other transaction has freed one.
LEMMA FreedOwn ==
  ASSUME SetsInv, OwnLive, gone = {}, NEW s \in Filled \cup 0..(lock_cnt - 1), FreedAt(s)
  PROVE  rc = "Abort" /\ key_at(s) \in Pk /\ accesses[s].orig_row = <<"own", key_at(s)>>
<1>1. accesses[s].orig_row \in Row /\ key_at(s) \in Pk
  BY FilledFacts, LockedFacts
<1>2. PICK r : r = accesses[s].orig_row
  OBVIOUS
<1>3. r = <<r[1], key_at(s)>> /\ r[1] \in {"own", "other"}
  BY <1>1, <1>2 DEF Row, key_at, get_primary_key
<1>4. r[1] = "own" /\ \A b \in live : b.id # rowBlock[key_at(s)]
  BY <1>2, <1>3 DEF FreedAt, Freed, key_at
<1>5. rowBlock[key_at(s)] # NULL
  BY <1>2, <1>4 DEF OwnLive
<1>6. rc # "RCOK"
  BY <1>1, <1>4, <1>5 DEF OwnLive
<1> QED
  BY <1>1, <1>2, <1>3, <1>4, <1>6 DEF SetsInv, WorkTypeOK

\* The transaction uses no row that it has freed itself, but in the release loop
\* of a validation that failed.
THEOREM FreedUsesAreLate == Spec => []OnlyReleaseUsesFreed
<1>1. Init => OwnLive /\ OnlyReleaseUsesFreed
  <2> SUFFICES ASSUME Init PROVE OwnLive /\ OnlyReleaseUsesFreed
    OBVIOUS
  <2>1. Filled = {} /\ 0..(lock_cnt - 1) = {} /\ \A p \in Pk : rowBlock[p] = NULL /\ index[p] = NULL
    BY DEF Init, Filled
  <2>2. \A p \in Pk : index[p] # <<"own", p>>
    BY <2>1, ConstantFacts
  <2> QED
    BY <2>1, <2>2 DEF Init, OwnLive, OnlyReleaseUsesFreed
<1>2. ASSUME SetsInv, OrderInv, OwnLive, OnlyReleaseUsesFreed, [Next]_vars
      PROVE  OnlyReleaseUsesFreed'
  <2>1. CASE ~faulted'
    BY <2>1 DEF OnlyReleaseUsesFreed
  <2>2. CASE UNCHANGED vars
    BY <1>2, <2>2 DEF vars, work, OnlyReleaseUsesFreed
  <2>3. CASE Fault
    <3>1. CASE gone # {}
      BY <2>3, <3>1 DEF Fault, OnlyReleaseUsesFreed
    <3>2. ASSUME gone = {} PROVE OnlyReleaseUsesFreed'
      <4>1. pc = "ready" => ~\E p \in Pk : index[p] # NULL /\ Freed(index[p])
        <5> SUFFICES ASSUME pc = "ready", NEW p \in Pk, index[p] # NULL PROVE ~Freed(index[p])
          OBVIOUS
        <5>1. index[p] \in Row /\ get_primary_key(index[p]) = p /\ rc = "RCOK"
          BY <1>2 DEF SetsInv, WorkTypeOK, IndexOK, LoopsOK
        <5>2. index[p] = <<index[p][1], p>>
          BY <5>1 DEF Row, get_primary_key
        <5>3. index[p][1] = "own" => \E b \in live : b.id = rowBlock[p]
          BY <1>2, <5>1, <5>2 DEF OwnLive
        <5> QED
          BY <3>2, <5>1, <5>3 DEF Freed
      <4>2. pc = "sort" /\ i > 0 /\ j < i => rc = "RCOK" /\ j \in Filled /\ j + 1 \in Filled
        BY <1>2 DEF SetsInv, LoopsOK, WorkTypeOK, Filled
      <4>3. pc \in {"latch", "cleanup"} /\ rc = "RCOK" /\ 0 <= i /\ i < row_cnt => i \in Filled
        BY <1>2 DEF SetsInv, WorkTypeOK, Filled
      <4>4. pc = "unlock" /\ i < lock_cnt => i \in 0..(lock_cnt - 1) /\ i \in HeldSlots
        BY <1>2 DEF SetsInv, LoopsOK, WorkTypeOK, HeldSlots
      <4>5. pc = "latch" /\ rc = "RCOK" => 0 <= i
        BY <1>2 DEF SetsInv, LoopsOK
      <4>6. pc = "cleanup" => i < row_cnt
        BY <1>2 DEF SetsInv, LoopsOK
      <4>7. \A s \in Filled \cup 0..(lock_cnt - 1) :
              FreedAt(s) => rc = "Abort" /\ key_at(s) \in Pk /\ accesses[s].orig_row = <<"own", key_at(s)>>
        BY <1>2, <3>2, FreedOwn
      <4>8. pc = "unlock" /\ i < lock_cnt /\ FreedAt(i)
        BY <2>3, <4>1, <4>2, <4>3, <4>5, <4>6, <4>7 DEF Fault, Undefined
      <4>9. accesses[i].orig_row \in latched
        BY <1>2, <4>4, <4>8 DEF OrderInv, LatchOrderOK
      <4> QED
        BY <2>3, <4>4, <4>7, <4>8, <4>9 DEF Fault, work, OnlyReleaseUsesFreed
    <3> QED
      BY <3>1, <3>2
  <2> QED
    BY <1>2, <2>1, <2>2, <2>3 DEF Next, Runs, OtherFrees, Stopped
<1> QED
  BY <1>1, <1>2, SetsInvariant, HeapInvariant, OrderInvariant, OwnStep, PTL DEF Spec
-----------------------------------------------------------------------------
(* The engine's view *)

abstractVars == <<SetView, latched, OutView, AtView>>

\* The accesses are the transaction's until cleanup.
InUse == pc \in {"ready", "sort", "latch"}

\* An access without its local copy.
Entry(s) == [type |-> accesses[s].type, row |-> accesses[s].orig_row]

\* The view holds the accesses in use, and nothing else.
ViewOK ==
  /\ InUse => /\ \A s \in Filled : SetView[key_at(s)] = Entry(s)
              /\ \A p \in Pk : (\A s \in Filled : key_at(s) # p) => SetView[p] = NULL
  /\ ~InUse => SetView = Abstract!Empty

\* The abstract state that a state of TxnSets shows is well formed.
LEMMA ViewFacts == SetsInv => ViewOK
<1> SUFFICES ASSUME SetsInv PROVE ViewOK
  OBVIOUS
<1>1. ASSUME InUse, NEW s \in Filled PROVE SetView[key_at(s)] = Entry(s)
  <2> DEFINE p == key_at(s)
             c == CHOOSE t \in Filled : key_at(t) = p
  <2>1. p \in Pk
    BY <1>1, FilledFacts
  <2>2. c \in Filled /\ key_at(c) = p
    BY <1>1
  <2>3. c = s
    BY <1>1, <2>2 DEF SetsInv, OneAccessPerKey
  <2>4. SetView[p] = Entry(c)
    BY <1>1, <2>1 DEF SetView, InUse, Entry
  <2> QED
    BY <2>3, <2>4
<1>2. ASSUME InUse, NEW p \in Pk, \A s \in Filled : key_at(s) # p PROVE SetView[p] = NULL
  BY <1>2 DEF SetView
<1>3. ASSUME ~InUse PROVE SetView = Abstract!Empty
  BY <1>3 DEF SetView, InUse, Abstract!Empty
<1> QED
  BY <1>1, <1>2, <1>3 DEF ViewOK

\* The same of the next state.
LEMMA NextViewFacts == SetsInv' => ViewOK'
BY ViewFacts, PTL

\* Two views with the same entries are the same.
LEMMA ViewsEqual ==
  ASSUME \A p \in Pk : SetView'[p] = SetView[p]
  PROVE  SetView' = SetView
BY DEF SetView

\* Steps that keep the entries of the slots in use, in whatever order.
LEMMA SameView ==
  ASSUME SetsInv, SetsInv', InUse, InUse', UNCHANGED row_cnt,
         \A s \in Filled : \E t \in Filled : Entry(s) = Entry(t)',
         \A s \in Filled : \E t \in Filled : Entry(s)' = Entry(t)
  PROVE  SetView' = SetView
<1>1. ViewOK /\ ViewOK' /\ Filled' = Filled
  BY ViewFacts, NextViewFacts DEF Filled
<1>2. /\ \A s \in Filled, t \in Filled : Entry(s) = Entry(t)' => key_at(s) = key_at(t)'
  BY DEF Entry, key_at
<1>3. ASSUME NEW p \in Pk PROVE SetView'[p] = SetView[p]
  <2>1. CASE \E s \in Filled : key_at(s) = p
    <3>1. PICK s \in Filled : key_at(s) = p
      BY <2>1
    <3>2. PICK t \in Filled : Entry(s) = Entry(t)'
      OBVIOUS
    <3> QED
      BY <1>1, <1>2, <3>1, <3>2 DEF ViewOK
  <2>2. CASE \A s \in Filled : key_at(s) # p
    <3>1. \A t \in Filled : key_at(t)' # p
      BY <1>2, <2>2
    <3> QED
      BY <1>1, <2>2, <3>1 DEF ViewOK
  <2> QED
    BY <2>1, <2>2
<1> QED
  BY <1>3, ViewsEqual

\* The rows of the view, and those it is to write.
LEMMA ViewRows ==
  ASSUME SetsInv, InUse
  PROVE  /\ Abstract!Rows = {accesses[s].orig_row : s \in Filled}
         /\ Abstract!Writes = {accesses[s].orig_row : s \in Writing}
<1>1. ViewOK
  BY ViewFacts
<1>2. \A s \in Filled : /\ key_at(s) \in Pk /\ SetView[key_at(s)] = Entry(s) /\ Entry(s) # NULL
                        /\ SetView[key_at(s)].row = accesses[s].orig_row
                        /\ SetView[key_at(s)].type = accesses[s].type
  <2>1. \A s \in Filled : key_at(s) \in Pk /\ SetView[key_at(s)] = Entry(s)
    BY <1>1, FilledFacts DEF ViewOK
  <2>2. \A s \in Filled : Entry(s) # NULL
    BY NullIsNoEntry, FilledFacts DEF Entry
  <2> QED
    BY <2>1, <2>2 DEF Entry
<1>3. \A p \in Pk : SetView[p] # NULL => \E s \in Filled : key_at(s) = p
  BY <1>1 DEF ViewOK
<1>4. Abstract!Rows = {accesses[s].orig_row : s \in Filled}
  BY <1>2, <1>3 DEF Abstract!Rows
<1>5. Abstract!Writes = {accesses[s].orig_row : s \in Writing}
  <2>1. \A s \in Filled : get_primary_key(accesses[s].orig_row) = key_at(s)
    BY DEF key_at
  <2> QED
    BY <1>2, <1>4, <2>1 DEF Abstract!Writes, Writing
<1> QED
  BY <1>4, <1>5

\* Nothing is written, or bound to be, before the validation or after an abort.
OutOK == InUse \/ rc = "Abort" => OutView = {}

\* The rows that the abstract transaction writes and gives back.
LEMMA OutFacts == OrderInv => OutOK
BY DEF OrderInv, NothingWritten, OutOK, OutView, InUse

\* The same of the next state.
LEMMA NextOutFacts == OrderInv' => OutOK'
BY OutFacts, PTL

\* The sort, the rows that others insert, and cleanup are not seen.
LEMMA QuietSteps ==
  ASSUME SetsInv, SetsInv', OrderInv, OrderInv',
         \/ SortStep \/ SortPass \/ Sorted \/ return_row \/ RowsReturned \/ FreeInserted \/ Reset
         \/ (\E p \in Pk : OtherInserts(p)) \/ UNCHANGED work
  PROVE  UNCHANGED abstractVars
<1> USE DEF abstractVars
<1>1. /\ ViewOK /\ ViewOK' /\ OutOK /\ OutOK' /\ UNCHANGED latched
      /\ i \in Int /\ Filled \subseteq Slot
  BY ViewFacts, NextViewFacts, OutFacts, NextOutFacts, FilledFacts, ConstantFacts
     DEF SortStep, SortPass, Sorted, return_row, RowsReturned, FreeInserted, Reset, OtherInserts,
         work, SetsInv, WorkTypeOK
<1>2. CASE SortStep \/ SortPass \/ Sorted
  <2>1. InUse /\ InUse' /\ UNCHANGED AtView /\ UNCHANGED row_cnt
    BY <1>2 DEF SortStep, SortPass, Sorted, sets, InUse, AtView
  <2>2. /\ \A s \in Filled : \E t \in Filled : Entry(s) = Entry(t)'
        /\ \A s \in Filled : \E t \in Filled : Entry(s)' = Entry(t)
    <3>1. CASE accesses' = accesses
      BY <3>1 DEF Entry
    <3>2. ASSUME SortStep, NEW a, a = j, accesses' = Swap(a) PROVE <2>2
      <4>1. a \in Filled /\ a + 1 \in Filled
        BY <3>2, SortStepFacts
      <4>2. \A s \in Filled : Other(a, s) \in Filled /\ Entry(s)' = Entry(Other(a, s))
        BY <1>1, <3>2, <4>1, SwapFacts DEF Entry
      <4>3. \A s \in Filled : Other(a, Other(a, s)) = s
        BY <4>1, FilledFacts DEF Other
      <4>4. \A s \in Filled : Entry(Other(a, s))' = Entry(s)
        BY <4>2, <4>3
      <4> QED
        BY <4>2, <4>4
    <3>3. CASE SortPass \/ Sorted
      BY <3>1, <3>3 DEF SortPass, Sorted, sets
    <3> QED
      BY <1>2, <3>1, <3>2, <3>3, SortStepFacts
  <2> QED
    BY <1>1, <2>1, <2>2, SameView DEF OutOK
<1>3. CASE return_row
  <2>0. PICK a : a = i
    OBVIOUS
  <2>1. /\ ~InUse /\ ~InUse' /\ UNCHANGED <<AtView, rc>> /\ pc = "cleanup" /\ pc' = "cleanup"
        /\ a \in Nat /\ i' = a - 1
        /\ written' = IF accesses[a].type = "WR" /\ rc = "RCOK"
                      THEN written \cup {accesses[a].orig_row} ELSE written
    BY <1>1, <1>3, <2>0 DEF return_row, write, InUse, AtView
  <2>2. \A s \in 0..a : s \in Slot /\ accesses[s] # NULL
    <3>1. \A s \in 0..a : s \in Filled
      BY <2>0, <2>1, ConstantFacts DEF SetsInv, LoopsOK, WorkTypeOK, Filled
    <3> QED
      BY <3>1, FilledFacts
  <2>3. \A s \in 0..a : accesses'[s].type = accesses[s].type /\ accesses'[s].orig_row = accesses[s].orig_row
    BY <1>3, <2>2, ReturnFacts
  <2>4. 0..a = 0..(a - 1) \cup {a}
    BY <2>1
  <2>5. CASE rc = "RCOK"
    <3>1. OutView = written \cup {accesses[s].orig_row : s \in {n \in 0..a : accesses[n].type = "WR"}}
      BY <2>0, <2>1, <2>5 DEF OutView
    <3>2. OutView' = written' \cup {accesses[s].orig_row : s \in {n \in 0..(a - 1) : accesses[n].type = "WR"}}
      <4>1. OutView' = written' \cup {accesses'[s].orig_row : s \in {n \in 0..(a - 1) : accesses'[n].type = "WR"}}
        BY <2>1, <2>5 DEF OutView
      <4>2. {n \in 0..(a - 1) : accesses'[n].type = "WR"} = {n \in 0..(a - 1) : accesses[n].type = "WR"}
        BY <2>3, <2>4
      <4>3. \A s \in 0..(a - 1) : accesses'[s].orig_row = accesses[s].orig_row
        BY <2>3, <2>4
      <4> QED
        BY <4>1, <4>2, <4>3
    <3> QED
      BY <1>1, <2>1, <2>4, <2>5, <3>1, <3>2 DEF ViewOK
  <2>6. CASE rc = "Abort"
    BY <1>1, <2>1, <2>6 DEF ViewOK, OutOK
  <2> QED
    BY <2>5, <2>6 DEF SetsInv, WorkTypeOK
<1>4. CASE RowsReturned
  <2>1. 0..i = {}
    BY <1>1, <1>4 DEF RowsReturned
  <2>2. /\ ~InUse /\ ~InUse' /\ UNCHANGED AtView /\ OutView = written /\ OutView' = written'
        /\ UNCHANGED written
    BY <1>4, <2>1 DEF RowsReturned, InUse, AtView, OutView
  <2> QED
    BY <1>1, <2>2 DEF ViewOK
<1>5. CASE FreeInserted \/ Reset
  BY <1>1, <1>5 DEF FreeInserted, Reset, InUse, AtView, OutView, ViewOK
<1>6. CASE (\E p \in Pk : OtherInserts(p)) \/ UNCHANGED work
  BY <1>6 DEF OtherInserts, work, sets, SetView, OutView, AtView, Filled, key_at
<1> QED
  BY <1>2, <1>3, <1>4, <1>5, <1>6

\* A new access, a read that becomes a write, and the others that change nothing.
LEMMA AccessSeen ==
  ASSUME SetsInv, SetsInv', OrderInv, OrderInv', pc = "ready", pc' = "ready", UNCHANGED latched,
         NEW r \in Row, NEW type \in {"RD", "WR"}, NEW b, NEW ok \in BOOLEAN,
         CachedRow(r, type) \/ UncachedRow(r, type, b, ok)
  PROVE  [Abstract!Next]_abstractVars
<1>1. /\ ViewOK /\ ViewOK' /\ OutOK /\ OutOK' /\ InUse /\ InUse'
      /\ OutView' = OutView /\ AtView = "running" /\ AtView' = "running"
  BY ViewFacts, NextViewFacts, OutFacts, NextOutFacts DEF InUse, OutOK, AtView
<1>2. \A q \in Row, y \in {"RD", "WR"} :
        /\ \/ SetView[get_primary_key(q)] = NULL
           \/ SetView[get_primary_key(q)] = [type |-> "RD", row |-> q] /\ y = "WR"
        /\ SetView' = [SetView EXCEPT ![get_primary_key(q)] = [type |-> y, row |-> q]]
        => Abstract!Next
  BY <1>1 DEF Abstract!Next, Abstract!Access
<1>3. Filled \subseteq Slot /\ row_cnt \in Nat /\ DOMAIN SetView = Pk
  BY FilledFacts, ConstantFacts DEF SetsInv, WorkTypeOK, SetView
<1>4. CASE CachedRow(r, type)
  <2>0. PICK s, o : s = record_pos[get_primary_key(r)] /\ o = accesses[s].orig_row
    OBVIOUS
  <2>1. s \in Filled /\ s \in Slot /\ accesses[s] \in Access /\ o \in Row
    BY <1>4, <2>0, FilledFacts, ConstantFacts DEF CachedRow, SetsInv, PositionsAgree
  <2>2. Filled' = Filled
    BY <1>4 DEF CachedRow, Filled
  <2>3. CASE accesses' = accesses
    BY <1>1, <1>4, <2>3, SameView DEF CachedRow, Entry, abstractVars
  <2>4. CASE accesses[s].type = "RD" /\ type = "WR" /\ accesses' = [accesses EXCEPT ![s].type = "WR"]
    <3>1. Entry(s) = [type |-> "RD", row |-> o] /\ Entry(s)' = [type |-> "WR", row |-> o]
      BY <2>0, <2>1, <2>4 DEF Entry, SetsInv, WorkTypeOK, Access
    <3>2. \A t \in Filled \ {s} : Entry(t)' = Entry(t)
      BY <1>3, <2>1, <2>4 DEF Entry, SetsInv, WorkTypeOK
    <3>3. \A t \in Filled : key_at(t)' = key_at(t)
      <4>1. key_at(s)' = key_at(s)
        BY <2>0, <3>1 DEF Entry, key_at
      <4> QED
        BY <3>2, <4>1 DEF Entry, key_at
    <3>4. key_at(s) = get_primary_key(o) /\ get_primary_key(o) \in Pk
      BY <2>0, <2>1, ConstantFacts DEF key_at
    <3>5. SetView[get_primary_key(o)] = [type |-> "RD", row |-> o]
      BY <1>1, <2>1, <3>1, <3>4 DEF ViewOK
    <3>6. SetView'[get_primary_key(o)] = [type |-> "WR", row |-> o]
      BY <1>1, <2>1, <2>2, <3>1, <3>3, <3>4 DEF ViewOK
    <3>7. \A q \in Pk \ {get_primary_key(o)} : SetView'[q] = SetView[q]
      <4> SUFFICES ASSUME NEW q \in Pk \ {get_primary_key(o)} PROVE SetView'[q] = SetView[q]
        OBVIOUS
      <4>1. CASE \E t \in Filled : key_at(t) = q
        <5>1. PICK t \in Filled : key_at(t) = q
          BY <4>1
        <5>2. t # s
          BY <3>4, <5>1
        <5> QED
          BY <1>1, <2>2, <3>2, <3>3, <5>1, <5>2 DEF ViewOK
      <4>2. CASE \A t \in Filled : key_at(t) # q
        BY <1>1, <2>2, <3>3, <4>2 DEF ViewOK
      <4> QED
        BY <4>1, <4>2
    <3>8. SetView' = [SetView EXCEPT ![get_primary_key(o)] = [type |-> "WR", row |-> o]]
      BY <1>3, <3>4, <3>6, <3>7 DEF SetView
    <3> QED
      BY <1>2, <2>1, <2>4, <3>5, <3>8
  <2> QED
    BY <1>4, <2>0, <2>3, <2>4 DEF CachedRow, Upgrade
<1>5. CASE UncachedRow(r, type, b, ok)
  <2>0. PICK s : s = row_cnt
    OBVIOUS
  <2> DEFINE p == get_primary_key(r)
  <2>1. p \in Pk /\ record_pos[p] = NULL /\ s \in Slot /\ s \notin Filled
    BY <1>3, <1>5, <2>0, ConstantFacts DEF UncachedRow, Filled
  <2>2. \A t \in Filled : accesses'[t] = accesses[t]
    BY <1>3, <1>5, <2>0, <2>1 DEF UncachedRow, SetsInv, WorkTypeOK
  <2>3. CASE row_cnt' = row_cnt
    BY <1>1, <2>2, <2>3, SameView DEF Entry, abstractVars
  <2>4. CASE /\ accesses' = [accesses EXCEPT ![s] = [type |-> type, orig_row |-> r, data |-> b]]
             /\ row_cnt' = s + 1
    <3>1. Filled' = Filled \cup {s}
      BY <1>3, <2>0, <2>4 DEF Filled
    <3>2. Entry(s)' = [type |-> type, row |-> r] /\ key_at(s)' = p
      BY <2>1, <2>4 DEF Entry, key_at, SetsInv, WorkTypeOK
    <3>3. \A t \in Filled : Entry(t)' = Entry(t) /\ key_at(t)' = key_at(t) /\ key_at(t) # p
      BY <1>3, <2>1, <2>2, ConstantFacts DEF Entry, key_at, SetsInv, PositionsAgree
    <3>4. SetView[p] = NULL /\ SetView'[p] = [type |-> type, row |-> r]
      BY <1>1, <2>1, <3>1, <3>2, <3>3 DEF ViewOK
    <3>5. \A q \in Pk \ {p} : SetView'[q] = SetView[q]
      <4> SUFFICES ASSUME NEW q \in Pk \ {p} PROVE SetView'[q] = SetView[q]
        OBVIOUS
      <4>1. CASE \E t \in Filled : key_at(t) = q
        BY <1>1, <3>1, <3>3, <4>1 DEF ViewOK
      <4>2. CASE \A t \in Filled : key_at(t) # q
        BY <1>1, <3>1, <3>2, <3>3, <4>2 DEF ViewOK
      <4> QED
        BY <4>1, <4>2
    <3>6. SetView' = [SetView EXCEPT ![p] = [type |-> type, row |-> r]]
      BY <1>3, <2>1, <3>4, <3>5 DEF SetView
    <3> QED
      BY <1>2, <3>4, <3>6
  <2> QED
    BY <1>5, <2>0, <2>3, <2>4 DEF UncachedRow
<1> QED
  BY <1>4, <1>5

\* The first of some rows of different keys.
LEMMA FirstIs ==
  ASSUME NEW S, S \subseteq Row, NEW r \in S,
         \A q \in S : q # r => get_primary_key(r) < get_primary_key(q)
  PROVE  Abstract!First(S) = r
<1>1. \A q \in S : get_primary_key(q) \in Nat
  BY ConstantFacts
<1>2. \A q \in S : get_primary_key(r) <= get_primary_key(q)
  BY <1>1
<1>3. \A x \in S : (\A q \in S : get_primary_key(x) <= get_primary_key(q)) => x = r
  BY <1>1
<1> QED
  BY <1>2, <1>3 DEF Abstract!First

\* validate begins, or the client gives up.
LEMMA EndSeen ==
  ASSUME SetsInv, SetsInv', OrderInv, OrderInv', commit \/ abort_txn
  PROVE  Abstract!Next
<1>1. /\ ViewOK /\ ViewOK' /\ OutOK /\ OutOK' /\ InUse /\ AtView = "running" /\ latched' = latched
      /\ OutView = {}
  BY ViewFacts, NextViewFacts, OutFacts, NextOutFacts DEF commit, abort_txn, InUse, OutOK, AtView
<1>2. CASE commit
  <2>1. InUse' /\ OutView' = {} /\ AtView' = "validating" /\ UNCHANGED <<row_cnt, accesses>>
    BY <1>1, <1>2 DEF commit, InUse, OutOK, AtView, sets
  <2>2. SetView' = SetView
    BY <1>1, <2>1, SameView DEF Entry
  <2> QED
    BY <1>1, <2>1, <2>2 DEF Abstract!Next, Abstract!Validate
<1>3. CASE abort_txn
  <2>1. ~InUse' /\ OutView' = {} /\ AtView' = "aborted"
    BY <1>1, <1>3 DEF abort_txn, InUse, OutOK, AtView
  <2> QED
    BY <1>1, <2>1 DEF ViewOK, Abstract!Next, Abstract!Abort
<1> QED
  BY <1>2, <1>3

\* validate latches the least of the rows that it has not latched yet.
LEMMA LatchSeen ==
  ASSUME SetsInv, SetsInv', OrderInv, OrderInv', NEW ok \in BOOLEAN, LatchRow(ok)
  PROVE  Abstract!Next
<1>0. PICK a : a = i
  OBVIOUS
<1>1. /\ OutOK /\ OutOK' /\ InUse /\ InUse' /\ AtView = "validating" /\ AtView' = "validating"
      /\ OutView = {} /\ OutView' = {} /\ UNCHANGED <<row_cnt, accesses>>
  BY OutFacts, NextOutFacts DEF LatchRow, InUse, OutOK, AtView, sets
<1>2. SetView' = SetView
  BY <1>1, SameView DEF Entry
<1>3. /\ a \in Nat /\ a < row_cnt /\ row_cnt \in Nat /\ lock_cnt = a /\ pc = "latch"
      /\ latched' = latched \cup {accesses[a].orig_row}
  BY <1>0, ConstantFacts DEF LatchRow, latch, SetsInv, LoopsOK, WorkTypeOK
<1>4. a \in Filled /\ HeldSlots = 0..(a - 1) /\ \A s \in Filled : s \notin 0..(a - 1) => s = a \/ a < s
  BY <1>3 DEF Filled, HeldSlots
<1>5. /\ latched = {accesses[s].orig_row : s \in 0..(a - 1)} /\ 0..(a - 1) \subseteq Filled
      /\ \A s \in Filled, t \in Filled : s < t => key_at(s) < key_at(t)
  BY <1>3, <1>4 DEF OrderInv, LatchOrderOK, Filled
<1>6. Abstract!Rows = {accesses[s].orig_row : s \in Filled}
  BY <1>1, ViewRows
<1>7. \A s \in Filled, t \in Filled : accesses[s].orig_row = accesses[t].orig_row => s = t
  BY DEF SetsInv, OneAccessPerKey, key_at
<1>8. Abstract!Rows \ latched = {accesses[s].orig_row : s \in Filled \ 0..(a - 1)}
  BY <1>5, <1>6, <1>7
<1>9. accesses[a].orig_row \in Abstract!Rows \ latched
  BY <1>3, <1>4, <1>8
<1>10. Abstract!First(Abstract!Rows \ latched) = accesses[a].orig_row
  <2>1. Abstract!Rows \ latched \subseteq Row
    BY <1>6, FilledFacts
  <2>2. \A q \in Abstract!Rows \ latched :
          q # accesses[a].orig_row => get_primary_key(accesses[a].orig_row) < get_primary_key(q)
    <3>1. \A s \in Filled \ 0..(a - 1) : s = a \/ key_at(a) < key_at(s)
      BY <1>4, <1>5
    <3> QED
      BY <1>8, <3>1 DEF key_at
  <2> QED
    BY <1>9, <2>1, <2>2, FirstIs
<1> QED
  BY <1>1, <1>2, <1>3, <1>9, <1>10 DEF Abstract!Next, Abstract!Latch

\* validate goes on to write when it holds the latches of all the rows.
LEMMA ValidatedSeen ==
  ASSUME SetsInv, SetsInv', OrderInv, OrderInv', Validated
  PROVE  Abstract!Next
<1>1. /\ ViewOK' /\ OutOK /\ OutOK' /\ InUse /\ ~InUse' /\ AtView = "validating" /\ latched' = latched
      /\ OutView = {} /\ rc' = rc /\ written = {} /\ written' = {}
      /\ AtView' = IF rc = "RCOK" THEN "committed" ELSE "aborted"
  BY NextViewFacts, OutFacts, NextOutFacts
     DEF Validated, InUse, OutOK, AtView, OrderInv, NothingWritten
<1>2. SetView' = Abstract!Empty
  BY <1>1 DEF ViewOK
<1>3. CASE rc = "Abort"
  <2>1. OutView' = {}
    BY <1>1, <1>3 DEF OutOK
  <2> QED
    BY <1>1, <1>2, <1>3, <2>1 DEF Abstract!Next, Abstract!Abort
<1>4. CASE rc = "RCOK"
  <2>1. /\ row_cnt \in Nat /\ lock_cnt = row_cnt /\ pc = "latch" /\ pc' = "cleanup" /\ i' = row_cnt - 1
        /\ UNCHANGED <<accesses, row_cnt>>
    BY <1>4, ConstantFacts DEF Validated, SetsInv, LoopsOK, WorkTypeOK, sets
  <2>2. HeldSlots = Filled
    BY <2>1 DEF HeldSlots, Filled
  <2>3. latched = Abstract!Rows
    BY <1>1, <2>2, ViewRows DEF OrderInv, LatchOrderOK
  <2>4. OutView' = {accesses[s].orig_row : s \in Writing}
    BY <1>1, <1>4, <2>1 DEF OutView, Writing, Filled
  <2>5. OutView' = Abstract!Writes
    BY <1>1, <2>4, ViewRows
  <2> QED
    BY <1>1, <1>2, <1>4, <2>3, <2>5 DEF Abstract!Next, Abstract!Commit
<1> QED
  BY <1>3, <1>4 DEF SetsInv, WorkTypeOK

\* The unlock loop releases in the order of the keys, and all of them.
LEMMA UnlockSeen ==
  ASSUME SetsInv, SetsInv', OrderInv, OrderInv', Unlock \/ finish_return
  PROVE  Abstract!Next
<1>0. PICK a : a = i
  OBVIOUS
<1>1. /\ ViewOK /\ ViewOK' /\ ~InUse /\ ~InUse' /\ pc = "unlock" /\ pc' \in {"unlock", "done"}
      /\ AtView \in {"committed", "aborted"} /\ UNCHANGED <<OutView, rc, written>>
      /\ a \in Nat /\ lock_cnt \in Nat
  BY <1>0, ViewFacts, NextViewFacts, ConstantFacts
     DEF Unlock, finish_return, InUse, AtView, OutView, SetsInv, WorkTypeOK, LoopsOK
<1>2. SetView' = SetView
  BY <1>1 DEF ViewOK, Abstract!Empty
<1>3. HeldSlots = a..(lock_cnt - 1) /\ latched = {accesses[s].orig_row : s \in a..(lock_cnt - 1)}
  BY <1>0, <1>1 DEF HeldSlots, OrderInv, LatchOrderOK
<1>4. CASE Unlock
  <2>1. a < lock_cnt /\ latched' = latched \ {accesses[a].orig_row} /\ AtView' = AtView
    BY <1>0, <1>1, <1>4 DEF Unlock, release, AtView
  <2>2. a \in 0..(lock_cnt - 1) /\ \A s \in a..(lock_cnt - 1) : s \in 0..(lock_cnt - 1) /\ (s = a \/ a < s)
    BY <1>1, <2>1
  <2>3. \A s \in a..(lock_cnt - 1) : s = a \/ key_at(a) < key_at(s)
    BY <2>2 DEF OrderInv, LatchOrderOK
  <2>4. accesses[a].orig_row \in latched
    BY <1>1, <1>3, <2>1
  <2>5. latched \subseteq Row
    BY DEF SetsInv, WorkTypeOK
  <2>6. \A q \in latched : q # accesses[a].orig_row => get_primary_key(accesses[a].orig_row) < get_primary_key(q)
    BY <1>3, <2>3 DEF key_at
  <2>7. Abstract!First(latched) = accesses[a].orig_row
    BY <2>4, <2>5, <2>6, FirstIs
  <2> QED
    BY <1>1, <1>2, <2>1, <2>4, <2>7 DEF Abstract!Next, Abstract!Unlatch
<1>5. CASE finish_return
  <2>1. a >= lock_cnt /\ latched' = latched /\ AtView' = "done"
    BY <1>0, <1>5 DEF finish_return, AtView
  <2>2. latched = {}
    BY <1>1, <1>3, <2>1
  <2> QED
    BY <1>1, <1>2, <2>1, <2>2 DEF Abstract!Next, Abstract!Return
<1> QED
  BY <1>4, <1>5

\* An initial state shows an initial state of AccessSet.
LEMMA InitSeen == Init => Abstract!Init
<1> SUFFICES ASSUME Init PROVE Abstract!Init
  OBVIOUS
<1>1. Filled = {}
  BY DEF Init, Filled
<1> QED
  BY <1>1 DEF Init, Abstract!Init, Abstract!Empty, SetView, OutView, AtView

\* A step shows a step of AccessSet or none.
LEMMA StepSeen ==
  ASSUME SetsInv, SetsInv', OrderInv, OrderInv', [Next]_vars
  PROVE  [Abstract!Next]_abstractVars
<1>1. ASSUME NEW p \in Pk, Insert(p) PROVE [Abstract!Next]_abstractVars
  BY <1>1, AccessSeen, ConstantFacts DEF Insert
<1>2. ASSUME NEW p \in Pk, NEW type \in {"RD", "WR"}, Use(p, type)
      PROVE  [Abstract!Next]_abstractVars
  <2>1. index[p] \in Row /\ pc = "ready" /\ pc' = "ready" /\ UNCHANGED latched
    BY <1>2 DEF Use, SetsInv, WorkTypeOK
  <2> QED
    BY <1>2, <2>1, AccessSeen DEF Use
<1> QED
  BY <1>1, <1>2, QuietSteps, EndSeen, LatchSeen, ValidatedSeen, UnlockSeen, NextCases
     DEF Call, Step

\* The array of accesses, its sort, cleanup and the two loops of validate are to
\* the engine what module AccessSet promises: one access per primary key, latches
\* taken in the order of the keys, each once, and given back, and exactly the
\* accesses for writing written - whatever is refused, inserted by others or
\* turned from a read into a write in between.
THEOREM RefinesAccessSet == Spec => KeepsAccessSet
<1>1. Spec => Abstract!Init /\ [][Abstract!Next]_abstractVars
  BY SetsInvariant, OrderInvariant, InitSeen, StepSeen, PTL DEF Spec
<1> QED
  BY <1>1 DEF KeepsAccessSet, Abstract!Spec, Abstract!vars, abstractVars
=============================================================================
