---------------------------- MODULE TxnManProofs ----------------------------
(***************************************************************************)
(* Proofs about the transaction engine, for every number of transactions,  *)
(* keys and values: its invariant, and that it implements SerialKV and     *)
(* KvApi.                                                                  *)
(***************************************************************************)
EXTENDS TxnManInv, FiniteSetTheorems, TLAPS

LEMMA ConstantFacts ==
  /\ \A r \in Row : pk(r) \in Pk /\ owner(r) \in Txn \cup {Loader} /\ r = <<owner(r), pk(r)>>
  /\ \A o \in Txn \cup {Loader}, p \in Pk :
       <<o, p>> \in Row /\ owner(<<o, p>>) = o /\ pk(<<o, p>>) = p
  /\ LoadedPk \subseteq Pk
  /\ Pk \subseteq Nat
  /\ NULL \notin Txn /\ NULL \notin Value /\ NULL \notin Row /\ NULL \notin Access
  /\ \A k \in Key : hash_key[k] \in Pk
  /\ NoAccesses \in [Pk -> Access \cup {NULL}]
  /\ NoSnap \in [LoadedPk -> Value \cup {NULL}]
BY ConstantsAssumption, NullAssumption DEF Row, NoAccesses, NoSnap, Pk, LoadedPk, owner, pk

\* The row that init_engine made for a loaded primary key.
LEMMA LoadedRow ==
  ASSUME NEW p \in LoadedPk
  PROVE  p \in Pk /\ <<Loader, p>> \in Row /\ pk(<<Loader, p>>) = p /\ owner(<<Loader, p>>) = Loader
BY ConstantFacts

LEMMA WritesLoaded ==
  ASSUME NEW t \in Txn, NEW p \in LoadedPk
  PROVE  Writes(t, <<Loader, p>>) <=> /\ accesses[t][p] # NULL
                                     /\ accesses[t][p].orig_row = <<Loader, p>>
                                     /\ accesses[t][p].type = "WR"
BY DEF Writes, pk

LEMMA WritesFacts ==
  ASSUME TypeOK, NEW t \in Txn, NEW r \in Row, Writes(t, r)
  PROVE  /\ pk(r) \in Pk
         /\ accesses[t][pk(r)] # NULL
         /\ accesses[t][pk(r)] \in Access
         /\ accesses[t][pk(r)].orig_row = r
<1>1. pk(r) \in Pk
  BY ConstantFacts
<1>2. accesses[t] \in [Pk -> Access \cup {NULL}]
  BY DEF TypeOK
<1> QED
  BY <1>1, <1>2 DEF Writes

\* What is left of a value that is cut is a value.
LEMMA CutValue == \A v \in Value : val_buf[v] \in Value
  BY ConstantsAssumption

\* Committed values are values: used wherever snap is set.
LEMMA CommittedType ==
  ASSUME TypeOK, NEW p \in LoadedPk
  PROVE  Committed(p) \in Value
<1> USE ConstantFacts DEF TypeOK
<1>1. CASE \E t \in Txn : Pending(t, p)
  <2>1. PICK u \in Txn : u = CHOOSE t \in Txn : Pending(t, p)
    BY <1>1
  <2>2. Pending(u, p)
    BY <1>1, <2>1
  <2>3. accesses[u][p] \in Access
    BY <2>2, LoadedRow, WritesLoaded DEF Pending
  <2>4. accesses[u][p].data.val \in Value
    BY <2>3 DEF Access, RowData
  <2> QED
    BY <1>1, <2>1, <2>4 DEF Committed
<1>2. CASE ~\E t \in Txn : Pending(t, p)
  BY <1>2 DEF Committed, RowData
<1> QED
  BY <1>1, <1>2

LEMMA BeginStep == ASSUME IInv, NEW t \in Txn, begin_txn(t) PROVE IInv'
<1> USE ConstantFacts DEF IInv
<1>0. accesses[t] = NoAccesses
  BY DEF begin_txn, SetsOK, Running, Active
<1>1. TypeOK'
  <2>1. snap' \in [Txn -> [LoadedPk -> Value \cup {NULL}]]
    BY CommittedType DEF begin_txn, TypeOK
  <2> QED
    BY <2>1 DEF TypeOK, begin_txn, rowVars, PcSet
<1>2. TimeOK'
  BY DEF TypeOK, TimeOK, begin_txn, rowVars
<1>3. RowsOK' /\ InsertedOK'
  BY DEF RowsOK, InsertedOK, begin_txn, rowVars
<1>4. CallOK'
  BY DEF CallOK, begin_txn, rowVars, TypeOK
<1>5. SetsOK'
  BY DEF SetsOK, begin_txn, Running, Active, TypeOK
<1>6. LatchesMatch'
  BY DEF LatchesMatch, begin_txn, rowVars, TypeOK
<1>7. CommitLatched'
  BY DEF CommitLatched, begin_txn, rowVars, TypeOK
<1>8. CopiesOK'
  BY <1>0 DEF CopiesOK, begin_txn, rowVars, TypeOK, Running, Active, Writes, NoAccesses
<1>9. ValidatedOK'
  BY DEF ValidatedOK, begin_txn, rowVars, TypeOK, validate_row
<1>10. WriteAdvancesWts'
  BY DEF WriteAdvancesWts, begin_txn, rowVars, TypeOK, Writes
<1>11. ReadsAreCurrent'
  BY DEF ReadsAreCurrent, begin_txn, rowVars, TypeOK
<1> QED
  BY <1>1, <1>2, <1>3, <1>4, <1>5, <1>6, <1>7, <1>8, <1>9, <1>10, <1>11

\* A step that moves t from one point of a call to another, before validate,
\* and touches neither a row nor a read or write set.
LEMMA CallFrame ==
  ASSUME IInv, NEW t \in Txn, NEW next \in PcSet,
         pc[t] \in {"ready", "read", "update"},
         next \in {"ready", "read", "update", "insert", "validate"},
         pc' = [pc EXCEPT ![t] = next],
         UNCHANGED <<rowVars, txnVars>>,
         TypeOK', CallOK'
  PROVE  IInv'
<1> USE DEF IInv, rowVars, txnVars
<1>0. \A u \in Txn : (Active(u)' <=> Active(u)) /\ (pc'[u] = "commit" <=> pc[u] = "commit")
  BY DEF TypeOK, Active
<1>1. TimeOK' /\ RowsOK' /\ InsertedOK'
  BY DEF TimeOK, RowsOK, InsertedOK
<1>2. SetsOK'
  BY <1>0 DEF SetsOK, Running
<1>3. LatchesMatch'
  BY DEF LatchesMatch, TypeOK
<1>4. CommitLatched'
  BY <1>0 DEF CommitLatched
<1>5. CopiesOK'
  BY <1>0 DEF CopiesOK, Running, Writes
<1>6. ValidatedOK'
  BY DEF ValidatedOK, validate_row, LatchesMatch, TypeOK
<1>7. WriteAdvancesWts' /\ ReadsAreCurrent'
  BY <1>0 DEF WriteAdvancesWts, ReadsAreCurrent, Writes
<1> QED
  BY <1>1, <1>2, <1>3, <1>4, <1>5, <1>6, <1>7

LEMMA ProbeStep ==
  ASSUME IInv, NEW t \in Txn, NEW k \in Key, NEW v \in Value,
         GetAbsent(t, k) \/ GetFound(t, k) \/ PutAbsent(t, k, v) \/ PutFound(t, k, v)
  PROVE  IInv'
<1> USE ConstantFacts DEF IInv, rowVars, txnVars
<1>1. CASE GetAbsent(t, k)
  <2>1. TypeOK'
    BY <1>1 DEF TypeOK, GetAbsent, Return, PcSet
  <2>2. CallOK'
    BY <1>1 DEF CallOK, GetAbsent, Return, TypeOK
  <2> QED
    BY <1>1, <2>1, <2>2, CallFrame DEF GetAbsent, Return, PcSet
<1>2. CASE GetFound(t, k)
  <2>1. index[hash_key[k]] \in Row
    BY <1>2 DEF GetFound, index_read, TypeOK
  <2>2. call'[t] = [row |-> index[hash_key[k]], key |-> k, val |-> NULL]
    BY <1>2 DEF GetFound, GoOn, index_read, TypeOK
  <2>3. TypeOK'
    BY <1>2, <2>1 DEF TypeOK, GetFound, GoOn, PcSet, Call, index_read
  <2>4. CallOK'
    BY <1>2, <2>1, <2>2 DEF CallOK, GetFound, GoOn, TypeOK, Call, RowsOK, index_read, owner, pk
  <2> QED
    BY <1>2, <2>3, <2>4, CallFrame DEF GetFound, GoOn, PcSet
<1>3. CASE PutAbsent(t, k, v)
  <2>1. call'[t] = [row |-> NULL, key |-> k, val |-> v]
    BY <1>3 DEF PutAbsent, GoOn, TypeOK
  <2>2. TypeOK'
    BY <1>3 DEF TypeOK, PutAbsent, GoOn, PcSet, Call
  <2>3. CallOK'
    <3>1. hash_key[k] \in Pk /\ index[hash_key[k]] = NULL
      BY <1>3 DEF PutAbsent, index_read
    <3>2. hash_key[k] \notin LoadedPk
      <4>1. ASSUME NEW p \in LoadedPk PROVE index[p] \in Row
        BY LoadedRow DEF RowsOK
      <4> QED
        BY <3>1, <4>1
    <3>3. <<t, hash_key[k]>> \in Row /\ pk(<<t, hash_key[k]>>) = hash_key[k]
      BY <3>1
    <3>4. mem[<<t, hash_key[k]>>] = "none"
      BY <3>1, <3>3 DEF RowsOK
    <3> QED
      BY <1>3, <2>1, <3>2, <3>4 DEF CallOK, PutAbsent, GoOn, TypeOK, Call
  <2> QED
    BY <1>3, <2>2, <2>3, CallFrame DEF PutAbsent, GoOn, PcSet
<1>4. CASE PutFound(t, k, v)
  <2>1. index[hash_key[k]] \in Row
    BY <1>4 DEF PutFound, index_read, TypeOK
  <2>2. call'[t] = [row |-> index[hash_key[k]], key |-> k, val |-> v]
    BY <1>4 DEF PutFound, GoOn, index_read, TypeOK
  <2>3. TypeOK'
    BY <1>4, <2>1 DEF TypeOK, PutFound, GoOn, PcSet, Call, index_read
  <2>4. CallOK'
    BY <1>4, <2>1, <2>2 DEF CallOK, PutFound, GoOn, TypeOK, Call, RowsOK, index_read, owner, pk
  <2> QED
    BY <1>4, <2>3, <2>4, CallFrame DEF PutFound, GoOn, PcSet
<1> QED
  BY <1>1, <1>2, <1>3, <1>4

LEMMA RefusedStep == ASSUME IInv, NEW t \in Txn, RowRefused(t) PROVE IInv'
<1> USE DEF IInv, rowVars, txnVars
<1>1. TypeOK'
  BY DEF TypeOK, RowRefused, Return, PcSet
<1>2. CallOK'
  BY DEF CallOK, RowRefused, Return, TypeOK
<1> QED
  BY <1>1, <1>2, CallFrame DEF RowRefused, Return, PcSet

LEMMA CommitCallStep == ASSUME IInv, NEW t \in Txn, commit(t) PROVE IInv'
<1> USE DEF IInv, rowVars, txnVars
<1>1. TypeOK'
  BY DEF TypeOK, commit, PcSet
<1>2. CallOK'
  BY DEF CallOK, commit, TypeOK
<1> QED
  BY <1>1, <1>2, CallFrame DEF commit, PcSet

\* Read and Update put into t's set an access to r: either the one t had, with
\* another type or local copy, or a fresh copy of an unlatched row whose wts
\* t's start_ts has reached.
LEMMA AccessFrame ==
  ASSUME IInv, NEW t \in Txn, NEW r \in Row, NEW a \in Access,
         pc[t] \in {"read", "update"},
         mem[r] # "none",
         pk(r) \in LoadedPk => owner(r) = Loader,
         \/ accesses[t][pk(r)] # NULL /\ a.orig_row = accesses[t][pk(r)].orig_row
                                     /\ a.orig_data = accesses[t][pk(r)].orig_data
         \/ accesses[t][pk(r)] = NULL /\ latch[r] = NULL
                                     /\ a.orig_row = r /\ a.orig_data = data[r],
         SetAccess(t, r, a),
         pc' = [pc EXCEPT ![t] = "ready"],
         call' = [call EXCEPT ![t] = NULL],
         TypeOK',
         UNCHANGED <<rowVars, insert_rows>>
  PROVE  IInv'
<1> USE ConstantFacts DEF IInv, rowVars, SetAccess
<1>0. /\ pk(r) \in Pk
      /\ accesses'[t][pk(r)] = a
      /\ \A u \in Txn, p \in Pk : u # t \/ p # pk(r) => accesses'[u][p] = accesses[u][p]
      /\ \A u \in Txn : (Active(u)' <=> Active(u)) /\ (pc'[u] = "commit" <=> pc[u] = "commit")
      /\ \A u \in Txn : (pc[u] = "commit" \/ ~Active(u)) => u # t
  BY DEF TypeOK, Active
<1>00. \A u \in Txn, q \in Row : pc[u] = "commit" => (Writes(u, q)' <=> Writes(u, q))
  BY <1>0 DEF Writes
<1>1. TimeOK'
  BY DEF TimeOK
<1>2. RowsOK'
  BY <1>0 DEF RowsOK, TypeOK
<1>3. InsertedOK' /\ CallOK'
  BY DEF InsertedOK, CallOK, TypeOK
<1>4. SetsOK'
  BY <1>0 DEF SetsOK, Running, TypeOK
<1>5. LatchesMatch'
  BY DEF LatchesMatch, TypeOK
<1>6. CommitLatched'
  BY <1>0 DEF CommitLatched
<1>7. CopiesOK'
  <2> SUFFICES ASSUME NEW u \in Txn, NEW p \in Pk,
                      Running(u)', accesses'[u][p] # NULL
               PROVE  LET q == accesses'[u][p].orig_row IN
                      /\ data[q] = accesses'[u][p].orig_data \/ start_ts[u] < wts[q]
                      /\ \A w \in Txn : w # u /\ pc[w] = "commit" /\ Writes(w, q)
                                        => start_ts[u] < end_ts[w]
    <3>1. \A u \in Txn, p \in Pk : accesses'[u][p] # NULL => accesses'[u][p].orig_row \in Row
      BY DEF TypeOK, Access
    <3> QED
      BY <1>0, <1>00, <3>1 DEF CopiesOK
  <2>1. Running(u)
    BY <1>0 DEF Running
  <2>2. CASE u # t \/ p # pk(r) \/ accesses[t][pk(r)] # NULL
    BY <2>1, <2>2, <1>0 DEF CopiesOK
  <2>3. CASE u = t /\ p = pk(r) /\ accesses[t][pk(r)] = NULL
    <3>1. \A w \in Txn : pc[w] = "commit" => ~Writes(w, r)
      BY <2>3 DEF CommitLatched, LatchesMatch, Writes
    <3> QED
      BY <2>3, <3>1, <1>0
  <2> QED
    BY <2>2, <2>3
<1>8. ValidatedOK'
  BY DEF ValidatedOK, validate_row, TypeOK
<1>9. WriteAdvancesWts'
  BY <1>0, <1>00 DEF WriteAdvancesWts
<1>10. ReadsAreCurrent'
  BY <1>0 DEF ReadsAreCurrent
<1> QED
  BY <1>1, <1>2, <1>3, <1>4, <1>5, <1>6, <1>7, <1>8, <1>9, <1>10

LEMMA GetRowType ==
  ASSUME TypeOK, NEW t \in Txn, NEW r \in Row, NEW type \in AccessType
  PROVE  get_row(t, r, type) \in Access
<1>1. accesses[t][pk(r)] \in Access \cup {NULL} /\ data[r] \in RowData
  <2>1. pk(r) \in Pk
    BY ConstantFacts
  <2>2. accesses[t] \in [Pk -> Access \cup {NULL}]
    BY DEF TypeOK
  <2> QED
    BY <2>1, <2>2 DEF TypeOK
<1>2. CASE accesses[t][pk(r)] # NULL
  <2>1. accesses[t][pk(r)] \in Access
    BY <1>1, <1>2
  <2> QED
    BY <1>2, <2>1 DEF get_row, Access, AccessType
<1>3. CASE accesses[t][pk(r)] = NULL
  BY <1>1, <1>3 DEF get_row, Access
<1> QED
  BY <1>2, <1>3

LEMMA ReadStep == ASSUME IInv, NEW t \in Txn, Read(t) PROVE IInv'
<1> DEFINE r == call[t].row
           a == get_row(t, r, "RD")
<1> USE ConstantFacts DEF IInv
<1>1. r \in Row /\ mem[r] # "none" /\ (pk(r) \in LoadedPk => owner(r) = Loader)
  BY DEF Read, CallOK
<1>2. a \in Access
  BY <1>1, GetRowType DEF AccessType
<1>3. \/ accesses[t][pk(r)] # NULL /\ a.orig_row = accesses[t][pk(r)].orig_row
                                  /\ a.orig_data = accesses[t][pk(r)].orig_data
      \/ accesses[t][pk(r)] = NULL /\ latch[r] = NULL
                                  /\ a.orig_row = r /\ a.orig_data = data[r]
  BY DEF Read, CanGetRow, get_row
<1>4. TypeOK'
  BY <1>1, <1>2 DEF TypeOK, Read, SetAccess, Return, rowVars, PcSet
<1> QED
  BY <1>1, <1>2, <1>3, <1>4, AccessFrame DEF Read, Return

LEMMA UpdateStep == ASSUME IInv, NEW t \in Txn, Update(t) PROVE IInv'
<1> DEFINE r == call[t].row
           g == get_row(t, r, "WR")
           a == IF g.data.key = call[t].key THEN [g EXCEPT !.data.val = val_buf[call[t].val]] ELSE g
<1> USE ConstantFacts DEF IInv
<1>1. r \in Row /\ mem[r] # "none" /\ (pk(r) \in LoadedPk => owner(r) = Loader)
  BY DEF Update, CallOK
<1>2. g \in Access
  BY <1>1, GetRowType DEF AccessType
<1>3. a \in Access /\ a.orig_row = g.orig_row /\ a.orig_data = g.orig_data
  <2>1. call[t].val \in Value
    BY DEF Update, CallOK
  <2>2. g.data \in RowData
    BY <1>2 DEF Access
  <2>3. [g.data EXCEPT !.val = val_buf[call[t].val]] \in RowData
    BY <2>1, <2>2, CutValue DEF RowData
  <2> HIDE DEF g
  <2> QED
    BY <1>2, <2>3 DEF Access
<1>4. \/ accesses[t][pk(r)] # NULL /\ a.orig_row = accesses[t][pk(r)].orig_row
                                  /\ a.orig_data = accesses[t][pk(r)].orig_data
      \/ accesses[t][pk(r)] = NULL /\ latch[r] = NULL
                                  /\ a.orig_row = r /\ a.orig_data = data[r]
  <2>1. CanGetRow(t, r)
    BY DEF Update
  <2>2. \/ accesses[t][pk(r)] # NULL /\ g.orig_row = accesses[t][pk(r)].orig_row
                                    /\ g.orig_data = accesses[t][pk(r)].orig_data
        \/ accesses[t][pk(r)] = NULL /\ latch[r] = NULL
                                    /\ g.orig_row = r /\ g.orig_data = data[r]
    BY <2>1 DEF CanGetRow, get_row
  <2> HIDE DEF g, a
  <2> QED
    BY <1>3, <2>2
<1>5. SetAccess(t, r, a)
  BY DEF Update
<1>6. TypeOK'
  <2> HIDE DEF a
  <2> QED
    BY <1>1, <1>3, <1>5 DEF TypeOK, Update, SetAccess, Return, rowVars, PcSet
<1> HIDE DEF a
<1> QED
  BY <1>1, <1>3, <1>4, <1>5, <1>6, AccessFrame DEF Update, Return

\* The inserted row is new, so nobody has an access to it or a latch on it that
\* the step could disturb.
LEMMA InsertStep == ASSUME IInv, NEW t \in Txn, Insert(t) PROVE IInv'
<1> DEFINE k == call[t].key
           r == <<t, hash_key[k]>>
           d == RowOf(k, call[t].val)
           a == [type |-> "WR", orig_row |-> r, data |-> d, orig_data |-> d]
<1> USE ConstantFacts DEF IInv
<1>0. /\ pc[t] = "insert" /\ pc' = [pc EXCEPT ![t] = "ready"]
      /\ call' = [call EXCEPT ![t] = NULL]
      /\ mem' = [mem EXCEPT ![r] = "live"]
      /\ data' = [data EXCEPT ![r] = d]
      /\ index' = [index EXCEPT ![pk(r)] = r]
      /\ accesses' = [accesses EXCEPT ![t][pk(r)] = a]
      /\ UNCHANGED <<timestamp, start_ts, end_ts, locked, rc, crashed, snap, wts, latch>>
  BY DEF Insert, SetAccess, Return
<1>1. /\ k \in Key /\ call[t].val \in Value /\ mem[r] = "none" /\ hash_key[k] \notin LoadedPk
      /\ hash_key[k] \in Pk
  BY <1>0 DEF CallOK, Call
<1>2. r \in Row /\ pk(r) = hash_key[k] /\ pk(r) \in Pk
  BY <1>1
<1>3. d \in RowData /\ a \in Access
  BY <1>1, <1>2, CutValue DEF RowOf, RowData, Access, AccessType
<1>4. \A u \in Txn, p \in Pk :
        accesses[u][p] # NULL => accesses[u][p].orig_row \in Row /\ accesses[u][p].orig_row # r
  <2> HIDE DEF r
  <2>1. \A u \in Txn, p \in Pk : accesses[u][p] # NULL => accesses[u][p] \in Access
    BY DEF TypeOK
  <2>2. \A u \in Txn, p \in Pk : accesses[u][p] # NULL => mem[accesses[u][p].orig_row] # "none"
    BY DEF RowsOK
  <2> HIDE DEF IInv
  <2>3. \A x \in Access : x.orig_row \in Row
    BY DEF Access
  <2>4. ASSUME NEW u \in Txn, NEW p \in Pk, accesses[u][p] # NULL
        PROVE  accesses[u][p].orig_row \in Row /\ accesses[u][p].orig_row # r
    BY <1>1, <2>1, <2>2, <2>3, <2>4
  <2> QED
    BY <2>4
<1>5. TypeOK'
  <2> HIDE DEF k, r, d, a
  <2>1. insert_rows' \in [Txn -> SUBSET Row]
    BY <1>2 DEF TypeOK, Insert, r, k
  <2>2. reply' \in [Txn -> {"none", "OK", "NOT_FOUND", "ABORT", "ERROR"}]
    BY DEF TypeOK, Insert, Return
  <2> QED
    BY <1>0, <1>2, <1>3, <2>1, <2>2 DEF TypeOK, PcSet
<1>6. /\ accesses'[t][pk(r)] = a
      /\ \A u \in Txn, p \in Pk : u # t \/ p # pk(r) => accesses'[u][p] = accesses[u][p]
      /\ \A q \in Row : q # r => data'[q] = data[q] /\ mem'[q] = mem[q]
      /\ mem'[r] = "live" /\ data'[r] = d
      /\ index'[pk(r)] = r /\ \A p \in Pk : p # pk(r) => index'[p] = index[p]
      /\ \A u \in Txn : (Active(u)' <=> Active(u)) /\ (pc'[u] = "commit" <=> pc[u] = "commit")
      /\ \A u \in Txn : (pc[u] = "commit" \/ ~Active(u)) => u # t
  <2> HIDE DEF k, r, d, a
  <2> QED
    BY <1>0, <1>2 DEF TypeOK, Active
<1> HIDE DEF k, d, a
<1>7. \A u \in Txn, q \in Row : pc[u] = "commit" => (Writes(u, q)' <=> Writes(u, q))
  BY <1>6 DEF Writes
<1>8. \A u \in Txn : pc[u] = "commit" => ~Writes(u, r)
  BY <1>2, <1>4 DEF Writes
<1> HIDE DEF r
<1>9. TimeOK'
  BY <1>0 DEF TimeOK
<1>10. RowsOK'
  <2>1. a.orig_row = r /\ pk(r) \notin LoadedPk
    BY <1>1, <1>2 DEF a, r
  <2>2. ASSUME NEW p \in Pk, index'[p] # NULL
        PROVE  pk(index'[p]) = p /\ mem'[index'[p]] # "none"
    <3>1. CASE p = pk(r)
      BY <3>1, <1>6
    <3>2. CASE p # pk(r)
      <4>1. index'[p] = index[p] /\ index[p] \in Row
        BY <2>2, <3>2, <1>6 DEF TypeOK
      <4>2. pk(index[p]) = p /\ mem[index[p]] # "none"
        BY <2>2, <4>1 DEF RowsOK
      <4> QED
        BY <1>6, <4>1, <4>2
    <3> QED
      BY <3>1, <3>2
  <2>3. ASSUME NEW p \in Pk, index'[p] = NULL, NEW q \in Row, pk(q) = p
        PROVE  mem'[q] = "none"
    <3>1. p # pk(r) /\ q # r
      BY <2>3, <1>2, <1>6
    <3> QED
      BY <2>3, <3>1, <1>6 DEF RowsOK
  <2>4. \A p \in LoadedPk : index'[p] = <<Loader, p>>
    BY <2>1, <1>6 DEF RowsOK
  <2>5. ASSUME NEW u \in Txn, NEW p \in Pk, accesses'[u][p] # NULL
        PROVE  /\ pk(accesses'[u][p].orig_row) = p
               /\ mem'[accesses'[u][p].orig_row] # "none"
               /\ p \in LoadedPk => accesses'[u][p].orig_row = <<Loader, p>>
    BY <2>1, <2>5, <1>4, <1>6 DEF RowsOK
  <2> QED
    BY <2>2, <2>3, <2>4, <2>5 DEF RowsOK
<1>19. InsertedOK'
  <2>1. insert_rows' = [insert_rows EXCEPT ![t] = insert_rows[t] \cup {r}]
    BY DEF Insert, r, k
  <2> QED
    BY <2>1, <1>6 DEF InsertedOK, TypeOK
<1>11. CallOK'
  <2> SUFFICES ASSUME NEW u \in Txn, u # t, pc[u] = "insert"
               PROVE  mem'[<<u, hash_key[call[u].key]>>] = "none"
    BY <1>0, <1>2, <1>6 DEF CallOK, TypeOK
  <2>1. <<u, hash_key[call[u].key]>> \in Row /\ mem[<<u, hash_key[call[u].key]>>] = "none"
    BY DEF CallOK, Call
  <2>2. <<u, hash_key[call[u].key]>> # r
    BY DEF r
  <2> QED
    BY <2>1, <2>2, <1>6
<1>12. SetsOK'
  BY <1>0, <1>6 DEF SetsOK, Running, TypeOK
<1>13. LatchesMatch'
  BY <1>0 DEF LatchesMatch, TypeOK
<1>14. CommitLatched'
  BY <1>0, <1>6 DEF CommitLatched
<1>15. CopiesOK'
  <2> SUFFICES ASSUME NEW u \in Txn, NEW p \in Pk,
                      Running(u)', accesses'[u][p] # NULL
               PROVE  LET q == accesses'[u][p].orig_row IN
                      /\ data'[q] = accesses'[u][p].orig_data \/ start_ts[u] < wts[q]
                      /\ \A w \in Txn : w # u /\ pc[w] = "commit" /\ Writes(w, q)
                                        => start_ts[u] < end_ts[w]
    <3>1. \A w \in Txn, p \in Pk : accesses'[w][p] # NULL => accesses'[w][p].orig_row \in Row
      BY <1>5 DEF TypeOK, Access
    <3> QED
      BY <1>0, <1>6, <1>7, <3>1 DEF CopiesOK
  <2>1. Running(u)
    BY <1>6 DEF Running
  <2>2. CASE u # t \/ p # pk(r)
    BY <2>1, <2>2, <1>4, <1>6 DEF CopiesOK
  <2>3. CASE u = t /\ p = pk(r)
    BY <2>3, <1>6, <1>8 DEF a
  <2> QED
    BY <2>2, <2>3
<1>16. ValidatedOK'
  BY <1>0 DEF ValidatedOK, validate_row, TypeOK
<1>17. WriteAdvancesWts'
  BY <1>0, <1>6, <1>7 DEF WriteAdvancesWts
<1>18. ReadsAreCurrent'
  BY <1>4, <1>6 DEF ReadsAreCurrent
<1> QED
  BY <1>5, <1>9, <1>10, <1>11, <1>12, <1>13, <1>14, <1>15, <1>16, <1>17, <1>18, <1>19

LEMMA LatchStep == ASSUME IInv, NEW t \in Txn, LatchRow(t) PROVE IInv'
<1> USE DEF IInv
<1>1. PICK r \in Row :
        /\ latch[r] = NULL
        /\ latch' = [latch EXCEPT ![r] = t]
        /\ locked' = [locked EXCEPT ![t] = locked[t] \cup {r}]
        /\ rc' = [rc EXCEPT ![t] = IF validate_row(t, r) THEN "RCOK" ELSE "Abort"]
  BY DEF LatchRow
<1>2. /\ pc[t] = "validate" /\ rc[t] = "RCOK"
      /\ UNCHANGED <<timestamp, index, mem, data, wts, pc, call, start_ts, end_ts,
                     accesses, insert_rows, reply, crashed, snap>>
  BY DEF LatchRow
<1>3. TypeOK'
  BY <1>1, <1>2 DEF TypeOK
<1>4. TimeOK' /\ RowsOK' /\ InsertedOK' /\ CallOK'
  BY <1>2 DEF TimeOK, RowsOK, InsertedOK, CallOK
<1>5. SetsOK'
  BY <1>1, <1>2 DEF SetsOK, Running, Active, TypeOK
<1>6. LatchesMatch'
  <2>1. ASSUME NEW q \in Row, NEW u \in Txn PROVE latch'[q] = u <=> q \in locked'[u]
    BY <1>1, NullAssumption DEF LatchesMatch, TypeOK
  <2>2. ASSUME NEW u \in Txn, locked'[u] # {} PROVE pc'[u] \in {"validate", "commit", "release"}
    BY <2>2, <1>1, <1>2 DEF LatchesMatch, TypeOK
  <2> QED
    BY <2>1, <2>2 DEF LatchesMatch
<1>7. CommitLatched'
  BY <1>1, <1>2 DEF CommitLatched, TypeOK
<1>8. CopiesOK'
  BY <1>2 DEF CopiesOK, Running, Active, Writes
<1>9. ValidatedOK'
  BY <1>1, <1>2 DEF ValidatedOK, validate_row, TypeOK
<1>10. WriteAdvancesWts' /\ ReadsAreCurrent'
  BY <1>2 DEF WriteAdvancesWts, ReadsAreCurrent, Writes
<1> QED
  BY <1>3, <1>4, <1>5, <1>6, <1>7, <1>8, <1>9, <1>10

\* The commit point: all rows are latched and valid, so the copies are current
\* and the new end_ts is above every start_ts and wts.
LEMMA DrawStep == ASSUME IInv, NEW t \in Txn, DrawEndTs(t) PROVE IInv'
<1> USE DEF IInv
<1>1. /\ pc[t] = "validate" /\ rc[t] = "RCOK" /\ ToLatch(t) = {}
      /\ pc' = [pc EXCEPT ![t] = "commit"]
      /\ end_ts' = [end_ts EXCEPT ![t] = timestamp]
      /\ timestamp' = timestamp + 1
      /\ snap' = [snap EXCEPT ![t] = NoSnap]
      /\ UNCHANGED <<rowVars, call, start_ts, accesses, insert_rows, locked, rc, reply, crashed>>
  BY DEF DrawEndTs
<1>2. \A p \in Pk : accesses[t][p] # NULL => accesses[t][p].orig_row \in locked[t]
  BY <1>1 DEF ToLatch, Accessed
<1>3. TypeOK'
  BY <1>1, ConstantFacts DEF TypeOK, rowVars, PcSet
<1>4. TimeOK'
  BY <1>1 DEF TimeOK, rowVars, TypeOK
<1>5. RowsOK' /\ InsertedOK' /\ CallOK'
  BY <1>1 DEF RowsOK, InsertedOK, CallOK, rowVars, TypeOK
<1>6. SetsOK'
  BY <1>1 DEF SetsOK, Running, Active, TypeOK
<1>7. LatchesMatch'
  BY <1>1 DEF LatchesMatch, rowVars, TypeOK
<1>8. CommitLatched'
  BY <1>1, <1>2 DEF CommitLatched, TypeOK
<1>9. CopiesOK'
  <2> SUFFICES ASSUME NEW u \in Txn, NEW p \in Pk, Running(u)', accesses[u][p] # NULL
               PROVE  LET q == accesses[u][p].orig_row IN
                      /\ data[q] = accesses[u][p].orig_data \/ start_ts[u] < wts[q]
                      /\ \A w \in Txn : w # u /\ pc'[w] = "commit" /\ Writes(w, q)
                                        => start_ts[u] < end_ts'[w]
    BY <1>1 DEF CopiesOK, Writes, rowVars
  <2>1. Running(u)
    BY <1>1 DEF Running, Active, TypeOK
  <2>2. start_ts[u] < timestamp
    BY DEF TimeOK
  <2> QED
    BY <1>1, <2>1, <2>2 DEF CopiesOK, TypeOK
<1>10. ValidatedOK'
  <2>1. \A u \in Txn : pc'[u] = "validate" => pc[u] = "validate"
    BY <1>1 DEF TypeOK
  <2> QED
    BY <1>1, <2>1 DEF ValidatedOK, validate_row, rowVars
<1>11. WriteAdvancesWts'
  BY <1>1 DEF WriteAdvancesWts, Writes, rowVars, TypeOK, TimeOK
<1>12. ReadsAreCurrent'
  <2>1. ASSUME NEW p \in Pk, accesses[t][p] # NULL
        PROVE  data[accesses[t][p].orig_row] = accesses[t][p].orig_data
    <3>1. accesses[t][p].orig_row \in Row
      BY <2>1 DEF TypeOK, Access
    <3>2. ~(start_ts[t] < wts[accesses[t][p].orig_row])
      BY <1>1, <1>2, <2>1, <3>1 DEF ValidatedOK, validate_row
    <3> QED
      BY <1>1, <2>1, <3>2 DEF CopiesOK, Running, Active
  <2> QED
    BY <1>1, <2>1 DEF ReadsAreCurrent, rowVars, TypeOK
<1> QED
  BY <1>3, <1>4, <1>5, <1>6, <1>7, <1>8, <1>9, <1>10, <1>11, <1>12

\* Only t holds latches on the rows it writes, and every other transaction that
\* used one of them began before t drew end_ts.
LEMMA InstallStep == ASSUME IInv, NEW t \in Txn, Install(t) PROVE IInv'
<1> USE DEF IInv
<1>1. /\ pc[t] = "commit" /\ pc' = [pc EXCEPT ![t] = "release"]
      /\ data' = [r \in Row |-> IF Writes(t, r) THEN accesses[t][pk(r)].data ELSE data[r]]
      /\ wts' = [r \in Row |-> IF Writes(t, r) THEN end_ts[t] ELSE wts[r]]
      /\ accesses' = [accesses EXCEPT ![t] = NoAccesses]
      /\ insert_rows' = [insert_rows EXCEPT ![t] = {}]
      /\ UNCHANGED <<timestamp, index, mem, latch, call, start_ts, end_ts, locked,
                     rc, reply, crashed, snap>>
  BY DEF Install, ClearSets
<1>2. \A r \in Row : Writes(t, r) => latch[r] = t /\ r \in locked[t]
  BY <1>1, WritesFacts DEF CommitLatched, LatchesMatch
<1>3. /\ accesses'[t] = NoAccesses
      /\ \A u \in Txn : u # t => accesses'[u] = accesses[u] /\ pc'[u] = pc[u]
      /\ pc'[t] = "release"
  BY <1>1 DEF TypeOK
<1>4. \A u \in Txn, r \in Row : u # t => (Writes(u, r)' <=> Writes(u, r))
  BY <1>3 DEF Writes
<1>5. \A p \in Pk : NoAccesses[p] = NULL
  BY DEF NoAccesses
<1>6. TypeOK'
  <2>1. data' \in [Row -> RowData]
    <3>1. ASSUME NEW r \in Row, Writes(t, r) PROVE accesses[t][pk(r)].data \in RowData
      <4>1. accesses[t][pk(r)] \in Access
        BY <3>1, WritesFacts
      <4> QED
        BY <4>1 DEF Access
    <3> QED
      BY <1>1, <3>1 DEF TypeOK
  <2>2. wts' \in [Row -> Nat]
    BY <1>1 DEF TypeOK
  <2> QED
    BY <1>1, <2>1, <2>2, ConstantFacts DEF TypeOK, PcSet
<1>7. TimeOK'
  BY <1>1 DEF TimeOK
<1>8. RowsOK' /\ InsertedOK'
  BY <1>1, <1>3, <1>5 DEF RowsOK, InsertedOK, TypeOK
<1>9. CallOK'
  BY <1>1, <1>3 DEF CallOK
<1>10. SetsOK'
  BY <1>1, <1>3 DEF SetsOK, Running, Active
<1>11. LatchesMatch'
  BY <1>1, <1>3 DEF LatchesMatch
<1>12. CommitLatched'
  BY <1>1, <1>3 DEF CommitLatched
<1>13. CopiesOK'
  <2> SUFFICES ASSUME NEW u \in Txn, NEW p \in Pk, u # t,
                      Running(u), accesses[u][p] # NULL
               PROVE  LET q == accesses[u][p].orig_row IN
                      /\ data'[q] = accesses[u][p].orig_data \/ start_ts[u] < wts'[q]
                      /\ \A w \in Txn : w # u /\ w # t /\ pc[w] = "commit" /\ Writes(w, q)
                                        => start_ts[u] < end_ts[w]
    <3>1. \A u \in Txn, p \in Pk : accesses[u][p] # NULL => accesses[u][p].orig_row \in Row
      BY DEF TypeOK, Access
    <3>2. \A u \in Txn : Running(u)' => u # t /\ Running(u)
      BY <1>3 DEF Running, Active
    <3> QED
      BY <1>1, <1>3, <1>4, <3>1, <3>2 DEF CopiesOK
  <2>1. accesses[u][p].orig_row \in Row
    BY DEF TypeOK, Access
  <2> QED
    BY <1>1, <2>1 DEF CopiesOK
<1>14. ValidatedOK'
  BY <1>1, <1>2, <1>3 DEF ValidatedOK, validate_row, LatchesMatch
<1>15. WriteAdvancesWts'
  <2> SUFFICES ASSUME NEW u \in Txn, NEW r \in Row, u # t, pc[u] = "commit", Writes(u, r)
               PROVE  end_ts[u] > wts'[r]
    BY <1>1, <1>3, <1>4 DEF WriteAdvancesWts
  <2>1. r \in locked[u]
    BY WritesFacts DEF CommitLatched
  <2>2. ~Writes(t, r)
    BY <1>2, <2>1 DEF LatchesMatch
  <2> QED
    BY <1>1, <2>2 DEF WriteAdvancesWts
<1>16. ReadsAreCurrent'
  <2> SUFFICES ASSUME NEW u \in Txn, NEW p \in Pk, u # t, pc[u] = "commit", accesses[u][p] # NULL
               PROVE  data'[accesses[u][p].orig_row] = accesses[u][p].orig_data
    BY <1>1, <1>3 DEF ReadsAreCurrent
  <2>1. accesses[u][p].orig_row \in Row /\ accesses[u][p].orig_row \in locked[u]
    BY DEF TypeOK, Access, CommitLatched
  <2>2. ~Writes(t, accesses[u][p].orig_row)
    BY <1>2, <2>1 DEF LatchesMatch
  <2> QED
    BY <1>1, <2>1, <2>2 DEF ReadsAreCurrent
<1> QED
  BY <1>6, <1>7, <1>8, <1>9, <1>10, <1>11, <1>12, <1>13, <1>14, <1>15, <1>16

\* Rolling t back: its sets are emptied, and the rows it inserted are freed.
LEMMA RollbackFrame ==
  ASSUME IInv, NEW t \in Txn, NEW next \in {"release", "done"},
         Active(t), next = "done" => locked[t] = {},
         Rollback(t),
         pc' = [pc EXCEPT ![t] = next],
         start_ts' = start_ts \/ start_ts' = [start_ts EXCEPT ![t] = 0],
         TypeOK',
         UNCHANGED <<timestamp, index, data, wts, latch, call, end_ts, locked, crashed>>,
         \A u \in Txn : u # t => rc'[u] = rc[u]
  PROVE  IInv'
<1> USE DEF IInv
<1>1. /\ accesses'[t] = NoAccesses /\ insert_rows'[t] = {}
      /\ \A u \in Txn : u # t => /\ accesses'[u] = accesses[u] /\ pc'[u] = pc[u]
                                /\ start_ts'[u] = start_ts[u]
                                /\ insert_rows'[u] = insert_rows[u]
      /\ pc'[t] = next
  BY DEF TypeOK, Rollback, ClearSets
<1>2. \A r \in Row : (mem'[r] # "none" <=> mem[r] # "none")
  BY DEF Rollback, InsertedOK
<1>3. \A p \in Pk : NoAccesses[p] = NULL
  BY DEF NoAccesses
<1>4. \A u \in Txn : /\ Running(u)' => u # t /\ Running(u)
                     /\ pc'[u] = "commit" => u # t /\ pc[u] = "commit"
  BY <1>1 DEF Running, Active
<1>5. \A u \in Txn, p \in Pk : accesses[u][p] # NULL => accesses[u][p].orig_row \in Row
  BY DEF TypeOK, Access
<1>6. \A u \in Txn, r \in Row : u # t => (Writes(u, r)' <=> Writes(u, r))
  BY <1>1 DEF Writes
<1>7. TimeOK'
  BY <1>1 DEF TimeOK, TypeOK
<1>8. RowsOK'
  <2>1. \A p \in Pk : index'[p] # NULL => pk(index'[p]) = p /\ mem'[index'[p]] # "none"
    BY <1>2 DEF RowsOK, TypeOK
  <2>2. \A p \in Pk : index'[p] = NULL => \A r \in Row : pk(r) = p => mem'[r] = "none"
    BY <1>2 DEF RowsOK
  <2>3. \A u \in Txn, p \in Pk : accesses'[u][p] # NULL =>
          /\ pk(accesses'[u][p].orig_row) = p
          /\ mem'[accesses'[u][p].orig_row] # "none"
          /\ p \in LoadedPk => accesses'[u][p].orig_row = <<Loader, p>>
    BY <1>1, <1>2, <1>3, <1>5 DEF RowsOK
  <2> QED
    BY <2>1, <2>2, <2>3 DEF RowsOK
<1>17. InsertedOK'
  BY <1>1, <1>2 DEF InsertedOK, TypeOK
<1>9. CallOK'
  <2> SUFFICES ASSUME NEW u \in Txn, u # t
               PROVE  /\ pc[u] \in {"read", "update"} => mem'[call[u].row] # "none"
                      /\ pc[u] = "insert" => mem'[<<u, hash_key[call[u].key]>>] = "none"
    BY <1>1 DEF CallOK
  <2>1. CASE pc[u] \in {"read", "update"}
    BY <1>2, <2>1 DEF CallOK
  <2>2. CASE pc[u] = "insert"
    <3>1. <<u, hash_key[call[u].key]>> \in Row
      BY <2>2, ConstantFacts DEF CallOK, Call
    <3> QED
      BY <1>2, <2>2, <3>1 DEF CallOK
  <2> QED
    BY <2>1, <2>2
<1>10. SetsOK'
  BY <1>1, <1>4 DEF SetsOK, Running, Active
<1>11. LatchesMatch'
  BY <1>1 DEF LatchesMatch
<1>12. CommitLatched'
  BY <1>1, <1>4 DEF CommitLatched
<1>13. CopiesOK'
  BY <1>1, <1>4, <1>5, <1>6 DEF CopiesOK
<1>14. ValidatedOK'
  BY <1>1 DEF ValidatedOK, validate_row
<1>15. WriteAdvancesWts'
  BY <1>4, <1>6 DEF WriteAdvancesWts
<1>16. ReadsAreCurrent'
  BY <1>1, <1>4 DEF ReadsAreCurrent
<1> QED
  BY <1>7, <1>8, <1>9, <1>10, <1>11, <1>12, <1>13, <1>14, <1>15, <1>16, <1>17

LEMMA ValidateAbortStep == ASSUME IInv, NEW t \in Txn, ValidateAbort(t) PROVE IInv'
<1>1. TypeOK'
  BY ConstantFacts DEF IInv, TypeOK, ValidateAbort, Rollback, ClearSets, PcSet
<1> QED
  BY <1>1, RollbackFrame DEF ValidateAbort, Active

LEMMA AbortStep == ASSUME IInv, NEW t \in Txn, abort_txn(t) PROVE IInv'
<1>1. TypeOK'
  BY ConstantFacts DEF IInv, TypeOK, abort_txn, Rollback, ClearSets, PcSet
<1>2. locked[t] = {}
  BY DEF IInv, LatchesMatch, abort_txn
<1>3. \A u \in Txn : u # t => rc'[u] = rc[u]
  BY DEF IInv, TypeOK, abort_txn
<1> QED
  BY <1>1, <1>2, <1>3, RollbackFrame DEF abort_txn, Active

LEMMA ReleaseStep == ASSUME IInv, NEW t \in Txn, release(t) PROVE IInv'
<1> USE DEF IInv
<1>1. PICK r \in Row :
        /\ r \in locked[t]
        /\ latch' = [latch EXCEPT ![r] = NULL]
        /\ locked' = [locked EXCEPT ![t] = locked[t] \ {r}]
  BY DEF release, IsFirst
<1>2. /\ pc[t] = "release"
      /\ UNCHANGED <<timestamp, index, mem, data, wts, pc, call, start_ts, end_ts,
                     accesses, insert_rows, rc, reply, crashed, snap>>
  BY DEF release
<1>3. TypeOK'
  BY <1>1, <1>2 DEF TypeOK
<1>4. TimeOK' /\ RowsOK' /\ InsertedOK' /\ CallOK' /\ SetsOK'
  BY <1>2 DEF TimeOK, RowsOK, InsertedOK, CallOK, SetsOK, Running, Active
<1>5. LatchesMatch'
  <2>1. ASSUME NEW q \in Row, NEW u \in Txn PROVE latch'[q] = u <=> q \in locked'[u]
    BY <1>1, NullAssumption DEF LatchesMatch, TypeOK
  <2>2. ASSUME NEW u \in Txn, locked'[u] # {} PROVE pc'[u] \in {"validate", "commit", "release"}
    BY <2>2, <1>1, <1>2 DEF LatchesMatch, TypeOK
  <2> QED
    BY <2>1, <2>2 DEF LatchesMatch
<1>6. CommitLatched' /\ ValidatedOK'
  BY <1>1, <1>2 DEF CommitLatched, ValidatedOK, validate_row, TypeOK
<1>7. CopiesOK'
  BY <1>2 DEF CopiesOK, Running, Active, Writes
<1>8. WriteAdvancesWts' /\ ReadsAreCurrent'
  BY <1>2 DEF WriteAdvancesWts, ReadsAreCurrent, Writes
<1> QED
  BY <1>3, <1>4, <1>5, <1>6, <1>7, <1>8

LEMMA CommitReturnStep == ASSUME IInv, NEW t \in Txn, commit_return(t) PROVE IInv'
<1> USE DEF IInv
<1>1. /\ pc[t] = "release" /\ locked[t] = {}
      /\ pc' = [pc EXCEPT ![t] = "done"]
      /\ start_ts' = [start_ts EXCEPT ![t] = 0]
      /\ end_ts' = [end_ts EXCEPT ![t] = 0]
      /\ UNCHANGED <<rowVars, timestamp, call, accesses, insert_rows, locked, rc, crashed, snap>>
  BY DEF commit_return
<1>2. /\ pc'[t] = "done"
      /\ \A u \in Txn : u # t => /\ pc'[u] = pc[u] /\ start_ts'[u] = start_ts[u]
                                /\ end_ts'[u] = end_ts[u]
      /\ start_ts'[t] = 0 /\ end_ts'[t] = 0
  BY <1>1 DEF TypeOK
<1>3. TypeOK'
  BY <1>1 DEF TypeOK, PcSet, rowVars, commit_return
<1>4. TimeOK'
  BY <1>1, <1>2 DEF TimeOK, TypeOK, rowVars
<1>5. RowsOK' /\ InsertedOK' /\ CallOK' /\ SetsOK'
  BY <1>1, <1>2 DEF RowsOK, InsertedOK, CallOK, SetsOK, rowVars, Running, Active
<1>6. LatchesMatch' /\ CommitLatched'
  BY <1>1, <1>2 DEF LatchesMatch, CommitLatched, rowVars
<1>7. CopiesOK'
  <2>1. \A u \in Txn : Running(u)' => u # t /\ Running(u)
    BY <1>2 DEF Running, Active
  <2>2. \A u \in Txn : pc'[u] = "commit" => u # t /\ pc[u] = "commit"
    BY <1>2
  <2> QED
    BY <1>1, <1>2, <2>1, <2>2 DEF CopiesOK, Writes, rowVars
<1>8. ValidatedOK' /\ WriteAdvancesWts' /\ ReadsAreCurrent'
  BY <1>1, <1>2 DEF ValidatedOK, validate_row, WriteAdvancesWts, ReadsAreCurrent, Writes, rowVars
<1> QED
  BY <1>3, <1>4, <1>5, <1>6, <1>7, <1>8

\* An undefined outcome that kills the process changes nothing else.
LEMMA FaultStep == ASSUME IInv, NEW t \in Txn, Fault(t) PROVE IInv'
<1> USE DEF IInv, Fault, rowVars
<1>1. TypeOK'
  BY DEF TypeOK
<1>2. TimeOK' /\ RowsOK' /\ InsertedOK' /\ CallOK' /\ SetsOK'
  BY DEF TimeOK, RowsOK, InsertedOK, CallOK, SetsOK, Running, Active
<1>3. LatchesMatch' /\ CommitLatched' /\ ValidatedOK'
  BY DEF LatchesMatch, CommitLatched, ValidatedOK, validate_row
<1>4. CopiesOK' /\ WriteAdvancesWts' /\ ReadsAreCurrent'
  BY DEF CopiesOK, WriteAdvancesWts, ReadsAreCurrent, Running, Active, Writes
<1> QED
  BY <1>1, <1>2, <1>3, <1>4

LEMMA StutterStep == ASSUME IInv, UNCHANGED vars PROVE IInv'
<1> USE DEF IInv, vars
<1>1. TypeOK'
  BY DEF TypeOK
<1>2. TimeOK' /\ RowsOK' /\ InsertedOK' /\ CallOK' /\ SetsOK'
  BY DEF TimeOK, RowsOK, InsertedOK, CallOK, SetsOK, Running, Active
<1>3. LatchesMatch' /\ CommitLatched' /\ ValidatedOK'
  BY DEF LatchesMatch, CommitLatched, ValidatedOK, validate_row
<1>4. CopiesOK' /\ WriteAdvancesWts' /\ ReadsAreCurrent'
  BY DEF CopiesOK, WriteAdvancesWts, ReadsAreCurrent, Running, Active, Writes
<1> QED
  BY <1>1, <1>2, <1>3, <1>4

LEMMA InitInv == Init => IInv
<1> SUFFICES ASSUME Init PROVE IInv
  OBVIOUS
<1> USE ConstantFacts DEF Init
<1>1. TypeOK
  <2>1. timestamp \in Nat
    BY ConstantsAssumption, FS_Subset, FS_CardinalityType
  <2>2. index \in [Pk -> Row \cup {NULL}]
    OBVIOUS
  <2>3. data \in [Row -> RowData]
    <3>1. ASSUME NEW r \in Row
          PROVE  \E k \in Key : hash_key[k] = pk(r) /\ (pk(r) \in LoadedPk => k \in Loaded)
      BY ConstantsAssumption DEF Pk, LoadedPk
    <3>2. ASSUME NEW r \in Row
          PROVE  RowOf(CHOOSE k \in Key : /\ hash_key[k] = pk(r)
                                          /\ pk(r) \in LoadedPk => k \in Loaded,
                       InitVal) \in RowData
      BY <3>1, ConstantsAssumption DEF RowOf, RowData
    <3> QED
      BY <3>2
  <2> QED
    BY <2>1, <2>2, <2>3 DEF TypeOK, PcSet
<1>2. TimeOK
  <2>1. Cardinality(Loaded) \in Nat
    BY ConstantsAssumption, FS_Subset, FS_CardinalityType
  <2> QED
    BY <2>1 DEF TimeOK
<1>3. \A t \in Txn, p \in Pk : accesses[t][p] = NULL
  BY DEF NoAccesses
<1>4. RowsOK
  <2>1. ASSUME NEW p \in LoadedPk PROVE index[p] = <<Loader, p>>
    OBVIOUS
  <2>2. ASSUME NEW p \in Pk, index[p] # NULL
        PROVE  pk(index[p]) = p /\ mem[index[p]] # "none"
    <3>1. p \in LoadedPk /\ index[p] = <<Loader, p>>
      BY <2>2
    <3> QED
      BY <3>1, LoadedRow
  <2>3. ASSUME NEW p \in Pk, index[p] = NULL, NEW r \in Row, pk(r) = p
        PROVE  mem[r] = "none"
    <3>1. p \notin LoadedPk
      BY <2>1, <2>3, LoadedRow
    <3> QED
      BY <2>3, <3>1
  <2> QED
    BY <1>3, <2>1, <2>2, <2>3 DEF RowsOK
<1>5. InsertedOK /\ CallOK
  BY DEF InsertedOK, CallOK
<1>6. SetsOK /\ LatchesMatch
  BY DEF SetsOK, LatchesMatch
<1>7. CommitLatched /\ CopiesOK /\ ValidatedOK /\ WriteAdvancesWts /\ ReadsAreCurrent
  BY <1>3 DEF CommitLatched, CopiesOK, ValidatedOK, WriteAdvancesWts, ReadsAreCurrent, Writes
<1> QED
  BY <1>1, <1>2, <1>4, <1>5, <1>6, <1>7 DEF IInv

LEMMA NextInv == IInv /\ [Next]_vars => IInv'
<1> SUFFICES ASSUME IInv, [Next]_vars PROVE IInv'
  OBVIOUS
<1>1. ASSUME NEW t \in Txn, Request(t) PROVE IInv'
  <2>1. CASE begin_txn(t)
    BY <2>1, BeginStep
  <2>2. ASSUME NEW k \in Key, GetAbsent(t, k) \/ GetFound(t, k) PROVE IInv'
    BY <2>2, ProbeStep, ConstantsAssumption
  <2>3. ASSUME NEW k \in Key, NEW v \in Value, PutAbsent(t, k, v) \/ PutFound(t, k, v) PROVE IInv'
    BY <2>3, ProbeStep
  <2>4. CASE commit(t)
    BY <2>4, CommitCallStep
  <2>5. CASE abort_txn(t)
    BY <2>5, AbortStep
  <2> QED
    BY <1>1, <2>1, <2>2, <2>3, <2>4, <2>5 DEF Request
<1>2. ASSUME NEW t \in Txn, Step(t) PROVE IInv'
  BY <1>2, RefusedStep, ReadStep, UpdateStep, InsertStep, LatchStep, DrawStep, InstallStep,
     ValidateAbortStep, ReleaseStep, CommitReturnStep DEF Step
<1>3. ASSUME NEW t \in Txn, Fault(t) PROVE IInv'
  BY <1>3, FaultStep
<1>4. CASE UNCHANGED vars
  BY <1>4, StutterStep
<1> QED
  BY <1>1, <1>2, <1>3, <1>4 DEF Next, Stopped

\* The inductive invariant holds in every state of the engine.
THEOREM Invariance == Spec => []IInv
BY InitInv, NextInv, PTL DEF Spec

\* The engine's state keeps its types, whatever the clients and threads do.
THEOREM TypeCorrect == Spec => []TypeOK
BY Invariance, PTL DEF IInv

\* validate's latches: held by exactly the transaction that counts them, and all
\* given back by a commit that returns, on both of its paths.
THEOREM LatchesReturned == Spec => []LatchesMatch
BY Invariance, PTL DEF IInv

\* Row_occ::write's assertion ts > wts never fails.
THEOREM WtsAdvances == Spec => []WriteAdvancesWts
BY Invariance, PTL DEF IInv

\* No commit rests on a stale copy: optimistic validation is sound for every
\* row, however many transactions, rows and values there are.
THEOREM NoStaleCommit == Spec => []ReadsAreCurrent
BY Invariance, PTL DEF IInv
-----------------------------------------------------------------------------
(* Transactions in validate wait for each other in one direction only. *)

\* LockOrder concerns one transaction at a time: a step that leaves t's part
\* alone keeps it.
LEMMA OrderFrame ==
  ASSUME NEW u \in Txn, LockOrder,
         pc'[u] = pc[u], locked'[u] = locked[u], accesses'[u] = accesses[u]
  PROVE  pc'[u] = "validate" =>
           /\ \A r \in locked'[u] : accesses'[u][pk(r)] # NULL /\ accesses'[u][pk(r)].orig_row = r
           /\ \A r \in locked'[u], s \in ToLatch(u)' : pk(r) < pk(s)
<1>1. ToLatch(u)' = ToLatch(u)
  BY DEF ToLatch, Accessed
<1> QED
  BY <1>1 DEF LockOrder

\* A step of t leaves the control and the sets of every other transaction alone.
LEMMA OthersUntouched ==
  ASSUME TypeOK, NEW t \in Txn, NEW u \in Txn, t # u, Request(t) \/ Step(t) \/ Fault(t)
  PROVE  pc'[u] = pc[u] /\ locked'[u] = locked[u] /\ accesses'[u] = accesses[u]
<1> USE DEF TypeOK
<1>1. CASE begin_txn(t) \/ commit(t) \/ abort_txn(t)
  BY <1>1 DEF begin_txn, commit, abort_txn, txnVars, Rollback, ClearSets
<1>2. CASE \E k \in Key : GetAbsent(t, k) \/ GetFound(t, k)
  BY <1>2 DEF GetAbsent, GetFound, Return, GoOn, txnVars
<1>3. CASE \E k \in Key, v \in Value : PutAbsent(t, k, v) \/ PutFound(t, k, v)
  BY <1>3 DEF PutAbsent, PutFound, GoOn, txnVars
<1>4. CASE RowRefused(t)
  BY <1>4 DEF RowRefused, Return, txnVars
<1>5. CASE Read(t) \/ Update(t) \/ Insert(t)
  BY <1>5 DEF Read, Update, Insert, SetAccess, Return
<1>6. CASE LatchRow(t) \/ DrawEndTs(t) \/ Install(t)
  BY <1>6 DEF LatchRow, DrawEndTs, Install, ClearSets
<1>7. CASE ValidateAbort(t) \/ release(t) \/ commit_return(t)
  BY <1>7 DEF ValidateAbort, release, commit_return, Rollback, ClearSets
<1>8. CASE Fault(t)
  BY <1>8 DEF Fault
<1> QED
  BY <1>1, <1>2, <1>3, <1>4, <1>5, <1>6, <1>7, <1>8 DEF Request, Step

\* Only commit brings a transaction into validate, and only LatchRow acts there
\* without leaving it.
LEMMA StaysInValidate ==
  ASSUME TypeOK, NEW t \in Txn, Request(t) \/ Step(t) \/ Fault(t), pc'[t] = "validate"
  PROVE  commit(t) \/ LatchRow(t) \/ Fault(t)
<1> USE DEF TypeOK
<1>1. ~(begin_txn(t) \/ abort_txn(t))
  BY DEF begin_txn, abort_txn
<1>2. ~\E k \in Key : GetAbsent(t, k) \/ GetFound(t, k)
  BY DEF GetAbsent, GetFound, Return, GoOn
<1>3. ~\E k \in Key, v \in Value : PutAbsent(t, k, v) \/ PutFound(t, k, v)
  BY DEF PutAbsent, PutFound, GoOn
<1>4. ~(RowRefused(t) \/ Read(t) \/ Update(t) \/ Insert(t))
  BY DEF RowRefused, Read, Update, Insert, Return
<1>5. ~(DrawEndTs(t) \/ Install(t) \/ ValidateAbort(t) \/ commit_return(t))
  BY DEF DrawEndTs, Install, ValidateAbort, commit_return
<1>6. ~release(t)
  BY DEF release
<1> QED
  BY <1>1, <1>2, <1>3, <1>4, <1>5, <1>6 DEF Request, Step

LEMMA ToLatchFacts ==
  ASSUME IInv, NEW t \in Txn, NEW s \in ToLatch(t)
  PROVE  /\ s \in Row /\ s \notin locked[t] /\ pk(s) \in Pk /\ pk(s) \in Nat
         /\ accesses[t][pk(s)] # NULL /\ accesses[t][pk(s)].orig_row = s
<1>1. PICK p \in Pk : accesses[t][p] # NULL /\ s = accesses[t][p].orig_row
  BY DEF ToLatch, Accessed
<1>2. s \in Row /\ pk(s) = p
  BY <1>1 DEF IInv, RowsOK, TypeOK, Access
<1> QED
  BY <1>1, <1>2, ConstantFacts DEF ToLatch

LEMMA OrderStep == IInv /\ LockOrder /\ [Next]_vars => LockOrder'
<1> SUFFICES ASSUME IInv, LockOrder, [Next]_vars, NEW u \in Txn, pc'[u] = "validate"
             PROVE  /\ \A r \in locked'[u] : /\ accesses'[u][pk(r)] # NULL
                                            /\ accesses'[u][pk(r)].orig_row = r
                    /\ \A r \in locked'[u], s \in ToLatch(u)' : pk(r) < pk(s)
  BY DEF LockOrder
<1> USE DEF IInv
<1>1. CASE commit(u)
  <2>1. locked'[u] = {}
    BY <1>1 DEF commit, txnVars, LatchesMatch
  <2> QED
    BY <2>1
<1>2. CASE LatchRow(u)
  <2>1. PICK r \in Row : /\ IsFirst(r, ToLatch(u))
                         /\ locked' = [locked EXCEPT ![u] = locked[u] \cup {r}]
    BY <1>2 DEF LatchRow
  <2>2. accesses' = accesses /\ pc[u] = "validate" /\ locked'[u] = locked[u] \cup {r}
    BY <1>2, <2>1 DEF LatchRow, TypeOK
  <2>3. ToLatch(u)' = ToLatch(u) \ {r}
    BY <2>2 DEF ToLatch, Accessed
  <2>4. accesses[u][pk(r)] # NULL /\ accesses[u][pk(r)].orig_row = r
    BY <2>1, ToLatchFacts DEF IsFirst
  <2>5. ASSUME NEW q \in locked'[u], NEW s \in ToLatch(u)' PROVE pk(q) < pk(s)
    <3>1. s \in ToLatch(u) /\ s # r
      BY <2>3
    <3>2. CASE q \in locked[u]
      BY <2>2, <3>1, <3>2 DEF LockOrder
    <3>3. CASE q = r
      <4>1. pk(r) <= pk(s)
        BY <2>1, <3>1 DEF IsFirst
      <4>2. accesses[u][pk(s)].orig_row = s /\ pk(s) \in Nat /\ pk(r) \in Nat
        BY <2>1, <3>1, ToLatchFacts DEF IsFirst
      <4>3. pk(r) # pk(s)
        BY <2>4, <3>1, <4>2
      <4> QED
        BY <3>3, <4>1, <4>2, <4>3
    <3> QED
      BY <2>2, <3>2, <3>3
  <2> QED
    BY <2>2, <2>4, <2>5 DEF LockOrder
<1>3. CASE pc'[u] = pc[u] /\ locked'[u] = locked[u] /\ accesses'[u] = accesses[u]
  BY <1>3, OrderFrame
<1>4. CASE UNCHANGED vars
  BY <1>4, <1>3 DEF vars
<1>5. ASSUME NEW t \in Txn, t # u, Request(t) \/ Step(t) \/ Fault(t)
      PROVE  pc'[u] = pc[u] /\ locked'[u] = locked[u] /\ accesses'[u] = accesses[u]
  BY <1>5, OthersUntouched
<1>6. CASE Request(u) \/ Step(u) \/ Fault(u)
  <2>1. CASE Fault(u)
    BY <2>1, <1>3 DEF Fault
  <2> QED
    BY <1>1, <1>2, <1>6, <2>1, StaysInValidate
<1> QED
  BY <1>3, <1>4, <1>5, <1>6 DEF Next, Stopped

LEMMA OrderImplies == IInv /\ LockOrder => WaitsAscend
<1> SUFFICES ASSUME IInv, LockOrder, NEW t \in Txn, NEW u \in Txn, NEW r \in Row, NEW s \in Row,
                    latch[r] = u, pc[u] = "validate", IsFirst(s, ToLatch(u))
             PROVE  pk(r) < pk(s)
  BY DEF WaitsAscend
<1>1. r \in locked[u]
  BY DEF IInv, LatchesMatch
<1> QED
  BY <1>1 DEF LockOrder, IsFirst

\* No cycle of transactions waiting for each other's latches, however many
\* transactions and rows there are: validate cannot deadlock.
THEOREM NoWaitCycle == Spec => []WaitsAscend
<1>1. Init => LockOrder
  BY DEF Init, LockOrder
<1>2. Spec => []LockOrder
  BY <1>1, Invariance, OrderStep, PTL DEF Spec
<1> QED
  BY <1>2, Invariance, OrderImplies, PTL

-----------------------------------------------------------------------------
(***************************************************************************)
(* The engine implements its two abstract specifications.                  *)
(*                                                                         *)
(* SerialKV: transactions on the loaded records are serializable in the    *)
(* order of end_ts.  begin_txn is a Begin; Read is a Get and Update a Put, *)
(* when their row is a loaded one; DrawEndTs is a Commit; ValidateAbort    *)
(* and abort_txn are an Abort; every other step, and the writes of         *)
(* Install, are stutters.  KvApi follows after it.                         *)
(***************************************************************************)

serialVars == <<Db, Status, snap, Seen, Wr>>

\* The two facts that the refinement needs beside IInv.
Snapshots == SnapOK /\ SeenOK

\* Committed in terms of the one transaction, if any, that has p's row pending.
CommittedIs ==
  \A p \in LoadedPk :
    /\ Committed(p) \in Value
    /\ \A t \in Txn : Pending(t, p) => /\ Committed(p) = accesses[t][p].data.val
                                       /\ \A u \in Txn : Pending(u, p) => u = t
    /\ (\A t \in Txn : ~Pending(t, p)) => Committed(p) = data[<<Loader, p>>].val

LEMMA CommittedFacts == IInv => CommittedIs
<1> SUFFICES ASSUME IInv, NEW p \in LoadedPk
             PROVE  /\ Committed(p) \in Value
                    /\ \A t \in Txn : Pending(t, p) =>
                         /\ Committed(p) = accesses[t][p].data.val
                         /\ \A u \in Txn : Pending(u, p) => u = t
                    /\ (\A t \in Txn : ~Pending(t, p)) => Committed(p) = data[<<Loader, p>>].val
  BY DEF CommittedIs
<1>1. Committed(p) \in Value
  BY CommittedType DEF IInv
<1>2. ASSUME NEW t \in Txn, NEW u \in Txn, Pending(t, p), Pending(u, p) PROVE u = t
  <2>1. <<Loader, p>> \in locked[t] /\ <<Loader, p>> \in locked[u] /\ <<Loader, p>> \in Row
    BY <1>2, LoadedRow, WritesLoaded DEF Pending, IInv, CommitLatched
  <2> QED
    BY <2>1 DEF IInv, LatchesMatch
<1>3. ASSUME NEW t \in Txn, Pending(t, p) PROVE Committed(p) = accesses[t][p].data.val
  <2> DEFINE w == CHOOSE u \in Txn : Pending(u, p)
  <2>1. w \in Txn /\ Pending(w, p)
    BY <1>3
  <2>2. w = t
    BY <1>2, <1>3, <2>1
  <2>3. Committed(p) = accesses[w][p].data.val
    BY <1>3 DEF Committed
  <2> HIDE DEF w
  <2> QED
    BY <2>2, <2>3
<1>4. ASSUME \A t \in Txn : ~Pending(t, p) PROVE Committed(p) = data[<<Loader, p>>].val
  BY <1>4 DEF Committed
<1> QED
  BY <1>1, <1>2, <1>3, <1>4

\* The same of the next state.
LEMMA CommittedNext == IInv' => CommittedIs'
BY CommittedFacts, PTL

\* Committed values do not change while the loaded rows and the commits that
\* have them pending stay the same.
LEMMA DbFrame ==
  ASSUME IInv, IInv',
         \A p \in LoadedPk : data'[<<Loader, p>>] = data[<<Loader, p>>],
         \A u \in Txn, p \in LoadedPk :
           /\ Pending(u, p)' <=> Pending(u, p)
           /\ Pending(u, p) => accesses'[u][p] = accesses[u][p]
  PROVE  Db' = Db
<1>1. ASSUME NEW p \in LoadedPk PROVE Committed(p)' = Committed(p)
  <2>1. CASE \E u \in Txn : Pending(u, p)
    <3>1. PICK u \in Txn : Pending(u, p)
      BY <2>1
    <3>2. Committed(p) = accesses[u][p].data.val
      BY <3>1, CommittedFacts DEF CommittedIs
    <3>3. Committed(p)' = accesses'[u][p].data.val
      BY <3>1, CommittedNext DEF CommittedIs
    <3> QED
      BY <3>1, <3>2, <3>3
  <2>2. CASE \A u \in Txn : ~Pending(u, p)
    <3>1. Committed(p) = data[<<Loader, p>>].val
      BY <2>2, CommittedFacts DEF CommittedIs
    <3>2. Committed(p)' = data'[<<Loader, p>>].val
      BY <2>2, CommittedNext DEF CommittedIs
    <3> QED
      BY <3>1, <3>2
  <2> QED
    BY <2>1, <2>2
<1> QED
  BY <1>1 DEF Db

-----------------------------------------------------------------------------
(* Steps that no client of SerialKV sees. *)

LEMMA QuietFrame ==
  ASSUME IInv, IInv', Snapshots,
         UNCHANGED <<data, wts, accesses, snap>>,
         \A u \in Txn :
           /\ StatusOf(u)' = StatusOf(u)
           /\ Active(u)' <=> Active(u)
           /\ pc'[u] = "commit" <=> pc[u] = "commit"
           /\ Active(u) => start_ts'[u] = start_ts[u]
           /\ pc[u] = "commit" => end_ts'[u] = end_ts[u]
  PROVE  Snapshots' /\ UNCHANGED serialVars
<1>1. \A u \in Txn, p \in LoadedPk : Pending(u, p)' <=> Pending(u, p)
  BY DEF Pending, Writes
<1>2. Db' = Db
  BY <1>1, DbFrame
<1>3. Status' = Status /\ Seen' = Seen /\ Wr' = Wr
  BY DEF Status, Seen, Wr, SeenOf, WrOf
<1>4. SeenOK'
  BY DEF Snapshots, SeenOK
<1>5. SnapOK'
  <2> SUFFICES ASSUME NEW t \in Txn, NEW p \in LoadedPk, Active(t) PROVE SnapAt(t, p)'
    BY DEF SnapOK
  <2>1. SnapAt(t, p)
    BY DEF Snapshots, SnapOK
  <2>2. \A u \in Txn : Pending(u, p) => end_ts'[u] = end_ts[u]
    BY DEF Pending
  <2> QED
    BY <1>1, <2>1, <2>2 DEF SnapAt
<1> QED
  BY <1>2, <1>3, <1>4, <1>5 DEF Snapshots, serialVars

LEMMA QuietSteps ==
  ASSUME IInv, IInv', Snapshots, NEW t \in Txn,
         \/ \E k \in Key : \/ GetAbsent(t, k) \/ GetFound(t, k)
                           \/ \E v \in Value : PutAbsent(t, k, v) \/ PutFound(t, k, v)
         \/ RowRefused(t) \/ commit(t) \/ LatchRow(t) \/ release(t) \/ commit_return(t)
         \/ Fault(t)
  PROVE  Snapshots' /\ UNCHANGED serialVars
<1> USE DEF IInv, TypeOK, StatusOf, Active, HasCommitted, rowVars, txnVars
<1>1. CASE \E k \in Key : GetAbsent(t, k) \/ GetFound(t, k)
  BY <1>1, QuietFrame DEF GetAbsent, GetFound, Return, GoOn
<1>2. CASE \E k \in Key, v \in Value : PutAbsent(t, k, v) \/ PutFound(t, k, v)
  BY <1>2, QuietFrame DEF PutAbsent, PutFound, GoOn
<1>3. CASE RowRefused(t)
  BY <1>3, QuietFrame DEF RowRefused, Return
<1>4. CASE commit(t)
  BY <1>4, QuietFrame DEF commit
<1>5. CASE LatchRow(t)
  BY <1>5, QuietFrame DEF LatchRow
<1>6. CASE release(t)
  BY <1>6, QuietFrame DEF release
<1>7. CASE commit_return(t)
  BY <1>7, QuietFrame DEF commit_return
<1>8. CASE Fault(t)
  BY <1>8, QuietFrame DEF Fault
<1> QED
  BY <1>1, <1>2, <1>3, <1>4, <1>5, <1>6, <1>7, <1>8
-----------------------------------------------------------------------------
(* Steps that a client of SerialKV sees. *)

\* What the steps below have in common: a step of t, after which no commit is
\* pending that was not, except those of t.
LEMMA OthersFrame ==
  ASSUME IInv, NEW t \in Txn,
         \A u \in Txn : u # t => /\ pc'[u] = pc[u] /\ rc'[u] = rc[u]
                                 /\ accesses'[u] = accesses[u]
  PROVE  \A u \in Txn : u # t =>
           /\ StatusOf(u)' = StatusOf(u)
           /\ Active(u)' <=> Active(u)
           /\ \A p \in LoadedPk : /\ SeenOf(u, p)' = SeenOf(u, p)
                                  /\ WrOf(u, p)' = WrOf(u, p)
                                  /\ Pending(u, p)' <=> Pending(u, p)
BY DEF StatusOf, Active, HasCommitted, SeenOf, WrOf, Pending, Writes

\* The snapshot taken at start_ts is the committed state, and every end_ts and
\* wts drawn so far is older.
LEMMA BeginRefines ==
  ASSUME IInv, IInv', Snapshots, NEW t \in Txn, begin_txn(t)
  PROVE  Snapshots' /\ Serial!Begin(t)
<1>1. /\ pc[t] = "idle" /\ pc'[t] = "ready" /\ accesses' = accesses /\ accesses[t] = NoAccesses
      /\ start_ts'[t] = timestamp
      /\ snap' = [snap EXCEPT ![t] = Db]
      /\ UNCHANGED <<data, wts, end_ts>>
      /\ \A u \in Txn : u # t => /\ pc'[u] = pc[u] /\ rc'[u] = rc[u]
                                 /\ start_ts'[u] = start_ts[u] /\ snap'[u] = snap[u]
  <2>1. accesses[t] = NoAccesses
    BY DEF begin_txn, IInv, SetsOK, Running, Active
  <2>2. snap' = [snap EXCEPT ![t] = Db]
    BY DEF begin_txn, Db
  <2>3. pc \in [Txn -> PcSet] /\ start_ts \in [Txn -> Nat]
        /\ snap \in [Txn -> [LoadedPk -> Value \cup {NULL}]]
    BY DEF IInv, TypeOK
  <2>4. pc'[t] = "ready" /\ start_ts'[t] = timestamp
    BY <2>3 DEF begin_txn
  <2>5. \A u \in Txn : u # t => /\ pc'[u] = pc[u] /\ rc'[u] = rc[u]
                                /\ start_ts'[u] = start_ts[u] /\ snap'[u] = snap[u]
    BY <2>3 DEF begin_txn
  <2> QED
    BY <2>1, <2>2, <2>4, <2>5 DEF begin_txn, rowVars
<1>2. ~Active(t) /\ Active(t)' /\ StatusOf(t) = "idle" /\ StatusOf(t)' = "active"
  BY <1>1 DEF Active, StatusOf
<1>3. \A p \in LoadedPk : ~Pending(t, p) /\ ~Pending(t, p)'
  BY <1>1 DEF Pending
<1>4. \A u \in Txn : u # t =>
        /\ StatusOf(u)' = StatusOf(u)
        /\ Active(u)' <=> Active(u)
        /\ \A p \in LoadedPk : /\ SeenOf(u, p)' = SeenOf(u, p)
                               /\ WrOf(u, p)' = WrOf(u, p)
                               /\ Pending(u, p)' <=> Pending(u, p)
  BY <1>1, OthersFrame
<1>5. \A p \in LoadedPk : /\ SeenOf(t, p) = NULL /\ SeenOf(t, p)' = NULL
                          /\ WrOf(t, p) = NULL /\ WrOf(t, p)' = NULL
  BY <1>1, LoadedRow DEF SeenOf, WrOf, NoAccesses
<1>6. Db' = Db
  BY <1>1, <1>3, <1>4, DbFrame
<1>7. Seen' = Seen /\ Wr' = Wr
  BY <1>4, <1>5 DEF Seen, Wr
<1>8. Status' = [Status EXCEPT ![t] = "active"] /\ Status[t] = "idle"
  BY <1>2, <1>4 DEF Status
<1>9. SnapOK'
  <2> SUFFICES ASSUME NEW u \in Txn, NEW p \in LoadedPk, Active(u)' PROVE SnapAt(u, p)'
    BY DEF SnapOK
  <2>1. CASE u = t
    <3>1. snap'[t][p] = Committed(p)
      BY <1>1 DEF Db, IInv, TypeOK
    <3>2. \A w \in Txn : end_ts[w] < timestamp
      BY DEF IInv, TimeOK
    <3>3. \A w \in Txn : Pending(w, p)' <=> Pending(w, p)
      BY <1>3, <1>4
    <3>4. \A w \in Txn : Pending(w, p)' => snap'[t][p] = accesses'[w][p].data.val
      BY <1>1, <3>1, <3>3, CommittedFacts DEF CommittedIs
    <3>5. (\A w \in Txn : Pending(w, p)' => timestamp < end_ts[w])
            => snap'[t][p] = data'[<<Loader, p>>].val
      <4>1. \A w \in Txn : ~(timestamp < end_ts[w])
        BY <3>2 DEF IInv, TypeOK
      <4> QED
        BY <1>1, <3>1, <3>3, <4>1, CommittedFacts DEF CommittedIs
    <3> QED
      BY <1>1, <2>1, <3>4, <3>5 DEF SnapAt
  <2>2. CASE u # t
    <3>1. SnapAt(u, p)
      BY <1>4, <2>2 DEF Snapshots, SnapOK
    <3>2. \A w \in Txn : Pending(w, p)' <=> Pending(w, p)
      BY <1>3, <1>4
    <3> QED
      BY <1>1, <2>2, <3>1, <3>2 DEF SnapAt
  <2> QED
    BY <2>1, <2>2
<1>10. SeenOK'
  <2> SUFFICES ASSUME NEW u \in Txn, NEW p \in LoadedPk, Active(u)', accesses'[u][p] # NULL
               PROVE  accesses'[u][p].orig_data.val = snap'[u][p]
    BY DEF SeenOK
  <2>1. u # t
    BY <1>1, LoadedRow DEF NoAccesses
  <2> QED
    BY <1>1, <1>4, <2>1 DEF Snapshots, SeenOK
<1> QED
  BY <1>1, <1>6, <1>7, <1>8, <1>9, <1>10 DEF Snapshots, Serial!Begin

\* A row that is not refused and not latched has t's snapshot value.
LEMMA FreshCopy ==
  ASSUME IInv, Snapshots, NEW t \in Txn, NEW p \in LoadedPk, Active(t),
         latch[<<Loader, p>>] = NULL, ~(start_ts[t] < wts[<<Loader, p>>])
  PROVE  data[<<Loader, p>>].val = snap[t][p]
<1>1. wts[<<Loader, p>>] <= start_ts[t]
  BY LoadedRow DEF IInv, TypeOK
<1>2. \A u \in Txn : ~Pending(u, p)
  <2> SUFFICES ASSUME NEW u \in Txn, Pending(u, p) PROVE FALSE
    OBVIOUS
  <2>1. <<Loader, p>> \in locked[u] /\ <<Loader, p>> \in Row
    BY LoadedRow, WritesLoaded DEF Pending, IInv, CommitLatched
  <2> QED
    BY <2>1, NullAssumption DEF IInv, LatchesMatch
<1> QED
  BY <1>1, <1>2 DEF Snapshots, SnapOK, SnapAt

\* The change that Read, Update and Insert make to t's sets.
LEMMA AccessRefines ==
  ASSUME IInv, IInv', Snapshots, NEW t \in Txn, NEW r \in Row, NEW a \in Access,
         Active(t), pc'[t] = "ready",
         \A u \in Txn : u # t => pc'[u] = pc[u],
         accesses' = [accesses EXCEPT ![t][pk(r)] = a],
         UNCHANGED <<wts, start_ts, end_ts, rc, snap>>,
         \A p \in LoadedPk : data'[<<Loader, p>>] = data[<<Loader, p>>],
         pk(r) \in LoadedPk => a.orig_data.val = snap[t][pk(r)]
  PROVE  /\ Snapshots'
         /\ Db' = Db /\ Status' = Status
         /\ pk(r) \notin LoadedPk => Seen' = Seen /\ Wr' = Wr
         /\ pk(r) \in LoadedPk =>
              /\ Seen' = [Seen EXCEPT ![t][pk(r)] = snap[t][pk(r)]]
              /\ Wr' = [Wr EXCEPT ![t][pk(r)] = WrOf(t, pk(r))']
              /\ WrOf(t, pk(r))' = IF a.type = "WR" THEN a.data.val ELSE NULL
<1>1. pk(r) \in Pk /\ a # NULL
  BY ConstantFacts
<1>2. /\ accesses'[t][pk(r)] = a
      /\ \A u \in Txn, p \in Pk : u # t \/ p # pk(r) => accesses'[u][p] = accesses[u][p]
      /\ \A u \in Txn : u # t => accesses'[u] = accesses[u]
  BY <1>1 DEF IInv, TypeOK
<1>3. Active(t)' /\ StatusOf(t)' = "active" /\ StatusOf(t) = "active"
  BY DEF Active, StatusOf
<1>4. \A p \in LoadedPk : ~Pending(t, p) /\ ~Pending(t, p)'
  BY DEF Pending, Active
<1>5. \A u \in Txn : u # t =>
        /\ StatusOf(u)' = StatusOf(u)
        /\ Active(u)' <=> Active(u)
        /\ \A p \in LoadedPk : /\ SeenOf(u, p)' = SeenOf(u, p)
                               /\ WrOf(u, p)' = WrOf(u, p)
                               /\ Pending(u, p)' <=> Pending(u, p)
  BY <1>2, OthersFrame
<1>6. Db' = Db
  BY <1>2, <1>4, <1>5, DbFrame
<1>7. Status' = Status
  BY <1>3, <1>5 DEF Status
<1>8. \A p \in LoadedPk : p # pk(r) => SeenOf(t, p)' = SeenOf(t, p) /\ WrOf(t, p)' = WrOf(t, p)
  BY <1>2, <1>3, LoadedRow DEF SeenOf, WrOf
<1>9. ASSUME pk(r) \in LoadedPk
      PROVE  /\ SeenOf(t, pk(r))' = snap[t][pk(r)]
             /\ WrOf(t, pk(r))' = IF a.type = "WR" THEN a.data.val ELSE NULL
  BY <1>1, <1>2, <1>3, <1>9 DEF SeenOf, WrOf
<1>10. ASSUME pk(r) \in LoadedPk
       PROVE  /\ Seen' = [Seen EXCEPT ![t][pk(r)] = snap[t][pk(r)]]
              /\ Wr' = [Wr EXCEPT ![t][pk(r)] = WrOf(t, pk(r))']
  <2>1. Seen' = [Seen EXCEPT ![t][pk(r)] = snap[t][pk(r)]]
    BY <1>5, <1>8, <1>9, <1>10 DEF Seen
  <2>2. Wr' = [Wr EXCEPT ![t][pk(r)] = WrOf(t, pk(r))']
    BY <1>5, <1>8, <1>10 DEF Wr
  <2> QED
    BY <2>1, <2>2
<1>11. pk(r) \notin LoadedPk => Seen' = Seen /\ Wr' = Wr
  BY <1>5, <1>8 DEF Seen, Wr
<1>12. SnapOK'
  <2> SUFFICES ASSUME NEW u \in Txn, NEW p \in LoadedPk, Active(u)' PROVE SnapAt(u, p)'
    BY DEF SnapOK
  <2>1. SnapAt(u, p)
    BY <1>5 DEF Snapshots, SnapOK
  <2>2. \A w \in Txn : /\ Pending(w, p)' <=> Pending(w, p)
                       /\ Pending(w, p) => accesses'[w] = accesses[w]
    BY <1>2, <1>4, <1>5
  <2> QED
    BY <2>1, <2>2 DEF SnapAt
<1>13. SeenOK'
  <2> SUFFICES ASSUME NEW u \in Txn, NEW p \in LoadedPk, Active(u)', accesses'[u][p] # NULL
               PROVE  accesses'[u][p].orig_data.val = snap[u][p]
    BY DEF SeenOK
  <2>1. CASE u = t /\ p = pk(r)
    BY <1>2, <2>1
  <2>2. CASE u # t \/ p # pk(r)
    <3>1. accesses'[u][p] = accesses[u][p]
      BY <1>2, <2>2, LoadedRow
    <3> QED
      BY <1>5, <3>1 DEF Snapshots, SeenOK
  <2> QED
    BY <2>1, <2>2
<1> QED
  BY <1>6, <1>7, <1>9, <1>10, <1>11, <1>12, <1>13 DEF Snapshots

LEMMA ReadRefines ==
  ASSUME IInv, IInv', Snapshots, NEW t \in Txn, Read(t)
  PROVE  /\ Snapshots'
         /\ UNCHANGED serialVars \/ \E p \in LoadedPk : Serial!Get(t, p)
<1>0. PICK r \in Row : r = call[t].row
  BY DEF Read, IInv, CallOK
<1>1. pk(r) \in LoadedPk => r = <<Loader, pk(r)>>
  BY <1>0, ConstantFacts DEF Read, IInv, CallOK
<1>2. PICK a \in Access : a = get_row(t, r, "RD")
  BY GetRowType DEF AccessType, IInv
<1>3. /\ pc[t] = "read" /\ CanGetRow(t, r) /\ ~Refused(t, r)
      /\ accesses' = [accesses EXCEPT ![t][pk(r)] = a]
      /\ UNCHANGED <<wts, start_ts, end_ts, rc, snap, data>>
      /\ pc' = [pc EXCEPT ![t] = "ready"]
  BY <1>0, <1>2 DEF Read, SetAccess, Return, rowVars
<1>4. pc'[t] = "ready" /\ (\A u \in Txn : u # t => pc'[u] = pc[u]) /\ Active(t)
  BY <1>3 DEF IInv, TypeOK, Active
<1>5. /\ accesses[t][pk(r)] # NULL =>
           /\ a.orig_data = accesses[t][pk(r)].orig_data
           /\ a.type = accesses[t][pk(r)].type /\ a.data = accesses[t][pk(r)].data
      /\ accesses[t][pk(r)] = NULL => a.orig_data = data[r] /\ a.type = "RD"
  BY <1>2 DEF get_row
<1>6. pk(r) \in LoadedPk => a.orig_data.val = snap[t][pk(r)]
  <2>1. CASE accesses[t][pk(r)] # NULL
    BY <1>4, <1>5, <2>1 DEF Snapshots, SeenOK
  <2>2. CASE accesses[t][pk(r)] = NULL
    BY <1>1, <1>3, <1>4, <1>5, <2>2, FreshCopy DEF CanGetRow, Refused
  <2> QED
    BY <2>1, <2>2
<1>7. pk(r) \in LoadedPk => WrOf(t, pk(r))' = WrOf(t, pk(r))
  <2>1. WrOf(t, pk(r)) = IF accesses[t][pk(r)] # NULL /\ accesses[t][pk(r)].type = "WR"
                         THEN accesses[t][pk(r)].data.val ELSE NULL
    BY <1>4 DEF WrOf
  <2>2. Active(t)' /\ (pk(r) \in LoadedPk => accesses'[t][pk(r)] = a) /\ a # NULL
    BY <1>1, <1>2, <1>3, <1>4, ConstantFacts DEF Active, IInv, TypeOK
  <2>3. pk(r) \in LoadedPk => WrOf(t, pk(r))' = IF a.type = "WR" THEN a.data.val ELSE NULL
    BY <2>2 DEF WrOf
  <2> QED
    BY <1>5, <2>1, <2>3
<1>8. /\ Snapshots' /\ Db' = Db /\ Status' = Status
      /\ pk(r) \notin LoadedPk => Seen' = Seen /\ Wr' = Wr
      /\ pk(r) \in LoadedPk => /\ Seen' = [Seen EXCEPT ![t][pk(r)] = snap[t][pk(r)]]
                               /\ Wr' = [Wr EXCEPT ![t][pk(r)] = WrOf(t, pk(r))']
  BY <1>1, <1>2, <1>3, <1>4, <1>6, AccessRefines
<1>9. CASE pk(r) \notin LoadedPk
  BY <1>3, <1>8, <1>9 DEF serialVars
<1>10. CASE pk(r) \in LoadedPk
  <2>1. Wr' = Wr
    <3>1. Wr' = [Wr EXCEPT ![t][pk(r)] = WrOf(t, pk(r))]
      BY <1>7, <1>8, <1>10
    <3> QED
      BY <1>10, <3>1 DEF Wr
  <2>2. Status[t] = "active"
    BY <1>4 DEF Status, StatusOf, Active
  <2>3. Serial!Get(t, pk(r))
    BY <1>3, <1>8, <1>10, <2>1, <2>2 DEF Serial!Get
  <2> QED
    BY <1>8, <1>10, <2>3
<1> QED
  BY <1>9, <1>10

LEMMA UpdateRefines ==
  ASSUME IInv, IInv', Snapshots, NEW t \in Txn, Update(t)
  PROVE  /\ Snapshots'
         /\ UNCHANGED serialVars \/ \E p \in LoadedPk : \E v \in Value : Serial!Put(t, p, v)
<1>0. PICK r \in Row : r = call[t].row
  BY DEF Update, IInv, CallOK
<1>1. (pk(r) \in LoadedPk => r = <<Loader, pk(r)>>) /\ call[t].val \in Value
  BY <1>0, ConstantFacts DEF Update, IInv, CallOK
<1>2. PICK g \in Access : g = get_row(t, r, "WR")
  BY GetRowType DEF AccessType, IInv
<1>3. PICK a \in Access :
        /\ a = IF g.data.key = call[t].key THEN [g EXCEPT !.data.val = val_buf[call[t].val]] ELSE g
        /\ a.orig_data = g.orig_data /\ a.type = g.type /\ a.data.val \in Value
  <2> DEFINE e == IF g.data.key = call[t].key THEN [g EXCEPT !.data.val = val_buf[call[t].val]] ELSE g
  <2>1. g.data \in RowData
    BY DEF Access
  <2>2. [g.data EXCEPT !.val = val_buf[call[t].val]] \in RowData
    BY <1>1, <2>1, CutValue DEF RowData
  <2>3. e \in Access /\ e.orig_data = g.orig_data /\ e.type = g.type
    BY <2>2 DEF Access
  <2> HIDE DEF e
  <2>4. e.data.val \in Value
    BY <2>3 DEF Access, RowData
  <2> QED
    BY <2>3, <2>4 DEF e
<1>4. /\ pc[t] = "update" /\ CanGetRow(t, r) /\ ~Refused(t, r)
      /\ accesses' = [accesses EXCEPT ![t][pk(r)] = a]
      /\ UNCHANGED <<wts, start_ts, end_ts, rc, snap, data>>
      /\ pc' = [pc EXCEPT ![t] = "ready"]
  BY <1>0, <1>2, <1>3 DEF Update, SetAccess, Return, rowVars
<1>5. pc'[t] = "ready" /\ (\A u \in Txn : u # t => pc'[u] = pc[u]) /\ Active(t)
  BY <1>4 DEF IInv, TypeOK, Active
<1>6. /\ accesses[t][pk(r)] # NULL => g.orig_data = accesses[t][pk(r)].orig_data
      /\ accesses[t][pk(r)] = NULL => g.orig_data = data[r]
      /\ g.type = "WR"
  BY <1>2 DEF get_row
<1>7. pk(r) \in LoadedPk => a.orig_data.val = snap[t][pk(r)]
  <2>1. CASE accesses[t][pk(r)] # NULL
    BY <1>3, <1>5, <1>6, <2>1 DEF Snapshots, SeenOK
  <2>2. CASE accesses[t][pk(r)] = NULL
    BY <1>1, <1>3, <1>4, <1>5, <1>6, <2>2, FreshCopy DEF CanGetRow, Refused
  <2> QED
    BY <2>1, <2>2
<1>8. /\ Snapshots' /\ Db' = Db /\ Status' = Status
      /\ pk(r) \notin LoadedPk => Seen' = Seen /\ Wr' = Wr
      /\ pk(r) \in LoadedPk => /\ Seen' = [Seen EXCEPT ![t][pk(r)] = snap[t][pk(r)]]
                               /\ Wr' = [Wr EXCEPT ![t][pk(r)] = WrOf(t, pk(r))']
                               /\ WrOf(t, pk(r))' = IF a.type = "WR" THEN a.data.val ELSE NULL
  BY <1>4, <1>5, <1>7, AccessRefines
<1>9. CASE pk(r) \notin LoadedPk
  BY <1>4, <1>8, <1>9 DEF serialVars
<1>10. CASE pk(r) \in LoadedPk
  <2>1. Status[t] = "active"
    BY <1>5 DEF Status, StatusOf, Active
  <2>2. Wr' = [Wr EXCEPT ![t][pk(r)] = a.data.val]
    BY <1>3, <1>6, <1>8, <1>10
  <2>3. Serial!Put(t, pk(r), a.data.val)
    BY <1>4, <1>8, <1>10, <2>1, <2>2 DEF Serial!Put
  <2> QED
    BY <1>3, <1>8, <1>10, <2>3
<1> QED
  BY <1>9, <1>10

\* An inserted row has a primary key of its own, so no loaded row is concerned.
LEMMA InsertRefines ==
  ASSUME IInv, IInv', Snapshots, NEW t \in Txn, Insert(t)
  PROVE  Snapshots' /\ UNCHANGED serialVars
<1> DEFINE k == call[t].key
           r == <<t, hash_key[k]>>
           d == RowOf(k, call[t].val)
           a == [type |-> "WR", orig_row |-> r, data |-> d, orig_data |-> d]
<1>1. /\ k \in Key /\ call[t].val \in Value /\ hash_key[k] \notin LoadedPk /\ hash_key[k] \in Pk
      /\ pc[t] = "insert"
  BY ConstantFacts DEF Insert, IInv, CallOK, Call
<1>2. r \in Row /\ pk(r) = hash_key[k]
  BY <1>1, ConstantFacts
<1>3. a \in Access
  BY <1>1, <1>2, ConstantsAssumption DEF RowOf, RowData, Access, AccessType
<1>4. /\ data' = [data EXCEPT ![r] = d]
      /\ accesses' = [accesses EXCEPT ![t][pk(r)] = a]
      /\ UNCHANGED <<wts, start_ts, end_ts, rc, snap>>
      /\ pc' = [pc EXCEPT ![t] = "ready"]
  BY DEF Insert, SetAccess, Return
<1>5. pc'[t] = "ready" /\ (\A u \in Txn : u # t => pc'[u] = pc[u]) /\ Active(t)
  BY <1>1, <1>4 DEF IInv, TypeOK, Active
<1>6. \A p \in LoadedPk : data'[<<Loader, p>>] = data[<<Loader, p>>]
  <2>1. \A p \in LoadedPk : <<Loader, p>> # r
    BY <1>1
  <2> HIDE DEF r, d
  <2> QED
    BY <1>4, <2>1, LoadedRow DEF IInv, TypeOK
<1>7. pk(r) \notin LoadedPk
  BY <1>1, <1>2
<1> HIDE DEF r, a, d, k
<1> QED
  BY <1>2, <1>3, <1>4, <1>5, <1>6, <1>7, AccessRefines DEF serialVars

\* t ends: nothing of its sets is left for a client of SerialKV.
LEMMA FinishFrame ==
  ASSUME IInv, NEW t \in Txn, NEW outcome, ~Active(t)', StatusOf(t)' = outcome,
         \A u \in Txn : u # t => /\ pc'[u] = pc[u] /\ rc'[u] = rc[u]
                                 /\ accesses'[u] = accesses[u],
         snap' = [snap EXCEPT ![t] = NoSnap]
  PROVE  Serial!Finish(t, outcome)
<1>1. \A u \in Txn : u # t =>
        /\ StatusOf(u)' = StatusOf(u)
        /\ \A p \in LoadedPk : SeenOf(u, p)' = SeenOf(u, p) /\ WrOf(u, p)' = WrOf(u, p)
  BY OthersFrame
<1>2. \A p \in LoadedPk : SeenOf(t, p)' = NULL /\ WrOf(t, p)' = NULL
  BY DEF SeenOf, WrOf
<1>3. Status' = [Status EXCEPT ![t] = outcome]
  BY <1>1 DEF Status
<1>4. Seen' = [Seen EXCEPT ![t] = [p \in LoadedPk |-> NULL]]
  BY <1>1, <1>2 DEF Seen
<1>5. Wr' = [Wr EXCEPT ![t] = [p \in LoadedPk |-> NULL]]
  BY <1>1, <1>2 DEF Wr
<1> QED
  BY <1>3, <1>4, <1>5 DEF Serial!Finish, NoSnap

\* The commit point.  Every copy t has used is current, so the records still
\* have the values t has seen; from here on they have the values t will write.
LEMMA DrawRefines ==
  ASSUME IInv, IInv', Snapshots, NEW t \in Txn, DrawEndTs(t)
  PROVE  Snapshots' /\ Serial!Commit(t)
<1>1. /\ pc[t] = "validate" /\ rc[t] = "RCOK" /\ ToLatch(t) = {}
      /\ pc' = [pc EXCEPT ![t] = "commit"]
      /\ end_ts' = [end_ts EXCEPT ![t] = timestamp]
      /\ snap' = [snap EXCEPT ![t] = NoSnap]
      /\ UNCHANGED <<data, wts, start_ts, accesses, rc>>
  BY DEF DrawEndTs, rowVars
<1>2. /\ pc'[t] = "commit" /\ end_ts'[t] = timestamp
      /\ \A u \in Txn : u # t => /\ pc'[u] = pc[u] /\ end_ts'[u] = end_ts[u]
                                 /\ snap'[u] = snap[u]
  BY <1>1 DEF IInv, TypeOK
<1>3. Active(t) /\ ~Active(t)' /\ StatusOf(t) = "active" /\ StatusOf(t)' = "committed"
  BY <1>1, <1>2 DEF Active, StatusOf, HasCommitted
<1>4. \A u \in Txn : u # t => /\ Active(u)' <=> Active(u)
                              /\ \A p \in LoadedPk : Pending(u, p)' <=> Pending(u, p)
  BY <1>1, <1>2, OthersFrame
<1>5. \A p \in LoadedPk : /\ ~Pending(t, p)
                          /\ Pending(t, p)' <=> Writes(t, <<Loader, p>>)
  BY <1>1, <1>2 DEF Pending, Writes
<1>6. Serial!Finish(t, "committed")
  BY <1>1, <1>2, <1>3, FinishFrame
<1>7. ASSUME NEW p \in LoadedPk, accesses[t][p] # NULL
      PROVE  Committed(p) = accesses[t][p].orig_data.val
  <2>1. accesses[t][p].orig_row = <<Loader, p>> /\ <<Loader, p>> \in Row
    BY <1>7, LoadedRow DEF IInv, RowsOK
  <2>2. <<Loader, p>> \in locked[t]
    BY <1>1, <1>7, <2>1, LoadedRow DEF ToLatch, Accessed
  <2>3. ~(start_ts[t] < wts[<<Loader, p>>])
    BY <1>1, <2>1, <2>2 DEF IInv, ValidatedOK, validate_row
  <2>4. data[<<Loader, p>>] = accesses[t][p].orig_data
    BY <1>3, <1>7, <2>1, <2>3, LoadedRow DEF IInv, CopiesOK, Running
  <2>5. \A u \in Txn : ~Pending(u, p)
    <3> SUFFICES ASSUME NEW u \in Txn, Pending(u, p) PROVE FALSE
      OBVIOUS
    <3>1. <<Loader, p>> \in locked[u]
      BY LoadedRow, WritesLoaded DEF Pending, IInv, CommitLatched
    <3>2. u = t
      BY <2>1, <2>2, <3>1 DEF IInv, LatchesMatch
    <3> QED
      BY <1>5, <3>2
  <2> QED
    BY <2>4, <2>5, CommittedFacts DEF CommittedIs
<1>8. \A p \in LoadedPk : Seen[t][p] # NULL => Db[p] = Seen[t][p]
  BY <1>3, <1>7 DEF Seen, SeenOf, Db
<1>9. ASSUME NEW p \in LoadedPk
      PROVE  Committed(p)' = IF WrOf(t, p) # NULL THEN WrOf(t, p) ELSE Committed(p)
  <2>1. CASE Writes(t, <<Loader, p>>)
    <3>1. accesses[t][p] # NULL /\ accesses[t][p].type = "WR"
      BY <2>1, WritesLoaded
    <3>2. accesses[t][p].data.val \in Value
      <4>1. accesses[t] \in [Pk -> Access \cup {NULL}]
        BY DEF IInv, TypeOK
      <4>2. accesses[t][p] \in Access
        BY <3>1, <4>1, LoadedRow
      <4> QED
        BY <4>2 DEF Access, RowData
    <3>3. Committed(p)' = accesses'[t][p].data.val
      BY <1>5, <2>1, CommittedNext DEF CommittedIs
    <3> QED
      BY <1>1, <1>3, <3>1, <3>2, <3>3, ConstantFacts DEF WrOf
  <2>2. CASE ~Writes(t, <<Loader, p>>)
    <3>1. WrOf(t, p) = NULL
      <4>1. accesses[t][p] # NULL => accesses[t][p].orig_row = <<Loader, p>>
        BY LoadedRow DEF IInv, RowsOK
      <4> QED
        BY <2>2, <4>1, WritesLoaded DEF WrOf
    <3>2. \A u \in Txn : Pending(u, p)' <=> Pending(u, p)
      BY <1>4, <1>5, <2>2
    <3>3. CASE \E u \in Txn : Pending(u, p)
      <4>1. PICK u \in Txn : Pending(u, p)
        BY <3>3
      <4>2. Committed(p) = accesses[u][p].data.val
        BY <4>1, CommittedFacts DEF CommittedIs
      <4>3. Committed(p)' = accesses'[u][p].data.val
        BY <3>2, <4>1, CommittedNext DEF CommittedIs
      <4> QED
        BY <1>1, <3>1, <4>2, <4>3
    <3>4. CASE \A u \in Txn : ~Pending(u, p)
      <4>1. Committed(p) = data[<<Loader, p>>].val
        BY <3>4, CommittedFacts DEF CommittedIs
      <4>2. Committed(p)' = data'[<<Loader, p>>].val
        BY <3>2, <3>4, CommittedNext DEF CommittedIs
      <4> QED
        BY <1>1, <3>1, <4>1, <4>2
    <3> QED
      BY <3>3, <3>4
  <2> QED
    BY <2>1, <2>2
<1>10. Db' = [p \in LoadedPk |-> IF Wr[t][p] # NULL THEN Wr[t][p] ELSE Db[p]]
  BY <1>9 DEF Db, Wr
<1>11. SnapOK'
  <2> SUFFICES ASSUME NEW u \in Txn, NEW p \in LoadedPk, Active(u)' PROVE SnapAt(u, p)'
    BY DEF SnapOK
  <2>1. u # t
    BY <1>3
  <2>2. SnapAt(u, p)
    BY <1>4, <2>1 DEF Snapshots, SnapOK
  <2>3. start_ts[u] < timestamp /\ ~(timestamp <= start_ts[u])
    BY DEF IInv, TimeOK, TypeOK
  <2>4. \A w \in Txn : Pending(w, p) => Pending(w, p)' /\ end_ts'[w] = end_ts[w]
    BY <1>2, <1>4, <1>5
  <2>5. \A w \in Txn : Pending(w, p)' => w = t \/ (Pending(w, p) /\ end_ts'[w] = end_ts[w])
    BY <1>2, <1>4
  <2> QED
    BY <1>1, <1>2, <2>1, <2>2, <2>3, <2>4, <2>5 DEF SnapAt
<1>12. SeenOK'
  BY <1>1, <1>2, <1>3, <1>4 DEF Snapshots, SeenOK
<1> QED
  BY <1>3, <1>6, <1>8, <1>10, <1>11, <1>12 DEF Snapshots, Serial!Commit, Status

\* The writes of a commit: a row that t had pending now holds the value it was
\* committed with, and a wts above every wts it had.
LEMMA InstallRefines ==
  ASSUME IInv, IInv', Snapshots, NEW t \in Txn, Install(t)
  PROVE  Snapshots' /\ UNCHANGED serialVars
<1>1. /\ pc[t] = "commit" /\ pc' = [pc EXCEPT ![t] = "release"]
      /\ data' = [r \in Row |-> IF Writes(t, r) THEN accesses[t][pk(r)].data ELSE data[r]]
      /\ wts' = [r \in Row |-> IF Writes(t, r) THEN end_ts[t] ELSE wts[r]]
      /\ accesses' = [accesses EXCEPT ![t] = NoAccesses]
      /\ UNCHANGED <<start_ts, end_ts, rc, snap>>
  BY DEF Install, ClearSets
<1>2. /\ pc'[t] = "release" /\ rc[t] = "RCOK"
      /\ \A u \in Txn : u # t => pc'[u] = pc[u] /\ accesses'[u] = accesses[u]
  BY <1>1 DEF IInv, TypeOK, SetsOK
<1>3. ~Active(t) /\ ~Active(t)' /\ StatusOf(t)' = StatusOf(t)
  BY <1>1, <1>2 DEF Active, StatusOf, HasCommitted
<1>4. \A u \in Txn : u # t =>
        /\ StatusOf(u)' = StatusOf(u)
        /\ Active(u)' <=> Active(u)
        /\ \A p \in LoadedPk : /\ SeenOf(u, p)' = SeenOf(u, p)
                               /\ WrOf(u, p)' = WrOf(u, p)
                               /\ Pending(u, p)' <=> Pending(u, p)
  BY <1>1, <1>2, OthersFrame
<1>5. \A p \in LoadedPk : /\ ~Pending(t, p)'
                          /\ Pending(t, p) <=> Writes(t, <<Loader, p>>)
  BY <1>1, <1>2 DEF Pending
<1>6. \A p \in LoadedPk :
        /\ Pending(t, p) => /\ data'[<<Loader, p>>] = accesses[t][p].data
                            /\ wts'[<<Loader, p>>] = end_ts[t]
                            /\ wts[<<Loader, p>>] < end_ts[t]
                            /\ \A u \in Txn : ~Pending(u, p)'
        /\ ~Pending(t, p) => /\ data'[<<Loader, p>>] = data[<<Loader, p>>]
                             /\ wts'[<<Loader, p>>] = wts[<<Loader, p>>]
  <2> TAKE p \in LoadedPk
  <2>1. <<Loader, p>> \in Row /\ pk(<<Loader, p>>) = p
    BY LoadedRow
  <2>2. CASE Pending(t, p)
    <3>1. end_ts[t] > wts[<<Loader, p>>]
      BY <1>1, <1>5, <2>1, <2>2 DEF IInv, WriteAdvancesWts
    <3>2. \A u \in Txn : ~Pending(u, p)'
      BY <1>4, <1>5, <2>2, CommittedFacts DEF CommittedIs
    <3>3. end_ts[t] \in Nat /\ wts[<<Loader, p>>] \in Nat
      BY <2>1 DEF IInv, TypeOK
    <3> QED
      BY <1>1, <1>5, <2>1, <2>2, <3>1, <3>2, <3>3
  <2>3. CASE ~Pending(t, p)
    BY <1>1, <1>5, <2>1, <2>3
  <2> QED
    BY <2>2, <2>3
<1>7. ASSUME NEW p \in LoadedPk PROVE Committed(p)' = Committed(p)
  <2>1. CASE Pending(t, p)
    <3>1. Committed(p) = accesses[t][p].data.val
      BY <2>1, CommittedFacts DEF CommittedIs
    <3>2. Committed(p)' = data'[<<Loader, p>>].val
      BY <1>6, <2>1, CommittedNext DEF CommittedIs
    <3> QED
      BY <1>6, <2>1, <3>1, <3>2
  <2>2. CASE ~Pending(t, p) /\ \E u \in Txn : Pending(u, p)
    <3>1. PICK u \in Txn : Pending(u, p)
      BY <2>2
    <3>2. u # t
      BY <2>2, <3>1
    <3>3. Committed(p) = accesses[u][p].data.val
      BY <3>1, CommittedFacts DEF CommittedIs
    <3>4. Committed(p)' = accesses'[u][p].data.val
      BY <1>4, <3>1, <3>2, CommittedNext DEF CommittedIs
    <3> QED
      BY <1>2, <3>2, <3>3, <3>4
  <2>3. CASE \A u \in Txn : ~Pending(u, p)
    <3>1. Committed(p) = data[<<Loader, p>>].val
      BY <2>3, CommittedFacts DEF CommittedIs
    <3>2. \A u \in Txn : ~Pending(u, p)'
      BY <1>4, <1>5, <2>3
    <3>3. Committed(p)' = data'[<<Loader, p>>].val
      BY <3>2, CommittedNext DEF CommittedIs
    <3> QED
      BY <1>6, <2>3, <3>1, <3>3
  <2> QED
    BY <2>1, <2>2, <2>3
<1>8. Db' = Db
  BY <1>7 DEF Db
<1>9. Status' = Status /\ Seen' = Seen /\ Wr' = Wr
  <2>1. \A p \in LoadedPk : /\ SeenOf(t, p) = NULL /\ SeenOf(t, p)' = NULL
                            /\ WrOf(t, p) = NULL /\ WrOf(t, p)' = NULL
    BY <1>3 DEF SeenOf, WrOf
  <2> QED
    BY <1>3, <1>4, <2>1 DEF Status, Seen, Wr
<1>10. SnapOK'
  <2> SUFFICES ASSUME NEW u \in Txn, NEW p \in LoadedPk, Active(u)' PROVE SnapAt(u, p)'
    BY DEF SnapOK
  <2>1. u # t /\ SnapAt(u, p)
    BY <1>3, <1>4 DEF Snapshots, SnapOK
  <2>2. CASE Pending(t, p)
    <3> SUFFICES ASSUME end_ts[t] <= start_ts[u]
                 PROVE  snap[u][p] = data'[<<Loader, p>>].val
      BY <1>1, <1>6, <2>2 DEF SnapAt
    <3>1. wts[<<Loader, p>>] <= start_ts[u]
      <4>1. /\ end_ts[t] \in Nat /\ start_ts[u] \in Nat /\ wts[<<Loader, p>>] \in Nat
            /\ wts[<<Loader, p>>] < end_ts[t]
        BY <1>6, <2>2, LoadedRow DEF IInv, TypeOK
      <4> QED
        BY <4>1
    <3>2. snap[u][p] = accesses[t][p].data.val
      BY <2>1, <2>2, <3>1 DEF SnapAt
    <3> QED
      BY <1>6, <2>2, <3>2
  <2>3. CASE ~Pending(t, p)
    <3>1. \A w \in Txn : /\ Pending(w, p)' <=> Pending(w, p)
                         /\ Pending(w, p) => accesses'[w] = accesses[w]
      BY <1>2, <1>4, <1>5, <2>3
    <3> QED
      BY <1>1, <1>6, <2>1, <2>3, <3>1 DEF SnapAt
  <2> QED
    BY <2>2, <2>3
<1>11. SeenOK'
  BY <1>1, <1>2, <1>3, <1>4 DEF Snapshots, SeenOK
<1> QED
  BY <1>1, <1>8, <1>9, <1>10, <1>11 DEF Snapshots, serialVars

\* A transaction that ends without a commit leaves the records alone.
LEMMA RollbackRefines ==
  ASSUME IInv, IInv', Snapshots, NEW t \in Txn, ValidateAbort(t) \/ abort_txn(t)
  PROVE  Snapshots' /\ Serial!Abort(t)
<1>1. /\ Active(t) /\ ~Active(t)' /\ StatusOf(t) = "active" /\ StatusOf(t)' = "aborted"
      /\ pc'[t] # "commit"
      /\ \A u \in Txn : u # t => /\ pc'[u] = pc[u] /\ rc'[u] = rc[u]
                                 /\ accesses'[u] = accesses[u] /\ snap'[u] = snap[u]
                                 /\ start_ts'[u] = start_ts[u]
      /\ snap' = [snap EXCEPT ![t] = NoSnap]
      /\ UNCHANGED <<data, wts, end_ts>>
  <2> USE DEF IInv, TypeOK, Active, StatusOf, HasCommitted, Rollback, ClearSets
  <2>1. CASE ValidateAbort(t)
    BY <2>1 DEF ValidateAbort
  <2>2. CASE abort_txn(t)
    BY <2>2 DEF abort_txn
  <2> QED
    BY <2>1, <2>2
<1>2. \A u \in Txn : u # t =>
        /\ Active(u)' <=> Active(u)
        /\ \A p \in LoadedPk : Pending(u, p)' <=> Pending(u, p)
  BY <1>1, OthersFrame
<1>3. \A p \in LoadedPk : ~Pending(t, p) /\ ~Pending(t, p)'
  BY <1>1 DEF Pending, Active
<1>4. \A u \in Txn, p \in LoadedPk :
        /\ Pending(u, p)' <=> Pending(u, p)
        /\ Pending(u, p) => accesses'[u] = accesses[u]
  BY <1>1, <1>2, <1>3
<1>5. Db' = Db
  BY <1>1, <1>4, DbFrame
<1>6. Serial!Finish(t, "aborted")
  BY <1>1, FinishFrame
<1>7. SnapOK'
  <2> SUFFICES ASSUME NEW u \in Txn, NEW p \in LoadedPk, Active(u)' PROVE SnapAt(u, p)'
    BY DEF SnapOK
  <2>1. u # t /\ SnapAt(u, p)
    BY <1>1, <1>2 DEF Snapshots, SnapOK
  <2> QED
    BY <1>1, <1>4, <2>1 DEF SnapAt
<1>8. SeenOK'
  BY <1>1, <1>2 DEF Snapshots, SeenOK
<1> QED
  BY <1>1, <1>5, <1>6, <1>7, <1>8 DEF Snapshots, Serial!Abort, Status
-----------------------------------------------------------------------------
(* The refinement. *)

\* The data file gives every loaded record its initial value.
LEMMA InitRefines == Init => Snapshots /\ Serial!Init
<1> SUFFICES ASSUME Init PROVE Snapshots /\ Serial!Init
  OBVIOUS
<1>1. \A t \in Txn : pc[t] = "idle" /\ ~Active(t)
  BY DEF Init, Active
<1>2. \A p \in LoadedPk : Committed(p) = val_buf[InitVal]
  <2> TAKE p \in LoadedPk
  <2>1. data[<<Loader, p>>].val = val_buf[InitVal]
    BY LoadedRow DEF Init, RowOf
  <2> QED
    BY <1>1, <2>1 DEF Committed, Pending
<1>3. Db = [p \in LoadedPk |-> val_buf[InitVal]]
  BY <1>2 DEF Db
<1>4. Status = [t \in Txn |-> "idle"]
  BY <1>1 DEF Status, StatusOf
<1>5. /\ Seen = [t \in Txn |-> [p \in LoadedPk |-> NULL]]
      /\ Wr = [t \in Txn |-> [p \in LoadedPk |-> NULL]]
  BY <1>1 DEF Seen, Wr, SeenOf, WrOf
<1>6. snap = [t \in Txn |-> [p \in LoadedPk |-> NULL]]
  BY DEF Init, NoSnap
<1> QED
  BY <1>1, <1>3, <1>4, <1>5, <1>6 DEF Snapshots, SnapOK, SeenOK, Serial!Init

\* Every step of the engine is a step of SerialKV or a stutter.
LEMMA NextRefines ==
  IInv /\ IInv' /\ Snapshots /\ [Next]_vars => Snapshots' /\ [Serial!Next]_serialVars
<1> SUFFICES ASSUME IInv, IInv', Snapshots, [Next]_vars
             PROVE  Snapshots' /\ [Serial!Next]_serialVars
  OBVIOUS
<1>1. ASSUME NEW t \in Txn, Request(t) PROVE Snapshots' /\ [Serial!Next]_serialVars
  <2>1. CASE begin_txn(t)
    BY <2>1, BeginRefines DEF Serial!Next
  <2>2. ASSUME NEW k \in Key, GetAbsent(t, k) \/ GetFound(t, k)
        PROVE  Snapshots' /\ UNCHANGED serialVars
    BY <2>2, QuietSteps, ConstantsAssumption
  <2>3. ASSUME NEW k \in Key, NEW v \in Value, PutAbsent(t, k, v) \/ PutFound(t, k, v)
        PROVE  Snapshots' /\ UNCHANGED serialVars
    BY <2>3, QuietSteps
  <2>4. CASE commit(t)
    BY <2>4, QuietSteps
  <2>5. CASE abort_txn(t)
    BY <2>5, RollbackRefines DEF Serial!Next
  <2> QED
    BY <1>1, <2>1, <2>2, <2>3, <2>4, <2>5 DEF Request
<1>2. ASSUME NEW t \in Txn, Step(t) PROVE Snapshots' /\ [Serial!Next]_serialVars
  <2>1. CASE RowRefused(t) \/ LatchRow(t) \/ release(t) \/ commit_return(t)
    BY <2>1, QuietSteps
  <2>2. CASE Read(t)
    BY <2>2, ReadRefines DEF Serial!Next
  <2>3. CASE Update(t)
    BY <2>3, UpdateRefines DEF Serial!Next
  <2>4. CASE Insert(t)
    BY <2>4, InsertRefines
  <2>5. CASE DrawEndTs(t)
    BY <2>5, DrawRefines DEF Serial!Next
  <2>6. CASE Install(t)
    BY <2>6, InstallRefines
  <2>7. CASE ValidateAbort(t)
    BY <2>7, RollbackRefines DEF Serial!Next
  <2> QED
    BY <1>2, <2>1, <2>2, <2>3, <2>4, <2>5, <2>6, <2>7 DEF Step
<1>3. ASSUME NEW t \in Txn, Fault(t) PROVE Snapshots' /\ [Serial!Next]_serialVars
  BY <1>3, QuietSteps
<1>4. CASE UNCHANGED vars
  BY <1>4, QuietFrame DEF vars, StatusOf, Active, HasCommitted
<1> QED
  BY <1>1, <1>2, <1>3, <1>4 DEF Next, Stopped

\* A running transaction has only ever seen the committed values of the instant
\* at which begin_txn drew its start_ts.
THEOREM SnapshotReads == Spec => []RefInv
<1>1. Spec => []Snapshots
  BY Invariance, InitRefines, NextRefines, PTL DEF Spec
<1> QED
  BY <1>1, Invariance, PTL DEF RefInv, Snapshots

\* Transactions on the loaded records are serializable in the order of end_ts,
\* however many transactions, rows and values there are: what Row_occ::access,
\* validate and the write phase do together is one atomic commit.
THEOREM RefinesSerialKV == Spec => Serializable
<1>1. Spec => []Snapshots
  BY SnapshotReads, PTL DEF RefInv, Snapshots
<1>2. Spec => Serial!Init /\ [][Serial!Next]_serialVars
  BY <1>1, Invariance, InitRefines, NextRefines, PTL DEF Spec
<1> QED
  BY <1>2 DEF Serializable, Serial!Spec, serialVars, Serial!vars
-----------------------------------------------------------------------------
(***************************************************************************)
(* The proof that the transaction engine implements KvApi when every key   *)
(* is loaded: each call of kv_api.h takes effect at one instant.           *)
(*                                                                         *)
(* get takes effect where its row is copied or refused (Read, RowRefused), *)
(* put where the copy is changed or refused (Update, RowRefused), commit   *)
(* where end_ts is drawn or validation has failed (DrawEndTs,              *)
(* ValidateAbort).  Probing the index, latching, writing the rows,         *)
(* unlatching and returning change nothing that a caller sees.             *)
(*                                                                         *)
(* What is stale to a caller is what its transaction would be refused: the *)
(* wts of a record counts a commit from the moment its end_ts is drawn, as *)
(* its row stays latched from there until it has that wts.                 *)
(***************************************************************************)

apiView == <<Db, Ctx, Rc>>

\* What the answers of GET, PUT and COMMIT rest on, beside RefInv.
Answers == KeysOK /\ CallKeyOK /\ AnswerOK

\* init_engine's rows have the keys of the data file.
LEMMA AnswersInit == Init => Answers
<1> SUFFICES ASSUME Init PROVE Answers
  OBVIOUS
<1>1. ASSUME NEW k \in Loaded PROVE data[<<Loader, hash_key[k]>>].key = key_buf[k]
  <2>1. hash_key[k] \in LoadedPk /\ k \in Key
    BY ConstantsAssumption DEF LoadedPk
  <2> DEFINE r == <<Loader, hash_key[k]>>
             c == CHOOSE j \in Key : hash_key[j] = pk(r) /\ (pk(r) \in LoadedPk => j \in Loaded)
  <2>2. r \in Row /\ pk(r) = hash_key[k]
    BY <2>1, LoadedRow
  <2>3. c \in Key /\ hash_key[c] = pk(r) /\ (pk(r) \in LoadedPk => c \in Loaded)
    BY <2>1, <2>2
  <2>4. data[r] = RowOf(c, InitVal)
    BY <2>2 DEF Init
  <2> HIDE DEF c, r
  <2>5. c = k
    BY <2>1, <2>2, <2>3, ConstantsAssumption
  <2> QED
    BY <2>4, <2>5 DEF RowOf, r
<1>2. KeysOK
  BY <1>1, ConstantFacts, ConstantsAssumption DEF KeysOK, Init, NoAccesses
<1> QED
  BY <1>2 DEF Answers, CallKeyOK, AnswerOK, Init

\* A loaded key and its row.
LEMMA LoadedKey ==
  ASSUME NEW k \in Loaded
  PROVE  /\ k \in Key /\ hash_key[k] \in LoadedPk /\ hash_key[k] \in Pk
         /\ <<Loader, hash_key[k]>> \in Row /\ pk(<<Loader, hash_key[k]>>) = hash_key[k]
BY ConstantsAssumption, LoadedRow DEF LoadedPk

\* Steps that copy no row, write none and answer nothing new.
LEMMA KeysFrame ==
  ASSUME KeysOK,
         \A k \in Loaded : data'[<<Loader, hash_key[k]>>] = data[<<Loader, hash_key[k]>>],
         \A t \in Txn, k \in Loaded :
           accesses'[t][hash_key[k]] \in {accesses[t][hash_key[k]], NULL}
  PROVE  KeysOK'
BY DEF KeysOK

\* The row that is copied or updated keeps its key.
LEMMA KeysOfAccess ==
  ASSUME IInv, KeysOK, NEW t \in Txn, NEW r \in Row, NEW a \in Access, data' = data,
         accesses' = [accesses EXCEPT ![t][pk(r)] = a],
         pk(r) \in LoadedPk => r = <<Loader, pk(r)>>,
         a.data.key = IF accesses[t][pk(r)] # NULL THEN accesses[t][pk(r)].data.key
                      ELSE data[r].key
  PROVE  KeysOK'
<1>1. ASSUME NEW u \in Txn, NEW k \in Loaded, accesses'[u][hash_key[k]] # NULL
      PROVE  accesses'[u][hash_key[k]].data.key = key_buf[k]
  <2>1. CASE u = t /\ hash_key[k] = pk(r)
    <3>1. accesses'[u][hash_key[k]] = a
      BY <2>1, LoadedKey DEF IInv, TypeOK
    <3>2. r = <<Loader, hash_key[k]>>
      BY <2>1, LoadedKey
    <3> QED
      BY <2>1, <3>1, <3>2 DEF KeysOK
  <2>2. CASE u # t \/ hash_key[k] # pk(r)
    <3>1. accesses'[u][hash_key[k]] = accesses[u][hash_key[k]]
      BY <2>2, LoadedKey DEF IInv, TypeOK
    <3> QED
      BY <1>1, <3>1 DEF KeysOK
  <2> QED
    BY <2>1, <2>2
<1> QED
  BY <1>1 DEF KeysOK

\* Every step of t leaves the calls and answers of the others alone, and rows
\* grow newer.
LEMMA OthersAnswers ==
  ASSUME IInv, CallKeyOK, AnswerOK, NEW t \in Txn,
         \A u \in Txn : u # t =>
           /\ pc'[u] = pc[u] /\ call'[u] = call[u] /\ reply'[u] = reply[u] /\ rc'[u] = rc[u]
           /\ start_ts'[u] = start_ts[u] /\ accesses'[u] = accesses[u],
         \A r \in Row : wts[r] <= wts'[r],
         \A r \in Row : wts'[r] \in Nat,
         pc'[t] \in {"read", "update"} => pk(call'[t].row) = hash_key[call'[t].key],
         pc'[t] # "idle", pc'[t] \notin {"validate", "release", "done"} => rc'[t] = "RCOK",
         pc'[t] = "validate" /\ rc'[t] = "Abort" =>
           \E p \in Pk : accesses'[t][p] # NULL /\ start_ts'[t] < wts'[accesses'[t][p].orig_row]
  PROVE  CallKeyOK' /\ AnswerOK'
<1>1. CallKeyOK'
  BY DEF CallKeyOK
<1>2. ASSUME NEW u \in Txn, u # t, pc[u] = "validate", rc[u] = "Abort"
      PROVE  \E p \in Pk : accesses[u][p] # NULL /\ start_ts[u] < wts'[accesses[u][p].orig_row]
  <2>1. PICK p \in Pk : accesses[u][p] # NULL /\ start_ts[u] < wts[accesses[u][p].orig_row]
    BY <1>2 DEF AnswerOK
  <2>2. PICK r \in Row : r = accesses[u][p].orig_row
    <3>1. accesses[u] \in [Pk -> Access \cup {NULL}]
      BY DEF IInv, TypeOK
    <3>2. accesses[u][p] \in Access
      BY <2>1, <3>1
    <3> QED
      BY <3>2 DEF Access
  <2>3. start_ts[u] \in Nat /\ wts[r] \in Nat /\ wts'[r] \in Nat /\ wts[r] <= wts'[r]
    BY DEF IInv, TypeOK
  <2>4. start_ts[u] < wts'[r]
    BY <2>1, <2>2, <2>3
  <2> QED
    BY <2>1, <2>2, <2>4
<1>3. AnswerOK'
  BY <1>2 DEF AnswerOK
<1> QED
  BY <1>1, <1>3

\* A step of t that leaves the rows alone.
LEMMA CallAnswers ==
  ASSUME IInv, Answers, NEW t \in Txn,
         \/ begin_txn(t)
         \/ \E k \in Key : \/ GetAbsent(t, k) \/ GetFound(t, k)
                           \/ \E v \in Value : PutAbsent(t, k, v) \/ PutFound(t, k, v)
         \/ RowRefused(t) \/ commit(t) \/ LatchRow(t) \/ DrawEndTs(t)
         \/ release(t) \/ commit_return(t)
  PROVE  Answers'
<1> USE DEF rowVars, txnVars
<1>1. /\ \A u \in Txn : u # t =>
           /\ pc'[u] = pc[u] /\ call'[u] = call[u] /\ reply'[u] = reply[u] /\ rc'[u] = rc[u]
           /\ start_ts'[u] = start_ts[u]
      /\ UNCHANGED <<data, accesses, wts, index>>
  <2> USE DEF IInv, TypeOK
  <2>1. CASE begin_txn(t)
    BY <2>1 DEF begin_txn
  <2>2. CASE \E k \in Key : GetAbsent(t, k) \/ GetFound(t, k)
    BY <2>2 DEF GetAbsent, GetFound, Return, GoOn
  <2>3. CASE \E k \in Key, v \in Value : PutAbsent(t, k, v) \/ PutFound(t, k, v)
    BY <2>3 DEF PutAbsent, PutFound, GoOn
  <2>4. CASE RowRefused(t)
    BY <2>4 DEF RowRefused, Return
  <2>5. CASE commit(t) \/ LatchRow(t) \/ DrawEndTs(t) \/ release(t) \/ commit_return(t)
    BY <2>5 DEF commit, LatchRow, DrawEndTs, release, commit_return
  <2> QED
    BY <2>1, <2>2, <2>3, <2>4, <2>5
<1>2. KeysOK'
  BY <1>1, KeysFrame DEF Answers
<1>3. \A r \in Row : wts'[r] \in Nat /\ wts[r] <= wts'[r]
  BY <1>1 DEF IInv, TypeOK
<1>4. pc'[t] # "idle"
  <2> USE DEF IInv, TypeOK
  <2>1. CASE begin_txn(t) \/ commit(t) \/ LatchRow(t) \/ DrawEndTs(t) \/ release(t) \/ commit_return(t)
    BY <2>1 DEF begin_txn, commit, LatchRow, DrawEndTs, release, commit_return
  <2>2. CASE \E k \in Key : GetAbsent(t, k) \/ GetFound(t, k)
    BY <2>2 DEF GetAbsent, GetFound, Return, GoOn
  <2>3. CASE \E k \in Key, v \in Value : PutAbsent(t, k, v) \/ PutFound(t, k, v)
    BY <2>3 DEF PutAbsent, PutFound, GoOn
  <2>4. CASE RowRefused(t)
    BY <2>4 DEF RowRefused, Return
  <2> QED
    BY <2>1, <2>2, <2>3, <2>4
<1>5. ASSUME pc'[t] \in {"read", "update"}
      PROVE  pk(call'[t].row) = hash_key[call'[t].key]
  <2>0. PICK k \in Key : GetFound(t, k) \/ \E v \in Value : PutFound(t, k, v)
    <3> USE DEF IInv, TypeOK
    <3>1. ~begin_txn(t) /\ ~commit(t) /\ ~DrawEndTs(t) /\ ~commit_return(t)
      BY <1>5 DEF begin_txn, commit, DrawEndTs, commit_return
    <3>2. ~LatchRow(t) /\ ~release(t)
      BY <1>5 DEF LatchRow, release
    <3>3. ~RowRefused(t)
      BY <1>5 DEF RowRefused, Return
    <3>4. \A k \in Key : ~GetAbsent(t, k) /\ \A v \in Value : ~PutAbsent(t, k, v)
      BY <1>5 DEF GetAbsent, PutAbsent, Return, GoOn
    <3> QED
      BY <3>1, <3>2, <3>3, <3>4
  <2>1. /\ index[hash_key[k]] # NULL
        /\ call'[t].row = index[hash_key[k]] /\ call'[t].key = k
    BY <2>0 DEF GetFound, PutFound, GoOn, index_read, IInv, TypeOK
  <2> QED
    BY <2>1, ConstantFacts DEF IInv, RowsOK
<1>6. ASSUME pc'[t] = "validate", rc'[t] = "Abort"
      PROVE  \E p \in Pk : accesses[t][p] # NULL /\ start_ts'[t] < wts'[accesses[t][p].orig_row]
  <2>1. commit(t) \/ LatchRow(t)
    <3> USE DEF IInv, TypeOK
    <3>1. ~begin_txn(t) /\ ~DrawEndTs(t) /\ ~commit_return(t) /\ ~release(t)
      BY <1>6 DEF begin_txn, DrawEndTs, commit_return, release
    <3>2. ~RowRefused(t)
      BY <1>6 DEF RowRefused, Return
    <3>3. \A k \in Key : ~GetAbsent(t, k) /\ ~GetFound(t, k)
      BY <1>6 DEF GetAbsent, GetFound, Return, GoOn
    <3>4. \A k \in Key, v \in Value : ~PutAbsent(t, k, v) /\ ~PutFound(t, k, v)
      BY <1>6 DEF PutAbsent, PutFound, Return, GoOn
    <3> QED
      BY <3>1, <3>2, <3>3, <3>4
  <2>2. CASE LatchRow(t)
    <3>1. PICK r \in Row : IsFirst(r, ToLatch(t)) /\ ~validate_row(t, r)
      BY <1>6, <2>2 DEF LatchRow, IInv, TypeOK
    <3>2. start_ts' = start_ts
      BY <2>2 DEF LatchRow
    <3> QED
      BY <1>1, <3>1, <3>2 DEF IsFirst, ToLatch, Accessed, validate_row
  <2>3. CASE commit(t)
    BY <1>6, <2>3 DEF commit, Answers, AnswerOK
  <2> QED
    BY <2>1, <2>2, <2>3
<1>7. ASSUME pc'[t] \notin {"validate", "release", "done"} PROVE rc'[t] = "RCOK"
  <2>1. pc[t] \notin {"validate", "release", "done"} \/ DrawEndTs(t)
    BY <1>7 DEF LatchRow, release, commit_return, IInv, TypeOK, begin_txn, commit, GetAbsent, GetFound,
      PutAbsent, PutFound, RowRefused
  <2>2. ~LatchRow(t) /\ ~release(t) /\ ~commit_return(t) /\ ~commit(t)
    BY <1>7 DEF LatchRow, release, commit_return, commit, IInv, TypeOK
  <2>3. rc'[t] = rc[t]
    BY <2>2 DEF begin_txn, DrawEndTs, GetAbsent, GetFound, PutAbsent, PutFound, RowRefused
  <2> QED
    BY <2>1, <2>3 DEF Answers, AnswerOK, DrawEndTs
<1>8. CallKeyOK' /\ AnswerOK'
  BY <1>1, <1>3, <1>4, <1>5, <1>6, <1>7, OthersAnswers DEF Answers
<1> QED
  BY <1>2, <1>8 DEF Answers

\* A step of t that changes its sets.
LEMMA AccessAnswers ==
  ASSUME IInv, IInv', Answers, NEW t \in Txn, Read(t) \/ Update(t) \/ Insert(t)
  PROVE  Answers'
<1>1. /\ \A u \in Txn : u # t =>
           /\ pc'[u] = pc[u] /\ call'[u] = call[u] /\ reply'[u] = reply[u]
           /\ accesses'[u] = accesses[u]
      /\ UNCHANGED <<start_ts, wts, rc>> /\ pc'[t] = "ready" /\ rc'[t] = "RCOK"
  <2> USE DEF IInv, TypeOK, Return, SetAccess, rowVars
  <2>1. pc[t] \notin {"validate", "release", "done"}
    BY DEF Read, Update, Insert
  <2>2. rc[t] = "RCOK"
    BY <2>1 DEF Answers, AnswerOK
  <2>3. CASE Read(t)
    BY <2>2, <2>3 DEF Read
  <2>4. CASE Update(t)
    BY <2>2, <2>4 DEF Update
  <2>5. CASE Insert(t)
    BY <2>2, <2>5 DEF Insert
  <2> QED
    BY <2>3, <2>4, <2>5
<1>2. \A r \in Row : wts'[r] \in Nat /\ wts[r] <= wts'[r]
  BY <1>1 DEF IInv, TypeOK
<1>3. CallKeyOK' /\ AnswerOK'
  BY <1>1, <1>2, OthersAnswers DEF Answers
<1>4. CASE Read(t) \/ Update(t)
  <2>1. PICK r \in Row : r = call[t].row
    BY <1>4 DEF Read, Update, IInv, CallOK
  <2>2. pk(r) \in LoadedPk => r = <<Loader, pk(r)>>
    BY <1>4, <2>1, ConstantFacts DEF Read, Update, IInv, CallOK
  <2>3. PICK type \in AccessType : pc[t] = IF type = "RD" THEN "read" ELSE "update"
    BY <1>4 DEF Read, Update, AccessType
  <2>4. PICK g \in Access : g = get_row(t, r, type)
    BY GetRowType DEF IInv
  <2>5. g.data.key = IF accesses[t][pk(r)] # NULL THEN accesses[t][pk(r)].data.key ELSE data[r].key
    BY <2>4 DEF get_row
  <2>6. CASE Read(t)
    <3>1. accesses' = [accesses EXCEPT ![t][pk(r)] = g] /\ data' = data
      BY <2>1, <2>3, <2>4, <2>6 DEF Read, SetAccess, rowVars, AccessType
    <3> QED
      BY <1>3, <2>2, <2>5, <3>1, KeysOfAccess DEF Answers
  <2>7. CASE Update(t)
    <3>1. PICK a \in Access :
            /\ a = IF g.data.key = call[t].key THEN [g EXCEPT !.data.val = val_buf[call[t].val]] ELSE g
            /\ a.data.key = g.data.key
      <4> DEFINE e == IF g.data.key = call[t].key THEN [g EXCEPT !.data.val = val_buf[call[t].val]] ELSE g
      <4>1. call[t].val \in Value
        BY <2>7 DEF Update, IInv, CallOK
      <4>2. g.data \in RowData
        BY DEF Access
      <4>3. /\ [g.data EXCEPT !.val = val_buf[call[t].val]] \in RowData
            /\ [g.data EXCEPT !.val = val_buf[call[t].val]].key = g.data.key
        BY <4>1, <4>2, CutValue DEF RowData
      <4>4. e \in Access /\ e.data.key = g.data.key
        BY <4>3 DEF Access
      <4> HIDE DEF e
      <4> QED
        BY <4>4 DEF e
    <3>2. accesses' = [accesses EXCEPT ![t][pk(r)] = a] /\ data' = data
      BY <2>1, <2>3, <2>4, <2>7, <3>1 DEF Update, SetAccess, rowVars, AccessType
    <3> QED
      BY <1>3, <2>2, <2>5, <3>1, <3>2, KeysOfAccess DEF Answers
  <2> QED
    BY <1>4, <2>6, <2>7
<1>5. CASE Insert(t)
  <2>1. PICK p \in Pk : p = hash_key[call[t].key] /\ p \notin LoadedPk
    BY <1>5, ConstantFacts DEF Insert, IInv, CallOK, Call
  <2>2. PICK r \in Row : r = <<t, p>> /\ pk(r) = p
    BY <2>1, ConstantFacts
  <2>3. \A k \in Loaded : /\ data'[<<Loader, hash_key[k]>>] = data[<<Loader, hash_key[k]>>]
                          /\ hash_key[k] # p
    BY <1>5, <2>1, <2>2, LoadedKey DEF Insert, IInv, TypeOK
  <2>4. \A k \in Loaded : accesses'[t][hash_key[k]] = accesses[t][hash_key[k]]
    <3>1. PICK a : accesses' = [accesses EXCEPT ![t][p] = a]
      BY <1>5, <2>1, <2>2 DEF Insert, SetAccess
    <3> QED
      BY <2>1, <2>3, <3>1, LoadedKey DEF IInv, TypeOK
  <2>5. KeysOK'
    BY <1>1, <2>3, <2>4, KeysFrame DEF Answers
  <2> QED
    BY <1>3, <2>5 DEF Answers
<1> QED
  BY <1>4, <1>5

\* t ends its transaction: it writes its copies, whose keys are their rows', or
\* gives them up.
LEMMA EndAnswers ==
  ASSUME IInv, IInv', Answers, NEW t \in Txn, Install(t) \/ ValidateAbort(t) \/ abort_txn(t)
  PROVE  Answers'
<1>1. /\ \A u \in Txn : u # t =>
           /\ pc'[u] = pc[u] /\ call'[u] = call[u] /\ reply'[u] = reply[u] /\ rc'[u] = rc[u]
           /\ accesses'[u] = accesses[u] /\ start_ts'[u] = start_ts[u]
      /\ pc'[t] \in {"release", "done"} /\ accesses'[t] = NoAccesses
  <2> USE DEF IInv, TypeOK, Rollback, ClearSets
  <2>1. CASE Install(t)
    BY <2>1 DEF Install
  <2>2. CASE ValidateAbort(t)
    BY <2>2 DEF ValidateAbort
  <2>3. CASE abort_txn(t)
    BY <2>3 DEF abort_txn
  <2> QED
    BY <2>1, <2>2, <2>3
<1>2. ASSUME NEW r \in Row PROVE wts'[r] \in Nat /\ wts[r] <= wts'[r]
  <2>1. CASE Install(t)
    BY <2>1 DEF Install, IInv, TypeOK, WriteAdvancesWts
  <2>2. CASE ValidateAbort(t) \/ abort_txn(t)
    BY <2>2 DEF ValidateAbort, abort_txn, IInv, TypeOK
  <2> QED
    BY <2>1, <2>2
<1>3. CallKeyOK' /\ AnswerOK'
  BY <1>1, <1>2, OthersAnswers DEF Answers
<1>4. ASSUME NEW k \in Loaded
      PROVE  data'[<<Loader, hash_key[k]>>].key = key_buf[k]
  <2>1. CASE Install(t)
    <3>1. PICK r \in Row : r = <<Loader, hash_key[k]>> /\ pk(r) = hash_key[k]
      BY LoadedKey
    <3>2. CASE Writes(t, r)
      BY <2>1, <3>1, <3>2 DEF Install, Answers, KeysOK, Writes
    <3>3. CASE ~Writes(t, r)
      BY <2>1, <3>1, <3>3 DEF Install, Answers, KeysOK
    <3> QED
      BY <3>2, <3>3
  <2>2. CASE ValidateAbort(t) \/ abort_txn(t)
    BY <2>2 DEF ValidateAbort, abort_txn, Answers, KeysOK
  <2> QED
    BY <2>1, <2>2
<1>5. ASSUME NEW k \in Loaded PROVE accesses'[t][hash_key[k]] = NULL
  <2>1. hash_key[k] \in Pk
    BY LoadedKey
  <2> QED
    BY <1>1, <2>1 DEF NoAccesses
<1>6. KeysOK'
  BY <1>1, <1>4, <1>5 DEF Answers, KeysOK
<1> QED
  BY <1>3, <1>6 DEF Answers

\* Every step keeps what the answers rest on.
LEMMA AnswersStep == IInv /\ IInv' /\ Answers /\ [Next]_vars => Answers'
<1> SUFFICES ASSUME IInv, IInv', Answers, [Next]_vars PROVE Answers'
  OBVIOUS
<1>1. ASSUME NEW t \in Txn, Request(t) \/ Step(t) PROVE Answers'
  BY <1>1, CallAnswers, AccessAnswers, EndAnswers DEF Request, Step
<1>2. ASSUME NEW t \in Txn, Fault(t) PROVE Answers'
  BY <1>2 DEF Fault, rowVars, Answers, KeysOK, CallKeyOK, AnswerOK
<1>3. CASE UNCHANGED vars
  BY <1>3 DEF vars, Answers, KeysOK, CallKeyOK, AnswerOK
<1> QED
  BY <1>1, <1>2, <1>3 DEF Next, Stopped
-----------------------------------------------------------------------------
(* The wts of a record, the commit included that has still to write it. *)

WtsIs ==
  \A p \in LoadedPk :
    /\ CommittedWts(p) \in Nat /\ CommittedWts(p) < timestamp
    /\ wts[<<Loader, p>>] <= CommittedWts(p)
    /\ \A t \in Txn : Pending(t, p) => CommittedWts(p) = end_ts[t]
    /\ (\A t \in Txn : ~Pending(t, p)) => CommittedWts(p) = wts[<<Loader, p>>]

\* At most one commit has the row pending, and its end_ts is beyond the row's wts.
LEMMA WtsFacts == IInv => WtsIs
<1> SUFFICES ASSUME IInv, NEW p \in LoadedPk
             PROVE  /\ CommittedWts(p) \in Nat /\ CommittedWts(p) < timestamp
                    /\ wts[<<Loader, p>>] <= CommittedWts(p)
                    /\ \A t \in Txn : Pending(t, p) => CommittedWts(p) = end_ts[t]
                    /\ (\A t \in Txn : ~Pending(t, p)) => CommittedWts(p) = wts[<<Loader, p>>]
  BY DEF WtsIs
<1>1. PICK r \in Row : r = <<Loader, p>>
  BY LoadedRow
<1>2. wts[r] \in Nat /\ wts[r] < timestamp
  BY DEF IInv, TypeOK, TimeOK
<1>3. CASE \E t \in Txn : Pending(t, p)
  <2>1. PICK u \in Txn : u = CHOOSE t \in Txn : Pending(t, p)
    BY <1>3
  <2>2. Pending(u, p) /\ CommittedWts(p) = end_ts[u]
    BY <1>3, <2>1 DEF CommittedWts
  <2>3. \A t \in Txn : Pending(t, p) => t = u
    BY <2>2, CommittedFacts DEF CommittedIs
  <2>4. end_ts[u] \in Nat /\ end_ts[u] < timestamp
    BY DEF IInv, TypeOK, TimeOK
  <2>5. end_ts[u] > wts[r]
    BY <1>1, <2>2 DEF Pending, IInv, WriteAdvancesWts
  <2>6. wts[r] <= end_ts[u]
    BY <1>2, <2>4, <2>5
  <2> QED
    BY <1>1, <2>2, <2>3, <2>4, <2>6
<1>4. CASE \A t \in Txn : ~Pending(t, p)
  <2>1. CommittedWts(p) = wts[r]
    BY <1>1, <1>4 DEF CommittedWts
  <2>2. wts[r] <= wts[r]
    BY <1>2
  <2> QED
    BY <1>1, <1>2, <1>4, <2>1, <2>2
<1> QED
  BY <1>3, <1>4

\* The same after a step.
LEMMA WtsNext == IInv' => WtsIs'
BY WtsFacts, PTL

\* Steps that change neither the row nor the commit pending on it.
LEMMA WtsFrame ==
  ASSUME IInv, IInv', NEW p \in LoadedPk, wts'[<<Loader, p>>] = wts[<<Loader, p>>],
         \A u \in Txn : /\ Pending(u, p)' <=> Pending(u, p)
                        /\ Pending(u, p) => end_ts'[u] = end_ts[u]
  PROVE  CommittedWts(p)' = CommittedWts(p)
<1>1. CASE \E u \in Txn : Pending(u, p)
  <2>1. PICK u \in Txn : Pending(u, p)
    BY <1>1
  <2>2. CommittedWts(p) = end_ts[u] /\ CommittedWts(p)' = end_ts'[u]
    BY <2>1, WtsFacts, WtsNext DEF WtsIs
  <2> QED
    BY <2>1, <2>2
<1>2. CASE \A u \in Txn : ~Pending(u, p)
  BY <1>2, WtsFacts, WtsNext DEF WtsIs
<1> QED
  BY <1>1, <1>2

\* A row that is not latched has no commit pending.
LEMMA UnlatchedWts ==
  ASSUME IInv, NEW p \in LoadedPk, latch[<<Loader, p>>] = NULL
  PROVE  /\ CommittedWts(p) = wts[<<Loader, p>>]
         /\ Db[p] = data[<<Loader, p>>].val
<1>1. \A u \in Txn : ~Pending(u, p)
  <2> SUFFICES ASSUME NEW u \in Txn, Pending(u, p) PROVE FALSE
    OBVIOUS
  <2>1. <<Loader, p>> \in locked[u] /\ <<Loader, p>> \in Row
    BY LoadedRow, WritesLoaded DEF Pending, IInv, CommitLatched
  <2> QED
    BY <2>1, NullAssumption DEF IInv, LatchesMatch
<1> QED
  BY <1>1, WtsFacts, CommittedFacts DEF WtsIs, CommittedIs, Db
-----------------------------------------------------------------------------
(* The view that a caller of the API has. *)

CopyOf(t) == [p \in LoadedPk |-> IF accesses[t][p] # NULL THEN accesses[t][p].data.val ELSE NULL]
WrittenBy(t) == {p \in LoadedPk : accesses[t][p] # NULL /\ accesses[t][p].type = "WR"}
StaleFor(t) == {p \in LoadedPk : start_ts[t] < CommittedWts(p)}

\* Records become stale in a context.
LEMMA StaleInContext ==
  ASSUME NEW c, NEW w, NEW s, NEW S, NEW x, x = [copy |-> c, wr |-> w, stale |-> s]
  PROVE  [x EXCEPT !.stale = @ \cup S] = [copy |-> c, wr |-> w, stale |-> s \cup S]
<1>1. x.stale \cup S = s \cup S
  OBVIOUS
<1>2. [x EXCEPT !.stale = x.stale \cup S] = [x EXCEPT !.stale = s \cup S]
  BY <1>1
<1> QED
  BY <1>2

\* None does.
LEMMA SameContext ==
  ASSUME NEW c, NEW w, NEW s, NEW x, x = [copy |-> c, wr |-> w, stale |-> s]
  PROVE  [x EXCEPT !.stale = @] = x
OBVIOUS

\* A transaction seen through the API: NULL unless it is open.
LEMMA CtxFacts ==
  ASSUME IInv, NEW t \in Txn
  PROVE  /\ ~Active(t) => Ctx[t] = NULL
         /\ Active(t) =>
              /\ Ctx[t] = [copy |-> CopyOf(t), wr |-> WrittenBy(t), stale |-> StaleFor(t)]
              /\ Ctx[t] # NULL
              /\ CopyOf(t) \in [LoadedPk -> Value \cup {NULL}]
              /\ \A p \in LoadedPk : accesses[t][p] # NULL =>
                   accesses[t][p] \in Access /\ CopyOf(t)[p] \in Value
              /\ Api!Used(t) = {p \in LoadedPk : accesses[t][p] # NULL}
<1>1. Ctx[t] = CtxOf(t)
  BY DEF Ctx
<1>2. ~Active(t) => Ctx[t] = NULL
  BY <1>1 DEF CtxOf
<1>3. ASSUME Active(t) PROVE Ctx[t] = [copy |-> CopyOf(t), wr |-> WrittenBy(t), stale |-> StaleFor(t)]
  BY <1>1, <1>3 DEF CtxOf, CopyOf, WrittenBy, StaleFor
<1>4. ASSUME NEW p \in LoadedPk, accesses[t][p] # NULL
      PROVE  accesses[t][p] \in Access /\ CopyOf(t)[p] \in Value
  <2>1. accesses[t] \in [Pk -> Access \cup {NULL}] /\ p \in Pk
    BY LoadedRow DEF IInv, TypeOK
  <2>2. accesses[t][p] \in Access
    BY <1>4, <2>1
  <2> QED
    BY <1>4, <2>2 DEF CopyOf, Access, RowData
<1>5. CopyOf(t) \in [LoadedPk -> Value \cup {NULL}]
  BY <1>4 DEF CopyOf
<1>6. ASSUME Active(t) PROVE Ctx[t] # NULL
  <2>1. /\ WrittenBy(t) \in SUBSET LoadedPk /\ StaleFor(t) \in SUBSET LoadedPk
    BY DEF WrittenBy, StaleFor
  <2>2. [copy |-> CopyOf(t), wr |-> WrittenBy(t), stale |-> StaleFor(t)]
          \in [copy : [LoadedPk -> Value \cup {NULL}], wr : SUBSET LoadedPk, stale : SUBSET LoadedPk]
    BY <1>5, <2>1
  <2> QED
    BY <1>3, <1>6, <2>2, NullIsNoContext
<1>7. ASSUME Active(t) PROVE Api!Used(t) = {p \in LoadedPk : accesses[t][p] # NULL}
  <2>1. Ctx[t].copy = CopyOf(t)
    BY <1>3, <1>7
  <2>2. \A p \in LoadedPk : CopyOf(t)[p] # NULL <=> accesses[t][p] # NULL
    BY <1>4, NullAssumption DEF CopyOf
  <2> QED
    BY <2>1, <2>2 DEF Api!Used
<1> QED
  BY <1>2, <1>3, <1>4, <1>5, <1>6, <1>7

\* Steps that leave a transaction alone leave its context alone.
LEMMA CtxFrame ==
  ASSUME NEW u \in Txn, Active(u)' <=> Active(u),
         Active(u) => accesses'[u] = accesses[u] /\ start_ts'[u] = start_ts[u],
         \A p \in LoadedPk : CommittedWts(p)' = CommittedWts(p)
  PROVE  CtxOf(u)' = CtxOf(u)
BY DEF CtxOf

\* Nothing that another transaction sees is changed by a rollback.
LEMMA EndFrame ==
  ASSUME IInv, IInv', NEW t \in Txn, NEW u \in Txn, u # t, pc[t] # "commit", pc'[t] # "commit",
         \A w \in Txn : w # t => pc'[w] = pc[w] /\ accesses'[w] = accesses[w],
         start_ts'[u] = start_ts[u], UNCHANGED <<wts, end_ts>>
  PROVE  CtxOf(u)' = CtxOf(u)
<1>1. ASSUME NEW p \in LoadedPk PROVE CommittedWts(p)' = CommittedWts(p)
  <2>1. \A w \in Txn : Pending(w, p)' <=> Pending(w, p)
    BY DEF Pending, Writes
  <2> QED
    BY <2>1, WtsFrame
<1> QED
  BY <1>1, CtxFrame DEF Active

\* ... and its last answer.
LEMMA RcFrame ==
  ASSUME NEW u \in Txn, pc'[u] = pc[u], rc'[u] = rc[u], reply'[u] = reply[u]
  PROVE  RcOf(u)' = RcOf(u)
BY DEF RcOf, HasCommitted
-----------------------------------------------------------------------------
(* Steps in the middle of a call. *)

\* Probes, latches and returns change nothing that a caller sees.
LEMMA QuietApi ==
  ASSUME IInv, IInv', Snapshots, NEW t \in Txn,
         \/ \E k \in Key : GetFound(t, k) \/ \E v \in Value : PutFound(t, k, v)
         \/ commit(t) \/ LatchRow(t) \/ release(t) \/ commit_return(t) \/ Fault(t)
  PROVE  UNCHANGED apiView
<1>1. Db' = Db
  BY QuietSteps DEF serialVars
<1>2. /\ UNCHANGED <<data, wts, accesses>>
      /\ \A u \in Txn : /\ Active(u)' <=> Active(u)
                        /\ pc'[u] = "commit" <=> pc[u] = "commit"
                        /\ Active(u) => start_ts'[u] = start_ts[u]
                        /\ pc[u] = "commit" => end_ts'[u] = end_ts[u]
                        /\ RcOf(u)' = RcOf(u)
  <2> USE DEF IInv, TypeOK, Active, HasCommitted, RcOf, rowVars, txnVars
  <2>1. CASE \E k \in Key : GetFound(t, k) \/ \E v \in Value : PutFound(t, k, v)
    BY <2>1 DEF GetFound, PutFound, GoOn
  <2>2. CASE commit(t)
    BY <2>2 DEF commit
  <2>3. CASE LatchRow(t)
    BY <2>3 DEF LatchRow
  <2>4. CASE release(t)
    BY <2>4 DEF release
  <2>5. CASE commit_return(t)
    BY <2>5 DEF commit_return
  <2>6. CASE Fault(t)
    BY <2>6 DEF Fault
  <2> QED
    BY <2>1, <2>2, <2>3, <2>4, <2>5, <2>6
<1>3. ASSUME NEW p \in LoadedPk PROVE CommittedWts(p)' = CommittedWts(p)
  <2>1. \A u \in Txn : /\ Pending(u, p)' <=> Pending(u, p)
                       /\ Pending(u, p) => end_ts'[u] = end_ts[u]
    BY <1>2 DEF Pending, Writes
  <2> QED
    BY <1>2, <2>1, WtsFrame
<1>4. \A u \in Txn : CtxOf(u)' = CtxOf(u)
  BY <1>2, <1>3, CtxFrame
<1> QED
  BY <1>1, <1>2, <1>4 DEF apiView, Ctx, Rc

\* A pending commit becomes a written one: the wts of its rows are what they
\* have counted as since DrawEndTs.
LEMMA InstallApi ==
  ASSUME IInv, IInv', Snapshots, NEW t \in Txn, Install(t)
  PROVE  UNCHANGED apiView
<1>1. Db' = Db
  BY InstallRefines DEF serialVars
<1>2. /\ pc[t] = "commit" /\ pc'[t] = "release" /\ rc[t] = "RCOK" /\ rc'[t] = "RCOK"
      /\ \A u \in Txn : u # t => pc'[u] = pc[u] /\ accesses'[u] = accesses[u]
      /\ wts' = [r \in Row |-> IF Writes(t, r) THEN end_ts[t] ELSE wts[r]]
      /\ UNCHANGED <<rc, reply, start_ts, end_ts>>
  BY DEF Install, ClearSets, IInv, TypeOK, SetsOK
<1>3. \A u \in Txn : RcOf(u)' = RcOf(u) /\ (Active(u)' <=> Active(u))
  <2>1. RcOf(t)' = RcOf(t)
    BY <1>2 DEF RcOf, HasCommitted
  <2>2. \A u \in Txn : u # t => RcOf(u)' = RcOf(u)
    BY <1>2, RcFrame
  <2> QED
    BY <1>2, <2>1, <2>2 DEF Active
<1>4. ASSUME NEW p \in LoadedPk PROVE CommittedWts(p)' = CommittedWts(p)
  <2>0. PICK r \in Row : r = <<Loader, p>>
    BY LoadedRow
  <2>1. \A u \in Txn : u # t => (Pending(u, p)' <=> Pending(u, p))
    BY <1>2 DEF Pending, Writes
  <2>2. ~Pending(t, p)'
    BY <1>2 DEF Pending
  <2>3. CASE Pending(t, p)
    <3>1. \A u \in Txn : ~Pending(u, p)'
      BY <2>1, <2>2, <2>3, CommittedFacts DEF CommittedIs
    <3>2. CommittedWts(p) = end_ts[t] /\ CommittedWts(p)' = wts'[<<Loader, p>>]
      BY <2>3, <3>1, WtsFacts, WtsNext DEF WtsIs
    <3>3. wts'[r] = end_ts[t]
      BY <1>2, <2>0, <2>3 DEF Pending
    <3> QED
      BY <2>0, <3>2, <3>3
  <2>4. CASE ~Pending(t, p)
    <3>1. wts'[r] = wts[r]
      BY <1>2, <2>0, <2>4 DEF Pending
    <3> QED
      BY <1>2, <2>0, <2>1, <2>2, <2>4, <3>1, WtsFrame
  <2> QED
    BY <2>3, <2>4
<1>5. ASSUME NEW u \in Txn PROVE CtxOf(u)' = CtxOf(u)
  <2>1. Active(u) => u # t
    BY <1>2 DEF Active
  <2> QED
    BY <1>2, <1>3, <1>4, <2>1, CtxFrame
<1> QED
  BY <1>1, <1>3, <1>5 DEF apiView, Ctx, Rc
-----------------------------------------------------------------------------
(* Steps at which a call takes effect. *)

\* Every wts is older than the new start_ts: nothing is stale yet.
LEMMA BeginApi ==
  ASSUME IInv, IInv', Snapshots, Answers, NEW t \in Txn, begin_txn(t)
  PROVE  Api!begin_txn(t)
<1>1. Db' = Db
  BY BeginRefines DEF Serial!Begin
<1>2. /\ pc[t] = "idle" /\ pc'[t] = "ready" /\ accesses[t] = NoAccesses
      /\ start_ts'[t] = timestamp /\ reply[t] = "none"
      /\ UNCHANGED <<accesses, wts, end_ts, rc, reply>>
      /\ \A u \in Txn : u # t => pc'[u] = pc[u] /\ start_ts'[u] = start_ts[u]
  <2>1. accesses[t] = NoAccesses
    BY DEF begin_txn, IInv, SetsOK, Running, Active
  <2>2. reply[t] = "none"
    BY DEF begin_txn, Answers, AnswerOK
  <2> QED
    BY <2>1, <2>2 DEF begin_txn, rowVars, IInv, TypeOK
<1>3. ~Active(t) /\ Active(t)' /\ RcOf(t)' = "OK"
  BY <1>2 DEF Active, RcOf, HasCommitted
<1>4. ASSUME NEW p \in LoadedPk PROVE CommittedWts(p)' = CommittedWts(p)
  <2>1. \A u \in Txn : Pending(u, p)' <=> Pending(u, p)
    BY <1>2 DEF Pending, Writes
  <2> QED
    BY <1>2, <2>1, WtsFrame
<1>5. CtxOf(t)' = Api!NewTxn
  <2>1. ASSUME NEW p \in LoadedPk PROVE ~(timestamp < CommittedWts(p))
    <3>1. CommittedWts(p) \in Nat /\ CommittedWts(p) < timestamp
      BY WtsFacts DEF WtsIs
    <3>2. timestamp \in Nat
      BY DEF IInv, TypeOK
    <3> QED
      BY <3>1, <3>2
  <2>2. \A p \in LoadedPk : accesses'[t][p] = NULL
    BY <1>2, LoadedRow DEF NoAccesses
  <2> QED
    BY <1>2, <1>3, <1>4, <2>1, <2>2 DEF CtxOf, Api!NewTxn
<1>6. \A u \in Txn : u # t => CtxOf(u)' = CtxOf(u) /\ RcOf(u)' = RcOf(u)
  BY <1>2, <1>4, CtxFrame, RcFrame DEF Active
<1>7. Ctx' = [Ctx EXCEPT ![t] = Api!NewTxn] /\ Rc' = [Rc EXCEPT ![t] = "OK"]
  BY <1>3, <1>5, <1>6 DEF Ctx, Rc
<1> QED
  BY <1>1, <1>3, <1>7, CtxFacts DEF Api!begin_txn, Api!Answer

\* Every key that is used has been loaded, and none is too long for its field.
AllLoaded == Loaded = Key /\ \A k \in Key : key_buf[k] = k

\* Then no call inserts a row or misses one.
LEMMA NothingInserted ==
  ASSUME AllLoaded, IInv, NEW t \in Txn
  PROVE  /\ LoadedPk = Pk
         /\ \A k \in Key : hash_key[k] \in LoadedPk /\ index_read(k) # NULL
         /\ pc[t] # "insert"
<1>1. LoadedPk = Pk
  BY DEF AllLoaded, LoadedPk, Pk
<1>2. \A k \in Key : hash_key[k] \in LoadedPk
  BY <1>1, ConstantFacts
<1>3. ASSUME NEW k \in Key PROVE index_read(k) # NULL
  <2>1. index_read(k) = <<Loader, hash_key[k]>> /\ <<Loader, hash_key[k]>> \in Row
    BY <1>2, LoadedRow DEF index_read, IInv, RowsOK
  <2> QED
    BY <2>1, ConstantFacts
<1>4. pc[t] # "insert"
  BY <1>2 DEF IInv, CallOK, Call
<1> QED
  BY <1>1, <1>2, <1>3, <1>4

\* The key, the row and the primary key of a call in progress.
LEMMA CallRow ==
  ASSUME AllLoaded, IInv, Answers, NEW t \in Txn, pc[t] \in {"read", "update"}
  PROVE  \E k \in Key, p \in LoadedPk :
           /\ call[t].key = k /\ p = hash_key[k] /\ call[t].row = <<Loader, p>>
           /\ data[<<Loader, p>>].key = k
           /\ accesses[t][p] # NULL => accesses[t][p].data.key = k
           /\ pc[t] = "update" => call[t].val \in Value
<1>1. PICK k \in Key : k = call[t].key
  BY DEF IInv, CallOK, Call
<1>2. PICK p \in LoadedPk : p = hash_key[k]
  BY NothingInserted
<1>3. PICK r \in Row : r = call[t].row /\ pk(r) = p /\ owner(r) = Loader
  BY <1>1, <1>2 DEF IInv, CallOK, Answers, CallKeyOK
<1>4. r = <<Loader, p>>
  BY <1>3, ConstantFacts
<1>5. k \in Loaded /\ key_buf[k] = k
  BY DEF AllLoaded
<1>6. data[<<Loader, p>>].key = k /\ (accesses[t][p] # NULL => accesses[t][p].data.key = k)
  BY <1>2, <1>5 DEF Answers, KeysOK
<1>7. pc[t] = "update" => call[t].val \in Value
  BY DEF IInv, CallOK
<1> QED
  BY <1>1, <1>2, <1>3, <1>4, <1>6, <1>7

\* What a change of one access of t is to the API.
LEMMA AccessApi ==
  ASSUME IInv, IInv', NEW t \in Txn, NEW p \in LoadedPk, NEW a \in Access,
         Active(t), pc'[t] = "ready",
         \A u \in Txn : u # t => pc'[u] = pc[u] /\ reply'[u] = reply[u],
         accesses' = [accesses EXCEPT ![t][p] = a],
         UNCHANGED <<wts, start_ts, end_ts, rc>>
  PROVE  /\ \A u \in Txn : u # t => Ctx'[u] = Ctx[u] /\ Rc'[u] = Rc[u]
         /\ Ctx'[t] = [copy |-> [CopyOf(t) EXCEPT ![p] = a.data.val],
                       wr |-> IF a.type = "WR" THEN WrittenBy(t) \cup {p} ELSE WrittenBy(t) \ {p},
                       stale |-> StaleFor(t)]
<1>1. /\ accesses'[t][p] = a /\ a # NULL
      /\ \A q \in LoadedPk : q # p => accesses'[t][q] = accesses[t][q]
      /\ \A u \in Txn : u # t => accesses'[u] = accesses[u]
  BY ConstantFacts, LoadedRow DEF IInv, TypeOK
<1>2. ~Pending(t, p) /\ Active(t)' /\ (\A q \in LoadedPk : ~Pending(t, q) /\ ~Pending(t, q)')
  BY DEF Pending, Active
<1>3. ASSUME NEW q \in LoadedPk PROVE CommittedWts(q)' = CommittedWts(q)
  <2>1. \A u \in Txn : Pending(u, q)' <=> Pending(u, q)
    BY <1>1, <1>2 DEF Pending, Writes
  <2> QED
    BY <2>1, WtsFrame
<1>4. \A u \in Txn : u # t => CtxOf(u)' = CtxOf(u) /\ RcOf(u)' = RcOf(u)
  BY <1>1, <1>3, CtxFrame, RcFrame DEF Active
<1>5. CopyOf(t)' = [CopyOf(t) EXCEPT ![p] = a.data.val]
  <2>1. \A q \in LoadedPk :
          (IF accesses'[t][q] # NULL THEN accesses'[t][q].data.val ELSE NULL)
            = IF q = p THEN a.data.val ELSE CopyOf(t)[q]
    BY <1>1 DEF CopyOf
  <2>2. CopyOf(t)' = [q \in LoadedPk |-> IF q = p THEN a.data.val ELSE CopyOf(t)[q]]
    BY <2>1 DEF CopyOf
  <2>3. CopyOf(t) = [q \in LoadedPk |-> CopyOf(t)[q]]
    BY DEF CopyOf
  <2> QED
    BY <2>2, <2>3
<1>6. WrittenBy(t)' = IF a.type = "WR" THEN WrittenBy(t) \cup {p} ELSE WrittenBy(t) \ {p}
  <2>1. CASE a.type = "WR"
    BY <1>1, <2>1 DEF WrittenBy
  <2>2. CASE a.type # "WR"
    BY <1>1, <2>2 DEF WrittenBy
  <2> QED
    BY <2>1, <2>2
<1>7. StaleFor(t)' = StaleFor(t)
  BY <1>3 DEF StaleFor
<1>8. CtxOf(t)' = [copy |-> CopyOf(t)', wr |-> WrittenBy(t)', stale |-> StaleFor(t)']
  BY <1>2 DEF CtxOf, CopyOf, WrittenBy, StaleFor
<1> QED
  BY <1>4, <1>5, <1>6, <1>7, <1>8 DEF Ctx, Rc

\* The row may be used as the API says it may, and has the record's value.
LEMMA UseApi ==
  ASSUME IInv, NEW t \in Txn, NEW p \in LoadedPk, Active(t),
         accesses[t][p] = NULL => latch[<<Loader, p>>] = NULL
  PROVE  /\ Api!CanUse(t, p) <=> ~Refused(t, <<Loader, p>>)
         /\ Api!value_out(t, p) = IF accesses[t][p] # NULL THEN accesses[t][p].data.val
                                  ELSE data[<<Loader, p>>].val
<1>0. Ctx[t].copy = CopyOf(t) /\ Ctx[t].stale = StaleFor(t)
  <2>1. Ctx[t] = [copy |-> CopyOf(t), wr |-> WrittenBy(t), stale |-> StaleFor(t)]
    BY CtxFacts
  <2> QED
    BY <2>1
<1>1. p \in Api!Used(t) <=> accesses[t][p] # NULL
  BY CtxFacts
<1>2. p \in Ctx[t].stale <=> start_ts[t] < CommittedWts(p)
  BY <1>0 DEF StaleFor
<1>3. Ctx[t].copy[p] = IF accesses[t][p] # NULL THEN accesses[t][p].data.val ELSE NULL
  BY <1>0 DEF CopyOf
<1>4. accesses[t][p] = NULL => /\ CommittedWts(p) = wts[<<Loader, p>>]
                               /\ Db[p] = data[<<Loader, p>>].val
  BY UnlatchedWts
<1>5. Refused(t, <<Loader, p>>) <=> accesses[t][p] = NULL /\ start_ts[t] < wts[<<Loader, p>>]
  BY LoadedRow DEF Refused
<1> QED
  BY <1>1, <1>2, <1>3, <1>4, <1>5 DEF Api!CanUse, Api!value_out

\* get: the row is refused, or its copy, old or new, is the answer.
LEMMA ReadApi ==
  ASSUME AllLoaded, IInv, IInv', Snapshots, Answers, NEW t \in Txn, Read(t)
  PROVE  \E p \in LoadedPk : Api!get(t, p)
<1>1. PICK k \in Key, p \in LoadedPk :
        /\ call[t].key = k /\ p = hash_key[k] /\ call[t].row = <<Loader, p>>
        /\ data[<<Loader, p>>].key = k
        /\ accesses[t][p] # NULL => accesses[t][p].data.key = k
  BY CallRow DEF Read
<1>2. PICK r \in Row : r = <<Loader, p>> /\ pk(r) = p
  BY LoadedRow
<1>3. PICK a \in Access : a = get_row(t, r, "RD")
  BY GetRowType DEF AccessType, IInv
<1>4. /\ pc[t] = "read" /\ CanGetRow(t, r) /\ ~Refused(t, r)
      /\ accesses' = [accesses EXCEPT ![t][p] = a]
      /\ UNCHANGED <<wts, start_ts, end_ts, rc>>
      /\ reply' = [reply EXCEPT ![t] = IF a.data.key = k THEN "OK" ELSE "NOT_FOUND"]
      /\ pc' = [pc EXCEPT ![t] = "ready"]
  BY <1>1, <1>2, <1>3 DEF Read, SetAccess, Return, rowVars
<1>5. /\ Active(t) /\ pc'[t] = "ready"
      /\ \A u \in Txn : u # t => pc'[u] = pc[u] /\ reply'[u] = reply[u]
  BY <1>4 DEF Active, IInv, TypeOK
<1>6. a = IF accesses[t][p] # NULL
          THEN [type |-> accesses[t][p].type, orig_row |-> accesses[t][p].orig_row,
                data |-> accesses[t][p].data, orig_data |-> accesses[t][p].orig_data]
          ELSE [type |-> "RD", orig_row |-> r, data |-> data[r], orig_data |-> data[r]]
  BY <1>2, <1>3 DEF get_row
<1>7. a.data.key = k
  BY <1>1, <1>2, <1>6
<1>8. Api!CanUse(t, p) /\ Api!value_out(t, p) = a.data.val
  <2>1. accesses[t][p] = NULL => latch[r] = NULL
    BY <1>2, <1>4 DEF CanGetRow
  <2> QED
    BY <1>2, <1>4, <1>5, <1>6, <2>1, UseApi
<1>9. /\ \A u \in Txn : u # t => Ctx'[u] = Ctx[u] /\ Rc'[u] = Rc[u]
      /\ Ctx'[t] = [copy |-> [CopyOf(t) EXCEPT ![p] = a.data.val],
                    wr |-> IF a.type = "WR" THEN WrittenBy(t) \cup {p} ELSE WrittenBy(t) \ {p},
                    stale |-> StaleFor(t)]
  BY <1>4, <1>5, AccessApi
<1>10. (IF a.type = "WR" THEN WrittenBy(t) \cup {p} ELSE WrittenBy(t) \ {p}) = WrittenBy(t)
  BY <1>6 DEF WrittenBy
<1>11. /\ Ctx[t] = [copy |-> CopyOf(t), wr |-> WrittenBy(t), stale |-> StaleFor(t)]
       /\ Ctx[t] # NULL
  BY <1>5, CtxFacts
<1>12. Ctx'[t] = [Ctx[t] EXCEPT !.copy[p] = a.data.val]
  BY <1>9, <1>10, <1>11
<1>13. Ctx' = [Ctx EXCEPT ![t].copy[p] = a.data.val]
  BY <1>9, <1>12 DEF Ctx
<1>14. Rc' = [Rc EXCEPT ![t] = "OK"]
  <2>1. RcOf(t)' = "OK"
    BY <1>4, <1>5, <1>7 DEF RcOf, HasCommitted, IInv, TypeOK
  <2> QED
    BY <1>9, <2>1 DEF Rc
<1>15. Db' = Db
  BY ReadRefines DEF serialVars, Serial!Get
<1> QED
  BY <1>8, <1>11, <1>13, <1>14, <1>15 DEF Api!get, Api!Answer

\* put: the same, with the new value in the copy.
LEMMA UpdateApi ==
  ASSUME AllLoaded, IInv, IInv', Snapshots, Answers, NEW t \in Txn, Update(t)
  PROVE  \E p \in LoadedPk : \E v \in Value : Api!put(t, p, v)
<1>1. PICK k \in Key, p \in LoadedPk :
        /\ call[t].key = k /\ p = hash_key[k] /\ call[t].row = <<Loader, p>>
        /\ data[<<Loader, p>>].key = k
        /\ accesses[t][p] # NULL => accesses[t][p].data.key = k
        /\ pc[t] = "update" => call[t].val \in Value
  BY CallRow DEF Update
<1>2. PICK r \in Row : r = <<Loader, p>> /\ pk(r) = p
  BY LoadedRow
<1>3. PICK b, v \in Value : b = call[t].val /\ v = val_buf[b]
  BY <1>1, CutValue DEF Update
<1>4. PICK g \in Access : g = get_row(t, r, "WR")
  BY GetRowType DEF AccessType, IInv
<1>5. g.data.key = k /\ g.type = "WR"
  BY <1>1, <1>2, <1>4 DEF get_row
<1>6. PICK a \in Access : a = [g EXCEPT !.data.val = v] /\ a.data.val = v /\ a.type = "WR"
  <2> DEFINE e == [g EXCEPT !.data.val = v]
  <2>1. g.data \in RowData
    BY DEF Access
  <2>2. [g.data EXCEPT !.val = v] \in RowData /\ [g.data EXCEPT !.val = v].val = v
    BY <2>1 DEF RowData
  <2>3. e \in Access /\ e.type = "WR" /\ e.data.val = v
    BY <1>5, <2>2 DEF Access
  <2> HIDE DEF e
  <2> QED
    BY <2>3 DEF e
<1>7. /\ pc[t] = "update" /\ CanGetRow(t, r) /\ ~Refused(t, r)
      /\ accesses' = [accesses EXCEPT ![t][p] = a]
      /\ UNCHANGED <<wts, start_ts, end_ts, rc>>
      /\ reply' = [reply EXCEPT ![t] = "OK"]
      /\ pc' = [pc EXCEPT ![t] = "ready"]
  BY <1>1, <1>2, <1>3, <1>4, <1>5, <1>6 DEF Update, SetAccess, Return, rowVars
<1>8. /\ Active(t) /\ pc'[t] = "ready"
      /\ \A u \in Txn : u # t => pc'[u] = pc[u] /\ reply'[u] = reply[u]
  BY <1>7 DEF Active, IInv, TypeOK
<1>9. Api!CanUse(t, p)
  <2>1. accesses[t][p] = NULL => latch[r] = NULL
    BY <1>2, <1>7 DEF CanGetRow
  <2> QED
    BY <1>2, <1>7, <1>8, <2>1, UseApi
<1>10. /\ \A u \in Txn : u # t => Ctx'[u] = Ctx[u] /\ Rc'[u] = Rc[u]
       /\ Ctx'[t] = [copy |-> [CopyOf(t) EXCEPT ![p] = a.data.val],
                     wr |-> IF a.type = "WR" THEN WrittenBy(t) \cup {p} ELSE WrittenBy(t) \ {p},
                     stale |-> StaleFor(t)]
  BY <1>7, <1>8, AccessApi
<1>11. /\ Ctx[t] = [copy |-> CopyOf(t), wr |-> WrittenBy(t), stale |-> StaleFor(t)]
       /\ Ctx[t] # NULL
  BY <1>8, CtxFacts
<1>12. Ctx'[t] = [Ctx[t] EXCEPT !.copy[p] = v, !.wr = Ctx[t].wr \cup {p}]
  <2>1. Ctx'[t] = [copy |-> [CopyOf(t) EXCEPT ![p] = v],
                   wr |-> WrittenBy(t) \cup {p}, stale |-> StaleFor(t)]
    BY <1>6, <1>10
  <2>2. [Ctx[t] EXCEPT !.copy[p] = v, !.wr = Ctx[t].wr \cup {p}]
          = [copy |-> [CopyOf(t) EXCEPT ![p] = v],
             wr |-> WrittenBy(t) \cup {p}, stale |-> StaleFor(t)]
    <3>1. PICK x, c, w, s : x = Ctx[t] /\ c = CopyOf(t) /\ w = WrittenBy(t) /\ s = StaleFor(t)
      OBVIOUS
    <3>2. x = [copy |-> c, wr |-> w, stale |-> s]
      BY <1>11, <3>1
    <3>3. PICK C, W, y : /\ C = [c EXCEPT ![p] = v] /\ W = w \cup {p}
                         /\ y = [copy |-> C, wr |-> w, stale |-> s]
      OBVIOUS
    <3>4. x.wr \cup {p} = W
      BY <3>2, <3>3
    <3>5. [x EXCEPT !.copy[p] = v] = y
      BY <3>2, <3>3
    <3>6. [x EXCEPT !.copy[p] = v, !.wr = W] = [[x EXCEPT !.copy[p] = v] EXCEPT !.wr = W]
      OBVIOUS
    <3>7. [y EXCEPT !.wr = W] = [copy |-> C, wr |-> W, stale |-> s]
      BY <3>3
    <3>8. [x EXCEPT !.copy[p] = v, !.wr = W] = [copy |-> C, wr |-> W, stale |-> s]
      BY <3>5, <3>6, <3>7
    <3> QED
      BY <3>1, <3>3, <3>4, <3>8
  <2> QED
    BY <2>1, <2>2
<1>13. Ctx' = [Ctx EXCEPT ![t].copy[p] = v, ![t].wr = Ctx[t].wr \cup {p}]
  BY <1>10, <1>12 DEF Ctx
<1>14. Rc' = [Rc EXCEPT ![t] = "OK"]
  <2>1. RcOf(t)' = "OK"
    BY <1>7, <1>8 DEF RcOf, HasCommitted, IInv, TypeOK
  <2> QED
    BY <1>10, <2>1 DEF Rc
<1>15. Db' = Db
  BY UpdateRefines DEF serialVars, Serial!Put
<1>16. Api!buffered(b) = v
  BY <1>3, ConstantsAssumption DEF Api!buffered
<1>17. Api!put(t, p, b)
  BY <1>9, <1>11, <1>13, <1>14, <1>15, <1>16 DEF Api!put, Api!Answer
<1> QED
  BY <1>17

\* A refused copy is a record overwritten since begin_txn.
LEMMA RefusedApi ==
  ASSUME AllLoaded, IInv, IInv', Snapshots, Answers, NEW t \in Txn, RowRefused(t)
  PROVE  \E p \in LoadedPk : Api!get(t, p) \/ \E v \in Value : Api!put(t, p, v)
<1>1. PICK p \in LoadedPk : call[t].row = <<Loader, p>> /\ (pc[t] = "update" => call[t].val \in Value)
  BY CallRow DEF RowRefused
<1>2. /\ pc[t] \in {"read", "update"} /\ latch[<<Loader, p>>] = NULL
      /\ Refused(t, <<Loader, p>>)
      /\ UNCHANGED <<data, wts, accesses, start_ts, end_ts, rc>>
      /\ pc' = [pc EXCEPT ![t] = "ready"]
      /\ reply' = [reply EXCEPT ![t] = IF pc[t] = "read" THEN "NOT_FOUND" ELSE "ERROR"]
  BY <1>1 DEF RowRefused, Return, rowVars, txnVars
<1>3. /\ Active(t) /\ pc'[t] = "ready"
      /\ \A u \in Txn : u # t => pc'[u] = pc[u] /\ reply'[u] = reply[u]
  BY <1>2 DEF Active, IInv, TypeOK
<1>4. ASSUME NEW q \in LoadedPk PROVE CommittedWts(q)' = CommittedWts(q)
  <2>1. \A u \in Txn : Pending(u, q)' <=> Pending(u, q)
    BY <1>2, <1>3 DEF Pending, Writes
  <2> QED
    BY <1>2, <2>1, WtsFrame
<1>5. \A u \in Txn : Active(u)' <=> Active(u)
  BY <1>2, <1>3 DEF Active
<1>6. \A u \in Txn : CtxOf(u)' = CtxOf(u)
  BY <1>2, <1>4, <1>5, CtxFrame
<1>7. Ctx' = Ctx
  BY <1>6 DEF Ctx
<1>8. ~Api!CanUse(t, p)
  BY <1>2, <1>3, UseApi
<1>9. Db' = Db
  BY QuietSteps DEF serialVars
<1>10. Ctx[t] # NULL
  BY <1>3, CtxFacts
<1>11. \A u \in Txn : u # t => RcOf(u)' = RcOf(u)
  BY <1>2, <1>3, RcFrame
<1>12. CASE pc[t] = "read"
  <2>1. RcOf(t)' = "NOT_FOUND"
    BY <1>2, <1>3, <1>12 DEF RcOf, HasCommitted, IInv, TypeOK
  <2>2. Rc' = [Rc EXCEPT ![t] = "NOT_FOUND"]
    BY <1>11, <2>1 DEF Rc
  <2> QED
    BY <1>7, <1>8, <1>9, <1>10, <2>2 DEF Api!get, Api!Answer
<1>13. CASE pc[t] = "update"
  <2>1. RcOf(t)' = "ERROR"
    BY <1>2, <1>3, <1>13 DEF RcOf, HasCommitted, IInv, TypeOK
  <2>2. Rc' = [Rc EXCEPT ![t] = "ERROR"]
    BY <1>11, <2>1 DEF Rc
  <2> QED
    BY <1>1, <1>7, <1>8, <1>9, <1>10, <1>13, <2>2 DEF Api!put, Api!Answer
<1> QED
  BY <1>2, <1>12, <1>13

\* The commit point.  No row that t has used is stale, and its rows become so
\* for everyone else: end_ts is newer than every start_ts.
LEMMA DrawApi ==
  ASSUME AllLoaded, IInv, IInv', Snapshots, NEW t \in Txn, DrawEndTs(t)
  PROVE  Api!commit(t)
<1>1. /\ pc[t] = "validate" /\ rc[t] = "RCOK" /\ ToLatch(t) = {}
      /\ pc'[t] = "commit" /\ end_ts'[t] = timestamp
      /\ \A u \in Txn : u # t => pc'[u] = pc[u] /\ end_ts'[u] = end_ts[u]
      /\ UNCHANGED <<data, wts, start_ts, accesses, rc, reply>>
  BY DEF DrawEndTs, rowVars, IInv, TypeOK
<1>2. /\ Active(t) /\ ~Active(t)' /\ (\A u \in Txn : u # t => (Active(u)' <=> Active(u)))
      /\ RcOf(t)' = "OK"
  BY <1>1 DEF Active, RcOf, HasCommitted
<1>3. /\ \A u \in Txn, p \in LoadedPk : u # t => (Pending(u, p)' <=> Pending(u, p))
      /\ \A p \in LoadedPk : ~Pending(t, p) /\ (Pending(t, p)' <=> p \in WrittenBy(t))
  <2>1. \A p \in LoadedPk : accesses[t][p] # NULL => accesses[t][p].orig_row = <<Loader, p>>
    BY LoadedRow DEF IInv, RowsOK
  <2> QED
    BY <1>1, <2>1, WritesLoaded DEF Pending, Writes, WrittenBy
<1>4. ASSUME NEW p \in LoadedPk, accesses[t][p] # NULL PROVE ~(start_ts[t] < CommittedWts(p))
  <2>1. accesses[t][p].orig_row = <<Loader, p>> /\ <<Loader, p>> \in Row
    BY <1>4, LoadedRow DEF IInv, RowsOK
  <2>2. <<Loader, p>> \in locked[t]
    BY <1>1, <1>4, <2>1, LoadedRow DEF ToLatch, Accessed
  <2>3. ~(start_ts[t] < wts[<<Loader, p>>])
    BY <1>1, <2>1, <2>2 DEF IInv, ValidatedOK, validate_row
  <2>4. \A u \in Txn : ~Pending(u, p)
    <3> SUFFICES ASSUME NEW u \in Txn, Pending(u, p) PROVE FALSE
      OBVIOUS
    <3>1. <<Loader, p>> \in locked[u]
      BY LoadedRow, WritesLoaded DEF Pending, IInv, CommitLatched
    <3>2. u = t
      BY <2>1, <2>2, <3>1 DEF IInv, LatchesMatch
    <3> QED
      BY <1>3, <3>2
  <2> QED
    BY <2>3, <2>4, WtsFacts DEF WtsIs
<1>5. /\ Ctx[t] = [copy |-> CopyOf(t), wr |-> WrittenBy(t), stale |-> StaleFor(t)]
      /\ Ctx[t] # NULL /\ Api!Used(t) = {p \in LoadedPk : accesses[t][p] # NULL}
  BY <1>2, CtxFacts
<1>6. Api!Valid(t)
  BY <1>4, <1>5 DEF Api!Valid, StaleFor
<1>7. ASSUME NEW p \in LoadedPk
      PROVE  CommittedWts(p)' = IF p \in WrittenBy(t) THEN timestamp ELSE CommittedWts(p)
  <2>1. CASE p \in WrittenBy(t)
    BY <1>1, <1>3, <2>1, WtsNext DEF WtsIs
  <2>2. CASE p \notin WrittenBy(t)
    <3>1. \A u \in Txn : /\ Pending(u, p)' <=> Pending(u, p)
                         /\ Pending(u, p) => end_ts'[u] = end_ts[u]
      BY <1>1, <1>3, <2>2
    <3>2. CommittedWts(p)' = CommittedWts(p)
      BY <1>1, <3>1, WtsFrame
    <3> QED
      BY <2>2, <3>2
  <2> QED
    BY <2>1, <2>2
<1>8. ASSUME NEW u \in Txn, u # t, Active(u)
      PROVE  CtxOf(u)' = [copy |-> CopyOf(u), wr |-> WrittenBy(u),
                          stale |-> StaleFor(u) \cup WrittenBy(t)]
  <2>1. Active(u)' /\ accesses'[u] = accesses[u] /\ start_ts'[u] = start_ts[u]
    BY <1>1, <1>2, <1>8
  <2>2. start_ts[u] < timestamp
    BY DEF IInv, TimeOK
  <2>3. {p \in LoadedPk : start_ts[u] < CommittedWts(p)'} = StaleFor(u) \cup WrittenBy(t)
    BY <1>7, <2>2 DEF StaleFor, WrittenBy
  <2> QED
    BY <2>1, <2>3 DEF CtxOf, CopyOf, WrittenBy
<1>9. Ctx' = [u \in Txn |->
                IF u = t \/ Ctx[u] = NULL THEN NULL
                ELSE [Ctx[u] EXCEPT !.stale = @ \cup Ctx[t].wr]]
  <2>1. ASSUME NEW u \in Txn
        PROVE  CtxOf(u)' = IF u = t \/ Ctx[u] = NULL THEN NULL
                           ELSE [Ctx[u] EXCEPT !.stale = @ \cup Ctx[t].wr]
    <3>1. CASE u = t \/ ~Active(u)
      BY <1>2, <3>1, CtxFacts DEF CtxOf
    <3>2. CASE u # t /\ Active(u)
      <4>1. /\ Ctx[u] = [copy |-> CopyOf(u), wr |-> WrittenBy(u), stale |-> StaleFor(u)]
            /\ Ctx[u] # NULL
        BY <3>2, CtxFacts
      <4>2. [Ctx[u] EXCEPT !.stale = @ \cup Ctx[t].wr]
              = [copy |-> CopyOf(u), wr |-> WrittenBy(u), stale |-> StaleFor(u) \cup WrittenBy(t)]
        <5>1. PICK x, c, w, s, S : /\ x = Ctx[u] /\ c = CopyOf(u) /\ w = WrittenBy(u)
                                   /\ s = StaleFor(u) /\ S = WrittenBy(t)
          OBVIOUS
        <5>2. x = [copy |-> c, wr |-> w, stale |-> s]
          BY <4>1, <5>1
        <5>3. [x EXCEPT !.stale = @ \cup S] = [copy |-> c, wr |-> w, stale |-> s \cup S]
          BY <5>2, StaleInContext
        <5>4. Ctx[t].wr = S
          BY <1>5, <5>1
        <5> QED
          BY <5>1, <5>3, <5>4
      <4> QED
        BY <1>8, <3>2, <4>1, <4>2
    <3> QED
      BY <3>1, <3>2
  <2> QED
    BY <2>1 DEF Ctx
<1>10. Rc' = [Rc EXCEPT ![t] = "OK"]
  <2>1. \A u \in Txn : u # t => RcOf(u)' = RcOf(u)
    BY <1>1, RcFrame
  <2> QED
    BY <1>2, <2>1 DEF Rc
<1>11. Db' = [p \in LoadedPk |-> IF p \in Ctx[t].wr THEN Ctx[t].copy[p] ELSE Db[p]]
  <2>1. Db' = [p \in LoadedPk |-> IF Wr[t][p] # NULL THEN Wr[t][p] ELSE Db[p]]
    BY DrawRefines DEF Serial!Commit
  <2>2. ASSUME NEW p \in LoadedPk
        PROVE  /\ Wr[t][p] # NULL <=> p \in Ctx[t].wr
               /\ p \in Ctx[t].wr => Wr[t][p] = Ctx[t].copy[p]
    <3>1. Wr[t][p] = IF p \in WrittenBy(t) THEN CopyOf(t)[p] ELSE NULL
      BY <1>2 DEF Wr, WrOf, WrittenBy, CopyOf
    <3>2. p \in WrittenBy(t) => CopyOf(t)[p] # NULL
      BY <1>2, CtxFacts, NullAssumption DEF WrittenBy
    <3>3. Ctx[t].wr = WrittenBy(t) /\ Ctx[t].copy = CopyOf(t)
      BY <1>5
    <3> QED
      BY <3>1, <3>2, <3>3
  <2> QED
    BY <2>1, <2>2
<1> QED
  BY <1>5, <1>6, <1>9, <1>10, <1>11 DEF Api!commit, Api!Answer

\* Validation has met a row that was committed since t began, and nothing is
\* written.
LEMMA FailApi ==
  ASSUME AllLoaded, IInv, IInv', Snapshots, Answers, NEW t \in Txn, ValidateAbort(t)
  PROVE  Api!commit(t)
<1>1. /\ pc[t] = "validate" /\ rc[t] = "Abort" /\ pc'[t] = "release"
      /\ \A u \in Txn : u # t => pc'[u] = pc[u] /\ accesses'[u] = accesses[u]
      /\ UNCHANGED <<data, wts, start_ts, end_ts, rc, reply>>
  BY DEF ValidateAbort, Rollback, ClearSets, IInv, TypeOK
<1>2. /\ Active(t) /\ ~Active(t)' /\ (\A u \in Txn : u # t => (Active(u)' <=> Active(u)))
      /\ RcOf(t)' = "ABORT"
  BY <1>1 DEF Active, RcOf, HasCommitted
<1>3. /\ Ctx[t] = [copy |-> CopyOf(t), wr |-> WrittenBy(t), stale |-> StaleFor(t)]
      /\ Ctx[t] # NULL /\ Api!Used(t) = {p \in LoadedPk : accesses[t][p] # NULL}
  BY <1>2, CtxFacts
<1>4. ~Api!Valid(t)
  <2>1. PICK p \in LoadedPk : accesses[t][p] # NULL /\ start_ts[t] < wts[accesses[t][p].orig_row]
    BY <1>1, NothingInserted DEF Answers, AnswerOK
  <2>2. accesses[t][p].orig_row = <<Loader, p>>
    BY <2>1, LoadedRow DEF IInv, RowsOK
  <2>3. start_ts[t] < CommittedWts(p)
    <3>1. PICK r \in Row : r = <<Loader, p>>
      BY LoadedRow
    <3>2. start_ts[t] \in Nat /\ wts[r] \in Nat
      BY DEF IInv, TypeOK
    <3>3. CommittedWts(p) \in Nat /\ wts[r] <= CommittedWts(p) /\ start_ts[t] < wts[r]
      BY <2>1, <2>2, <3>1, WtsFacts DEF WtsIs
    <3> QED
      BY <3>2, <3>3
  <2>4. p \in StaleFor(t) /\ p \in Api!Used(t)
    BY <1>3, <2>1, <2>3 DEF StaleFor
  <2>5. Ctx[t].stale = StaleFor(t)
    BY <1>3
  <2> QED
    BY <2>4, <2>5 DEF Api!Valid
<1>5. ASSUME NEW u \in Txn, u # t PROVE CtxOf(u)' = CtxOf(u) /\ RcOf(u)' = RcOf(u)
  BY <1>1, <1>2, <1>5, EndFrame, RcFrame
<1>6. Ctx' = [u \in Txn |->
                IF u = t \/ Ctx[u] = NULL THEN NULL ELSE [Ctx[u] EXCEPT !.stale = @]]
  <2>1. ASSUME NEW u \in Txn
        PROVE  CtxOf(u)' = IF u = t \/ Ctx[u] = NULL THEN NULL ELSE [Ctx[u] EXCEPT !.stale = @]
    <3>1. CASE u = t
      BY <1>2, <3>1 DEF CtxOf
    <3>2. CASE u # t /\ ~Active(u)
      BY <1>5, <3>2, CtxFacts DEF Ctx
    <3>3. CASE u # t /\ Active(u)
      <4>1. PICK x, c, w, s : x = Ctx[u] /\ c = CopyOf(u) /\ w = WrittenBy(u) /\ s = StaleFor(u)
        OBVIOUS
      <4>2. x = [copy |-> c, wr |-> w, stale |-> s] /\ x # NULL
        BY <3>3, <4>1, CtxFacts
      <4>3. [x EXCEPT !.stale = @] = x
        BY <4>2, SameContext
      <4>4. CtxOf(u)' = x
        BY <1>5, <3>3, <4>1 DEF Ctx
      <4> QED
        BY <3>3, <4>1, <4>2, <4>3, <4>4
    <3> QED
      BY <3>1, <3>2, <3>3
  <2> QED
    BY <2>1 DEF Ctx
<1>7. Rc' = [Rc EXCEPT ![t] = "ABORT"]
  BY <1>2, <1>5 DEF Rc
<1>8. Db' = Db
  BY RollbackRefines DEF Serial!Abort
<1> QED
  BY <1>3, <1>4, <1>6, <1>7, <1>8 DEF Api!commit, Api!Answer

\* The transaction is given up.
LEMMA GiveUpApi ==
  ASSUME IInv, IInv', Snapshots, NEW t \in Txn, abort_txn(t)
  PROVE  Api!abort_txn(t)
<1>1. /\ pc[t] = "ready" /\ pc'[t] = "done" /\ rc'[t] = "Abort" /\ reply'[t] = "OK"
      /\ \A u \in Txn : u # t => /\ pc'[u] = pc[u] /\ accesses'[u] = accesses[u]
                                  /\ rc'[u] = rc[u] /\ reply'[u] = reply[u]
                                  /\ start_ts'[u] = start_ts[u]
      /\ UNCHANGED <<data, wts, end_ts>>
  BY DEF abort_txn, Rollback, ClearSets, IInv, TypeOK
<1>2. /\ Active(t) /\ ~Active(t)' /\ (\A u \in Txn : u # t => (Active(u)' <=> Active(u)))
      /\ RcOf(t)' = "OK"
  BY <1>1 DEF Active, RcOf, HasCommitted
<1>3. ASSUME NEW u \in Txn, u # t PROVE CtxOf(u)' = CtxOf(u) /\ RcOf(u)' = RcOf(u)
  BY <1>1, <1>2, <1>3, EndFrame, RcFrame
<1>4. CtxOf(t)' = NULL
  BY <1>2 DEF CtxOf
<1>5. Ctx' = [Ctx EXCEPT ![t] = NULL] /\ Rc' = [Rc EXCEPT ![t] = "OK"]
  BY <1>2, <1>3, <1>4 DEF Ctx, Rc
<1>6. Db' = Db
  BY RollbackRefines DEF Serial!Abort
<1>7. Ctx[t] # NULL
  BY <1>2, CtxFacts
<1> QED
  BY <1>5, <1>6, <1>7 DEF Api!abort_txn, Api!Answer
-----------------------------------------------------------------------------
\* No transaction is open before the first call.
LEMMA InitApi == Init => Api!ApiInit
<1> SUFFICES ASSUME Init PROVE Api!ApiInit
  OBVIOUS
<1>1. Db = [p \in LoadedPk |-> val_buf[InitVal]]
  BY InitRefines DEF Serial!Init
<1>2. Ctx = [t \in Txn |-> NULL] /\ Rc = [t \in Txn |-> "none"]
  BY DEF Init, Ctx, Rc, CtxOf, RcOf, Active
<1> QED
  BY <1>1, <1>2 DEF Api!ApiInit

\* Every step of the engine is a call of the API or changes nothing that its
\* callers see.
LEMMA NextApi ==
  AllLoaded /\ IInv /\ IInv' /\ Snapshots /\ Answers /\ [Next]_vars => [Api!ApiNext]_(Api!apiVars)
<1> SUFFICES ASSUME AllLoaded, IInv, IInv', Snapshots, Answers, [Next]_vars
             PROVE  [Api!ApiNext]_(Api!apiVars)
  OBVIOUS
<1>0. UNCHANGED apiView => [Api!ApiNext]_(Api!apiVars)
  BY DEF apiView, Api!apiVars
<1>1. ASSUME NEW t \in Txn, Request(t) PROVE [Api!ApiNext]_(Api!apiVars)
  <2>1. \A k \in Key : ~GetAbsent(t, k) /\ \A v \in Value : ~PutAbsent(t, k, v)
    BY NothingInserted DEF GetAbsent, PutAbsent
  <2>2. begin_txn(t) => Api!begin_txn(t)
    BY BeginApi
  <2>3. (\E k \in Key : GetFound(t, k) \/ \E v \in Value : PutFound(t, k, v)) => UNCHANGED apiView
    BY QuietApi
  <2>4. commit(t) => UNCHANGED apiView
    BY QuietApi
  <2>5. abort_txn(t) => Api!abort_txn(t)
    BY GiveUpApi
  <2> QED
    BY <1>0, <1>1, <2>1, <2>2, <2>3, <2>4, <2>5 DEF Request, Api!ApiNext
<1>2. ASSUME NEW t \in Txn, Step(t) PROVE [Api!ApiNext]_(Api!apiVars)
  <2>1. RowRefused(t) => \E p \in LoadedPk : Api!get(t, p) \/ \E v \in Value : Api!put(t, p, v)
    BY RefusedApi
  <2>2. Read(t) => \E p \in LoadedPk : Api!get(t, p)
    BY ReadApi
  <2>3. Update(t) => \E p \in LoadedPk : \E v \in Value : Api!put(t, p, v)
    BY UpdateApi
  <2>4. ~Insert(t)
    BY NothingInserted DEF Insert
  <2>5. DrawEndTs(t) => Api!commit(t)
    BY DrawApi
  <2>6. ValidateAbort(t) => Api!commit(t)
    BY FailApi
  <2>7. Install(t) => UNCHANGED apiView
    BY InstallApi
  <2>8. LatchRow(t) \/ release(t) \/ commit_return(t) => UNCHANGED apiView
    BY QuietApi
  <2> QED
    BY <1>0, <1>2, <2>1, <2>2, <2>3, <2>4, <2>5, <2>6, <2>7, <2>8 DEF Step, Api!ApiNext
<1>3. ASSUME NEW t \in Txn, Fault(t) PROVE [Api!ApiNext]_(Api!apiVars)
  BY <1>0, <1>3, QuietApi
<1>4. CASE UNCHANGED vars
  <2>1. Db' = Db
    BY <1>4 DEF vars, Db, Committed, Pending, Writes
  <2>2. \A p \in LoadedPk : CommittedWts(p)' = CommittedWts(p)
    BY <1>4 DEF vars, CommittedWts, Pending, Writes
  <2>3. Ctx' = Ctx
    BY <1>4, <2>2 DEF vars, Ctx, CtxOf, Active
  <2>4. Rc' = Rc
    BY <1>4 DEF vars, Rc, RcOf, HasCommitted
  <2> QED
    BY <1>0, <2>1, <2>3, <2>4 DEF apiView
<1> QED
  BY <1>1, <1>2, <1>3, <1>4 DEF Next, Stopped

\* If every key is loaded, each call of begin_txn, get, put, commit and abort_txn
\* takes effect at one instant, with the answer that the API gives there
\* (kv_api.cpp:101-176).
THEOREM CallsTakeEffectAtOnce ==
  ASSUME AllLoaded PROVE Spec => CallsAreAtomic
<1>1. Init => Api!ApiInit
  BY InitApi
<1>2. IInv /\ IInv' /\ Snapshots /\ Answers /\ [Next]_vars => [Api!ApiNext]_(Api!apiVars)
  BY NextApi
<1>3. Spec => []IInv
  BY Invariance
<1>4. Spec => []Snapshots
  BY SnapshotReads, PTL DEF RefInv, Snapshots
<1>5. Spec => []Answers
  <2>1. Init => Answers
    BY AnswersInit
  <2>2. IInv /\ IInv' /\ Answers /\ [Next]_vars => Answers'
    BY AnswersStep
  <2> QED
    BY <1>3, <2>1, <2>2, PTL DEF Spec
<1> QED
  BY <1>1, <1>2, <1>3, <1>4, <1>5, PTL DEF Spec, CallsAreAtomic, Api!ApiSpec
=============================================================================
