--------------------------- MODULE StartupProofs ---------------------------
(***************************************************************************)
(* Proofs about the start of the server, for every schema file that gives  *)
(* Data_TABLE its two columns, every data file, all widths of the columns  *)
(* and any strings.                                                        *)
(***************************************************************************)
EXTENDS MCStartup, FiniteSetTheorems, WellFoundedInduction, TLAPS

USE DEF Column
-----------------------------------------------------------------------------
(* Rows: what a column keeps of a string *)

\* What a column as wide as its buffer keeps of s: its first characters and a NUL.
kept(s, size) == IF len[s] < size - 1 THEN len[s] ELSE size - 1

Keeps(data, pos, s, size) ==
  /\ data[pos + kept(s, size)] = NUL
  /\ \A o \in 0..(kept(s, size) - 1) : data[pos + o] = char(s, o)

\* A column keeps no more than its width.
LEMMA KeptRange ==
  ASSUME NEW s \in Str, NEW size \in Nat \ {0}
  PROVE  /\ kept(s, size) \in 0..(size - 1)
         /\ kept(s, size) = Min({len[s], size - 1})
         /\ len[s] \in Nat
<1>1. len[s] \in Nat
  BY StrAssumption
<1>2. size - 1 \in Nat
  OBVIOUS
<1>3. kept(s, size) \in 0..(size - 1)
  BY <1>1, <1>2 DEF kept
<1>4. kept(s, size) \in {len[s], size - 1} /\ \A y \in {len[s], size - 1} : kept(s, size) <= y
  BY <1>1, <1>2 DEF kept
<1>5. \A x, y \in {len[s], size - 1} : x <= y /\ y <= x => x = y
  BY <1>1, <1>2
<1> HIDE DEF kept
<1>6. kept(s, size) = Min({len[s], size - 1})
  BY <1>4, <1>5 DEF Min
<1>7. QED
  BY <1>1, <1>3, <1>6

\* A fixed buffer filled by strncpy holds what a column of its size keeps.
LEMMA BufferKeeps ==
  ASSUME NEW s \in Str, NEW size \in Nat \ {0}
  PROVE  /\ DOMAIN c_buf(s, size) = 0..(size - 1)
         /\ \A o \in 0..(size - 1) : c_buf(s, size)[o] \in Byte
         /\ Keeps(c_buf(s, size), 0, s, size)
<1>1. len[s] \in Nat /\ kept(s, size) \in 0..(size - 1)
  BY KeptRange
<1>2. \A o \in 0..(size - 1) : c_buf(s, size)[o] \in Byte
  BY DEF c_buf, Byte, char
<1>3. c_buf(s, size)[kept(s, size)] = NUL
  BY <1>1 DEF c_buf, kept
<1>4. \A o \in 0..(kept(s, size) - 1) : c_buf(s, size)[o] = char(s, o)
  BY <1>1 DEF c_buf, kept
<1>5. DOMAIN c_buf(s, size) = 0..(size - 1)
  BY DEF c_buf
<1> HIDE DEF kept
<1>6. Keeps(c_buf(s, size), 0, s, size)
  BY <1>1, <1>3, <1>4 DEF Keeps
<1>7. QED
  BY <1>2, <1>5, <1>6

\* So do the bytes behind a std::string's pointer, if the string is shorter than
\* the column.
LEMMA StringKeeps ==
  ASSUME NEW s \in Str, NEW size \in Nat \ {0}, len[s] < size
  PROVE  /\ DOMAIN c_str(s, size) = 0..(size - 1)
         /\ \A o \in 0..(size - 1) : c_str(s, size)[o] \in Byte
         /\ Keeps(c_str(s, size), 0, s, size)
<1>1. len[s] \in Nat /\ kept(s, size) = len[s]
  BY StrAssumption DEF kept
<1>2. \A o \in 0..(size - 1) : c_str(s, size)[o] \in Byte
  BY DEF c_str, Byte, char
<1>3. c_str(s, size)[len[s]] = NUL
  BY <1>1 DEF c_str
<1>4. \A o \in 0..(len[s] - 1) : c_str(s, size)[o] = char(s, o)
  BY <1>1 DEF c_str
<1>5. DOMAIN c_str(s, size) = 0..(size - 1)
  BY DEF c_str
<1> HIDE DEF kept
<1>6. Keeps(c_str(s, size), 0, s, size)
  BY <1>1, <1>3, <1>4 DEF Keeps
<1>7. QED
  BY <1>2, <1>5, <1>6

\* A place whose bytes are those of a buffer keeps what the buffer keeps.
LEMMA KeepsCopied ==
  ASSUME NEW s \in Str, NEW size \in Nat \ {0}, NEW buf, Keeps(buf, 0, s, size),
         NEW data, NEW pos \in Nat, \A o \in 0..(size - 1) : data[pos + o] = buf[o]
  PROVE  Keeps(data, pos, s, size)
<1>1. kept(s, size) \in 0..(size - 1)
  BY KeptRange
<1> HIDE DEF kept
<1>2. PICK k \in 0..(size - 1) : k = kept(s, size)
  BY <1>1
<1>3. data[pos + k] = NUL
  BY <1>2 DEF Keeps
<1>4. \A o \in 0..(k - 1) : o \in 0..(size - 1) /\ buf[o] = char(s, o)
  BY <1>2 DEF Keeps
<1>5. \A o \in 0..(k - 1) : data[pos + o] = char(s, o)
  BY <1>4
<1>6. QED
  BY <1>2, <1>3, <1>5 DEF Keeps

\* The same for the column that starts the row.
LEMMA KeepsKey ==
  ASSUME NEW s \in Str, NEW buf, Keeps(buf, 0, s, KEY_BUF), KEY_BUF \in Nat \ {0},
         NEW data, \A o \in 0..(KEY_BUF - 1) : data[o] = buf[o]
  PROVE  Keeps(data, 0, s, KEY_BUF)
<1>1. PICK pos \in Nat : pos = 0
  OBVIOUS
<1>2. \A o \in 0..(KEY_BUF - 1) : pos + o = o
  BY <1>1
<1>3. Keeps(data, pos, s, KEY_BUF)
  BY <1>2, KeepsCopied
<1>4. QED
  BY <1>1, <1>3

\* get_value reads what the column keeps, and nothing of another column.
LEMMA ReadBack ==
  ASSUME NEW s \in Str, NEW size \in Nat \ {0}, NEW pos \in Nat, NEW data, NEW schema, NEW id,
         NEW top \in Nat, DOMAIN data = 0..(top - 1), pos + size <= top,
         get_field_index(schema, id) = pos, Keeps(data, pos, s, size)
  PROVE  get_value(schema, data, id) = cut(s, size)
<1> DEFINE nuls == {o \in DOMAIN data : o >= pos /\ data[o] = NUL}
<1>0. /\ kept(s, size) \in 0..(size - 1)
      /\ kept(s, size) = Min({len[s], size - 1})
      /\ len[s] \in Nat
  BY KeptRange
<1>1. kept(s, size) <= len[s]
  BY <1>0 DEF kept
<1> HIDE DEF kept
<1>2. PICK k \in 0..(size - 1) : k = kept(s, size)
  BY <1>0
<1>3. pos + k \in nuls
  BY <1>2 DEF Keeps
<1>4. \A o \in nuls : pos + k <= o
  <2>1. SUFFICES ASSUME NEW o \in nuls, o < pos + k
                 PROVE  FALSE
    OBVIOUS
  <2>2. o - pos \in 0..(k - 1) /\ o = pos + (o - pos)
    BY <2>1
  <2>3. data[o] = char(s, o - pos)
    BY <2>2, <1>2 DEF Keeps
  <2>4. o - pos \in 0..(len[s] - 1)
    BY <2>2, <1>0, <1>1, <1>2
  <2>5. QED
    BY <2>1, <2>3, <2>4, NulAssumption
<1>5. nuls \subseteq Nat
  OBVIOUS
<1>6. Min(nuls) = pos + k
  <2>1. \A x, y \in nuls : x <= y /\ y <= x => x = y
    BY <1>5
  <2> HIDE DEF nuls
  <2>2. QED
    BY <1>3, <1>4, <2>1 DEF Min
<1>7. get_value(schema, data, id) = [m \in 1..(Min(nuls) - pos) |-> data[pos + m - 1]]
  BY <1>3 DEF get_value
<1> HIDE DEF nuls
<1>8. get_value(schema, data, id) = [m \in 1..k |-> data[pos + m - 1]]
  BY <1>6, <1>7
<1>9. \A m \in 1..k : data[pos + m - 1] = char(s, m - 1)
  <2>1. TAKE m \in 1..k
  <2>2. m - 1 \in 0..(kept(s, size) - 1) /\ pos + m - 1 = pos + (m - 1)
    BY <1>2
  <2>3. QED
    BY <2>2 DEF Keeps
<1>10. cut(s, size) = [m \in 1..k |-> char(s, m - 1)]
  BY <1>0, <1>2 DEF cut
<1>11. QED
  BY <1>8, <1>9, <1>10
-----------------------------------------------------------------------------
(* Rows: new and written ones *)

\* Both columns of a row of Data_TABLE hold their strings.
Width == KEY_BUF + VAL_BUF
Holds(data, k, v) == Keeps(data, 0, k, KEY_BUF) /\ Keeps(data, KEY_BUF, v, VAL_BUF)
Bytes == [0..(Width - 1) -> Byte]

\* The places of the two columns.
LEMMA CatalogFacts ==
  /\ KEY_BUF \in Nat \ {0} /\ VAL_BUF \in Nat \ {0} /\ Width \in Nat
  /\ get_field_index(Data_catalog, 0) = 0 /\ get_field_size(Data_catalog, 0) = KEY_BUF
  /\ get_field_index(Data_catalog, 1) = KEY_BUF /\ get_field_size(Data_catalog, 1) = VAL_BUF
  /\ Data_catalog.tuple_size = Width
<1>1. KEY_BUF \in Nat \ {0} /\ VAL_BUF \in Nat \ {0}
  BY ConstantsAssumption
<1>2. QED
  BY <1>1 DEF Width, Data_catalog, get_field_index, get_field_size

\* set_value changes the bytes of its column only.
LEMMA SetKey ==
  ASSUME NEW data, DOMAIN data = 0..(Width - 1), NEW buf, DOMAIN buf = 0..(KEY_BUF - 1)
  PROVE  set_value(Data_catalog, data, 0, buf) =
           [o \in 0..(Width - 1) |-> IF o < KEY_BUF THEN buf[o] ELSE data[o]]
BY CatalogFacts DEF set_value, byte

\* So for the second column.
LEMMA SetVal ==
  ASSUME NEW data, DOMAIN data = 0..(Width - 1), NEW buf, DOMAIN buf = 0..(VAL_BUF - 1)
  PROVE  set_value(Data_catalog, data, 1, buf) =
           [o \in 0..(Width - 1) |-> IF o < KEY_BUF THEN data[o] ELSE buf[o - KEY_BUF]]
<1>1. \A o \in 0..(Width - 1) : o >= KEY_BUF => o < KEY_BUF + VAL_BUF /\ o - KEY_BUF \in DOMAIN buf
  BY CatalogFacts DEF Width
<1>2. QED
  BY <1>1, CatalogFacts DEF set_value, byte

\* A row made of two buffers that keep k and v holds k and v.
LEMMA NewRowHolds ==
  ASSUME NEW k \in Str, NEW v \in Str, NEW kb, NEW vb,
         DOMAIN kb = 0..(KEY_BUF - 1), DOMAIN vb = 0..(VAL_BUF - 1),
         \A o \in DOMAIN kb : kb[o] \in Byte, \A o \in DOMAIN vb : vb[o] \in Byte,
         Keeps(kb, 0, k, KEY_BUF), Keeps(vb, 0, v, VAL_BUF),
         NEW data,
         data = set_value(Data_catalog, set_value(Data_catalog, new_data(Data_catalog), 0, kb), 1, vb)
  PROVE  data \in Bytes /\ Holds(data, k, v)
<1> USE CatalogFacts
<1> DEFINE one == set_value(Data_catalog, new_data(Data_catalog), 0, kb)
<1>1. DOMAIN new_data(Data_catalog) = 0..(Width - 1)
  BY DEF new_data
<1>2. one = [o \in 0..(Width - 1) |-> IF o < KEY_BUF THEN kb[o] ELSE new_data(Data_catalog)[o]]
  BY <1>1, SetKey
<1>3. data = set_value(Data_catalog, one, 1, vb)
  OBVIOUS
<1>4. DOMAIN one = 0..(Width - 1)
  BY <1>2
<1> HIDE DEF one
<1>5. data = [o \in 0..(Width - 1) |-> IF o < KEY_BUF THEN one[o] ELSE vb[o - KEY_BUF]]
  BY <1>3, <1>4, SetVal
<1>6. \A o \in 0..(KEY_BUF - 1) : data[o] = kb[o]
  BY <1>2, <1>5 DEF Width
<1>7. \A o \in 0..(VAL_BUF - 1) : data[KEY_BUF + o] = vb[o]
  BY <1>5 DEF Width
<1>8. data \in Bytes
  <2>1. SUFFICES ASSUME NEW o \in 0..(Width - 1)
                 PROVE  data[o] \in Byte
    BY <1>5 DEF Bytes
  <2>2. CASE o < KEY_BUF
    BY <2>2, <1>6
  <2>3. CASE o >= KEY_BUF
    <3>1. PICK m \in 0..(VAL_BUF - 1) : o = KEY_BUF + m
      BY <2>3, o - KEY_BUF \in 0..(VAL_BUF - 1) DEF Width
    <3>2. QED
      BY <3>1, <1>7
  <2>4. QED
    BY <2>2, <2>3
<1>9. Keeps(data, 0, k, KEY_BUF)
  BY <1>6, KeepsKey
<1>10. Keeps(data, KEY_BUF, v, VAL_BUF)
  BY <1>7, KeepsCopied
<1>11. QED
  BY <1>8, <1>9, <1>10 DEF Holds

\* A transaction's write of the value, by way of its local copy of the row.
LEMMA WriteHolds ==
  ASSUME NEW k \in Str, NEW old \in Str, NEW v \in Str, NEW data \in Bytes, Holds(data, k, old),
         NEW local, local = copy(Data_catalog, new_data(Data_catalog), data),
         NEW after, after = copy(Data_catalog, data, WriteLocal(Data_catalog, local, v))
  PROVE  after \in Bytes /\ Holds(after, k, v)
<1> USE CatalogFacts
<1>1. local = [o \in 0..(Width - 1) |-> data[o]]
  BY DEF copy, new_data
<1>2. DOMAIN c_buf(v, VAL_BUF) = 0..(VAL_BUF - 1)
  BY BufferKeeps
<1>3. WriteLocal(Data_catalog, local, v) =
        [o \in 0..(Width - 1) |-> IF o < KEY_BUF THEN local[o] ELSE c_buf(v, VAL_BUF)[o - KEY_BUF]]
  BY <1>1, <1>2, SetVal DEF WriteLocal
<1> HIDE DEF WriteLocal
<1>4. after = [o \in 0..(Width - 1) |-> WriteLocal(Data_catalog, local, v)[o]]
  BY DEF copy, Bytes
<1>5. after = [o \in 0..(Width - 1) |-> IF o < KEY_BUF THEN data[o] ELSE c_buf(v, VAL_BUF)[o - KEY_BUF]]
  BY <1>1, <1>3, <1>4
<1>6. \A o \in 0..(KEY_BUF - 1) : after[o] = data[o]
  BY <1>5 DEF Width
<1>7. \A o \in 0..(VAL_BUF - 1) : after[KEY_BUF + o] = c_buf(v, VAL_BUF)[o]
  BY <1>5 DEF Width
<1>8. after \in Bytes
  <2>1. SUFFICES ASSUME NEW o \in 0..(Width - 1)
                 PROVE  after[o] \in Byte
    BY <1>5 DEF Bytes
  <2>2. CASE o < KEY_BUF
    BY <2>2, <1>6 DEF Bytes
  <2>3. CASE o >= KEY_BUF
    <3>1. PICK m \in 0..(VAL_BUF - 1) : o = KEY_BUF + m
      BY <2>3, o - KEY_BUF \in 0..(VAL_BUF - 1) DEF Width
    <3>2. QED
      BY <3>1, <1>7, BufferKeeps
  <2>4. QED
    BY <2>2, <2>3
<1>9. Keeps(after, 0, k, KEY_BUF)
  BY <1>6, KeepsKey DEF Holds
<1>10. Keeps(c_buf(v, VAL_BUF), 0, v, VAL_BUF)
  BY BufferKeeps
<1>11. Keeps(after, KEY_BUF, v, VAL_BUF)
  BY <1>7, <1>10, KeepsCopied
<1>12. QED
  BY <1>8, <1>9, <1>11 DEF Holds

\* What is read back of a row that holds k and v.
LEMMA HoldsRead ==
  ASSUME NEW k \in Str, NEW v \in Str, NEW data \in Bytes, Holds(data, k, v)
  PROVE  /\ get_value(Data_catalog, data, 0) = cut(k, KEY_BUF)
         /\ get_value(Data_catalog, data, 1) = cut(v, VAL_BUF)
<1>1. DOMAIN data = 0..(Width - 1) /\ 0 + KEY_BUF <= Width /\ KEY_BUF + VAL_BUF <= Width
  BY CatalogFacts DEF Bytes, Width
<1>2. get_value(Data_catalog, data, 0) = cut(k, KEY_BUF)
  BY <1>1, CatalogFacts, ReadBack, 0 \in Nat DEF Holds
<1>3. get_value(Data_catalog, data, 1) = cut(v, VAL_BUF)
  BY <1>1, CatalogFacts, ReadBack DEF Holds
<1>4. QED
  BY <1>2, <1>3
-----------------------------------------------------------------------------
(* The inductive invariant *)

Labels ==
  {"schema", "looping", "table", "occ", "open", "load", "socket", "listening", "failed"}
Strings == [key : Str, val : Str]

TypeOK ==
  /\ schema_file \in SchemaFiles /\ infile \in DataFiles
  /\ pc \in Labels /\ n \in Nat
  /\ rows \in [RowId -> Row \cup {NULL}]
  /\ index \in [Pk -> Item \cup {NULL}]
  /\ set_last \in [RowId -> Strings \cup {NULL}]

\* Data_TABLE has its two columns before the first row is made.
CatalogOK ==
  /\ Table \in DOMAIN catalog => get_schema = Data_catalog
  /\ pc \notin {"schema", "looping", "failed"} => Table \in DOMAIN catalog
  /\ \A r \in RowId : rows[r] # NULL => Table \in DOMAIN catalog

\* Rows get their numbers in turn, hold the strings they were last given, and are
\* in the index under their own primary keys.
RowsOK ==
  /\ \E c \in 0..MaxRows : \A r \in RowId : rows[r] # NULL <=> r < c
  /\ \A r \in RowId : rows[r] # NULL =>
       set_last[r] \in Strings /\ Holds(rows[r].data, set_last[r].key, set_last[r].val)
  /\ \A p \in Pk : index[p] # NULL =>
       rows[index[p].location] # NULL /\ rows[index[p].location].primary_key = p

ParamsOK ==
  infile # NULL =>
    /\ ~raced
    /\ pc \in {"load", "socket", "listening"} => "abort_buffer_enable" \in g_params

\* How many records of the data file have been read.
read == IF infile = NULL \/ pc \notin {"load", "socket", "listening"} THEN 0
        ELSE IF pc = "load" THEN n ELSE Len(infile)

pk(m) == hash_key[infile[m].key]

\* The index leads to the last record read of each key, and to no other row than
\* records and test rows; each record has drawn a timestamp.
LoadOK ==
  /\ pc = "load" => infile # NULL /\ n <= Len(infile)
  /\ \A m \in 1..read : index[pk(m)] # NULL
  /\ pc # "listening" => \A m \in 1..read :
       (\A j \in (m + 1)..read : pk(j) # pk(m)) => set_last[index[pk(m)].location] = infile[m]
  /\ pc \notin {"listening", "failed"} =>
       \A p \in Pk : index[p] # NULL => p < TestRows \/ \E m \in 1..read : p = pk(m)
  /\ pc \in {"occ", "open", "load", "socket"} => timestamp = 1 + read

StartInv == TypeOK /\ CatalogOK /\ RowsOK /\ ParamsOK /\ LoadOK
-----------------------------------------------------------------------------
(* A new row *)

\* The step puts row, of number r and with the strings k and v, behind item into
\* the index under p.
Added(r, row, item, p, k, v) ==
  /\ r \in RowId /\ row \in Row /\ item \in Item
  /\ \A q \in RowId : rows[q] # NULL <=> q < r
  /\ rows' = [rows EXCEPT ![r] = row]
  /\ index' = [index EXCEPT ![p] = item]
  /\ set_last' = [set_last EXCEPT ![r] = [key |-> k, val |-> v]]
  /\ row.primary_key = p /\ item.location = r /\ Holds(row.data, k, v)

\* NewRow adds one row, with the next number, that holds its strings.
LEMMA NewRowAdds ==
  ASSUME TypeOK, CatalogOK, RowsOK, Table \in DOMAIN catalog,
         NEW p \in Pk, NEW k \in Str, NEW v \in Str, NEW kb, NEW vb,
         DOMAIN kb = 0..(KEY_BUF - 1), DOMAIN vb = 0..(VAL_BUF - 1),
         \A o \in DOMAIN kb : kb[o] \in Byte, \A o \in DOMAIN vb : vb[o] \in Byte,
         Keeps(kb, 0, k, KEY_BUF), Keeps(vb, 0, v, VAL_BUF),
         NewRow(p, k, v, kb, vb)
  PROVE  \E r \in RowId, row \in Row, item \in Item : Added(r, row, item, p, k, v)
<1>1. PICK c \in 0..MaxRows : \A r \in RowId : rows[r] # NULL <=> r < c
  BY DEF RowsOK
<1>2. MaxRows \in Nat
  BY ConstantsAssumption
<1>3. {r \in RowId : rows[r] # NULL} = 0..(c - 1)
  BY <1>1, <1>2 DEF RowId
<1>4. cur_tab_size = c
  <2>1. 0 \in Int /\ c - 1 \in Int
    BY <1>2
  <2>2. Cardinality(0..(c - 1)) = IF 0 > c - 1 THEN 0 ELSE (c - 1) - 0 + 1
    BY <2>1, FS_Interval
  <2>3. Cardinality(0..(c - 1)) = c
    BY <2>2, <1>2
  <2>4. QED
    BY <2>3, <1>3 DEF cur_tab_size
<1>5. get_schema = Data_catalog
  BY DEF CatalogOK
<1> DEFINE data == set_value(Data_catalog, set_value(Data_catalog, new_data(Data_catalog), 0, kb), 1, vb)
           row == row_t(p, data)
           item == itemid_t(c, index[p])
<1>6. /\ c \in RowId
      /\ rows' = [rows EXCEPT ![c] = row]
      /\ index' = [index EXCEPT ![p] = item]
      /\ set_last' = [set_last EXCEPT ![c] = [key |-> k, val |-> v]]
  <2>1. index' = [index EXCEPT ![p] = itemid_t(c, @)]
    BY <1>4 DEF NewRow
  <2>2. index' = [index EXCEPT ![p] = item]
    BY <2>1
  <2>3. QED
    BY <2>2, <1>4, <1>5 DEF NewRow
<1>7. data \in Bytes /\ Holds(data, k, v)
  BY NewRowHolds
<1>8. row.data = data /\ row.primary_key = p /\ row \in Row
  <2> HIDE DEF data
  <2>1. row = [primary_key |-> p, manager |-> Row_occ, data |-> data]
    BY DEF row_t, init_manager
  <2>2. data \in [0..(Data_catalog.tuple_size - 1) -> Byte]
    BY <1>7, CatalogFacts DEF Bytes
  <2>3. QED
    BY <2>1, <2>2 DEF Row
<1>9. item \in Item /\ item.location = c
  <2>1. index[p] \in Item \cup {NULL}
    BY DEF TypeOK
  <2>2. (IF index[p] = NULL THEN NULL ELSE index[p].location) \in RowId \cup {NULL}
    BY <2>1 DEF Item
  <2>3. QED
    BY <2>2, <1>6 DEF itemid_t, Item
<1> HIDE DEF data, row, item
<1>10. Added(c, row, item, p, k, v)
  BY <1>1, <1>6, <1>7, <1>8, <1>9 DEF Added
<1>11. QED
  BY <1>6, <1>8, <1>9, <1>10

\* What a new row does to the invariant's parts that do not speak of records.
LEMMA AddedKeeps ==
  ASSUME TypeOK, CatalogOK, RowsOK, Table \in DOMAIN catalog, UNCHANGED <<files, catalog>>,
         pc' \in Labels, n' \in Nat, NEW p \in Pk, NEW k \in Str, NEW v \in Str,
         NEW r \in RowId, NEW row \in Row, NEW item \in Item, Added(r, row, item, p, k, v)
  PROVE  TypeOK' /\ CatalogOK' /\ RowsOK'
<1>1. /\ r \in RowId /\ row \in Row /\ item \in Item
      /\ \A q \in RowId : rows[q] # NULL <=> q < r
      /\ rows' = [rows EXCEPT ![r] = row]
      /\ index' = [index EXCEPT ![p] = item]
      /\ set_last' = [set_last EXCEPT ![r] = [key |-> k, val |-> v]]
      /\ row.primary_key = p /\ item.location = r /\ Holds(row.data, k, v)
  BY DEF Added
<1>2. row # NULL /\ item # NULL
  BY NullAssumption
<1>3. TypeOK'
  BY <1>1 DEF TypeOK, files, Strings
<1>4. CatalogOK'
  <2>1. get_schema' = get_schema
    BY DEF get_schema
  <2>2. QED
    BY <2>1 DEF CatalogOK
<1>5. \A q \in RowId : /\ rows'[q] = IF q = r THEN row ELSE rows[q]
                      /\ set_last'[q] = IF q = r THEN [key |-> k, val |-> v] ELSE set_last[q]
  BY <1>1 DEF TypeOK
<1>6. \A q \in Pk : index'[q] = IF q = p THEN item ELSE index[q]
  BY <1>1 DEF TypeOK
<1>7. RowsOK'
  <2>1. \E c \in 0..MaxRows : \A q \in RowId : rows'[q] # NULL <=> q < c
    <3>1. MaxRows \in Nat
      BY ConstantsAssumption
    <3>2. r + 1 \in 0..MaxRows
      BY <3>1 DEF RowId
    <3>3. \A q \in RowId : rows'[q] # NULL <=> q < r + 1
      BY <1>1, <1>2, <1>5 DEF RowId
    <3>4. QED
      BY <3>2, <3>3
  <2>2. ASSUME NEW q \in RowId, rows'[q] # NULL
        PROVE  set_last'[q] \in Strings /\ Holds(rows'[q].data, set_last'[q].key, set_last'[q].val)
    <3>1. CASE q = r
      BY <3>1, <1>1, <1>5 DEF Strings
    <3>2. CASE q # r
      BY <3>2, <2>2, <1>5 DEF RowsOK
    <3>3. QED
      BY <3>1, <3>2
  <2>3. ASSUME NEW q \in Pk, index'[q] # NULL
        PROVE  rows'[index'[q].location] # NULL /\ rows'[index'[q].location].primary_key = q
    <3>1. CASE q = p
      BY <3>1, <1>1, <1>2, <1>5, <1>6
    <3>2. CASE q # p
      <4>1. index'[q] = index[q] /\ index[q] \in Item
        BY <3>2, <2>3, <1>6 DEF TypeOK
      <4>2. PICK l \in RowId : l = index[q].location
        BY <4>1 DEF Item
      <4>3. rows[l] # NULL /\ rows[l].primary_key = q
        BY <4>1, <4>2, <2>3 DEF RowsOK
      <4>4. l # r
        BY <4>3, <1>1 DEF RowId
      <4>5. QED
        BY <4>1, <4>2, <4>3, <4>4, <1>5
    <3>3. QED
      BY <3>1, <3>2
  <2>4. QED
    BY <2>1, <2>2, <2>3 DEF RowsOK
<1>8. QED
  BY <1>3, <1>4, <1>7

\* Rows reached by way of different keys are different rows, and all of them are
\* older than a row that is added.
LEMMA OwnRows ==
  ASSUME TypeOK, RowsOK, NEW p \in Pk, NEW q \in Pk, index[p] # NULL
  PROVE  /\ index[p].location \in RowId /\ rows[index[p].location] # NULL
         /\ index[q] # NULL /\ index[p].location = index[q].location => p = q
<1>1. index[p] \in Item
  BY DEF TypeOK
<1>2. QED
  BY <1>1 DEF Item, RowsOK
-----------------------------------------------------------------------------
(* The steps *)

\* The initial state satisfies the invariant.
LEMMA InitInv == Init => StartInv
<1> SUFFICES ASSUME Init
             PROVE  StartInv
  OBVIOUS
<1>1. MaxRows \in Nat
  BY ConstantsAssumption
<1>2. TypeOK
  BY DEF Init, TypeOK, Labels
<1>3. CatalogOK
  BY DEF Init, CatalogOK
<1>4. RowsOK
  <2>1. 0 \in 0..MaxRows /\ \A r \in RowId : rows[r] # NULL <=> r < 0
    BY <1>1 DEF Init, RowId
  <2>2. \E c \in 0..MaxRows : \A r \in RowId : rows[r] # NULL <=> r < c
    BY <2>1
  <2>3. QED
    BY <2>2 DEF Init, RowsOK
<1>5. ParamsOK
  BY DEF Init, ParamsOK
<1>6. LoadOK
  BY DEF Init, LoadOK, read
<1>7. QED
  BY <1>2, <1>3, <1>4, <1>5, <1>6 DEF StartInv

\* The data file's records have strings, and keys that are hashed.
LEMMA Records ==
  ASSUME infile \in DataFiles, infile # NULL
  PROVE  /\ Len(infile) \in Nat /\ DOMAIN infile = 1..Len(infile)
         /\ \A m \in 1..Len(infile) :
              /\ infile[m].key \in Key /\ infile[m].key \in Str /\ infile[m].val \in Str
              /\ infile[m] = [key |-> infile[m].key, val |-> infile[m].val]
              /\ pk(m) \in Pk
<1>1. infile \in Seq([key : Key, val : Str]) /\ Key \subseteq Str /\ DOMAIN hash_key = Key
  BY ConstantsAssumption
<1>2. Len(infile) \in Nat /\ DOMAIN infile = 1..Len(infile)
  BY <1>1
<1>3. \A m \in 1..Len(infile) : infile[m] \in [key : Key, val : Str]
  <2> DEFINE S == [key : Key, val : Str]
  <2>1. infile \in Seq(S)
    BY <1>1
  <2> HIDE DEF S
  <2>2. \A m \in 1..Len(infile) : infile[m] \in S
    BY <2>1
  <2>3. QED
    BY <2>2 DEF S
<1>4. QED
  BY <1>1, <1>2, <1>3 DEF pk, Pk

\* Steps that leave the rows alone and load nothing.
LEMMA QuietStep ==
  ASSUME StartInv, UNCHANGED <<files, store>>, pc' \in Labels, n' \in Nat,
         Table \in DOMAIN catalog => Table \in DOMAIN catalog',
         Table \in DOMAIN catalog' => catalog'[Table] = Data_catalog,
         pc' \notin {"schema", "looping", "failed"} => Table \in DOMAIN catalog'
  PROVE  TypeOK' /\ CatalogOK' /\ RowsOK'
<1> USE DEF StartInv, files, store
<1>1. TypeOK'
  BY DEF TypeOK
<1>2. CatalogOK'
  BY DEF CatalogOK, get_schema
<1>3. RowsOK'
  BY DEF RowsOK
<1>4. QED
  BY <1>1, <1>2, <1>3

\* The steps before the data file is read leave no record in the index, and may
\* set the timestamp.
LEMMA EarlyStep ==
  ASSUME StartInv, UNCHANGED <<files, store>>, pc \in {"schema", "looping", "table", "occ", "open"},
         pc' \in {"schema", "looping", "table", "occ", "open", "failed"},
         pc' \in {"occ", "open"} => timestamp' = 1
  PROVE  LoadOK'
<1> USE DEF StartInv, files, store
<1>1. read = 0 /\ read' = 0
  BY DEF read
<1>2. \A p \in Pk : index[p] # NULL => p < TestRows
  BY <1>1 DEF LoadOK
<1>3. QED
  BY <1>1, <1>2 DEF LoadOK

\* A section of the schema file gives Data_TABLE its two columns, if it is
\* about it.
LEMMA ReadTableInv ==
  ASSUME StartInv, ReadTable
  PROVE  StartInv'
<1> DEFINE s == schema_file[n + 1]
<1> USE DEF StartInv
<1>1. /\ pc = "schema" /\ n < Len(schema_file) /\ s.kind = "TABLE"
      /\ catalog' = Assign(catalog, s.name, Columns(s))
      /\ n' = n + 1 /\ UNCHANGED <<files, pc, store, g_params, raced>>
  BY DEF ReadTable
<1>2. n \in Nat /\ schema_file \in SchemaFiles
  BY DEF TypeOK
<1>3. n + 1 \in 1..Len(schema_file)
  BY <1>1, <1>2, SchemaAssumption
<1>4. s.name = Table => Columns(s) = Data_catalog
  BY <1>1, <1>2, <1>3, SchemaAssumption
<1> HIDE DEF s, Table
<1>5. /\ Table \in DOMAIN catalog => Table \in DOMAIN catalog'
      /\ Table \in DOMAIN catalog' => catalog'[Table] = Data_catalog
  <2>1. DOMAIN catalog' = {s.name} \cup DOMAIN catalog
    BY <1>1 DEF Assign
  <2>2. Table \in DOMAIN catalog' =>
          catalog'[Table] = IF Table = s.name THEN Columns(s) ELSE catalog[Table]
    BY <1>1, <2>1 DEF Assign
  <2>3. Table \in DOMAIN catalog => catalog[Table] = Data_catalog
    BY DEF CatalogOK, get_schema
  <2>4. QED
    BY <1>4, <2>1, <2>2, <2>3
<1>6. TypeOK' /\ CatalogOK' /\ RowsOK'
  BY <1>1, <1>2, <1>5, QuietStep DEF Labels
<1>7. LoadOK'
  BY <1>1, EarlyStep
<1>8. ParamsOK'
  BY <1>1 DEF ParamsOK, files
<1>9. QED
  BY <1>6, <1>7, <1>8

\* Steps of the start that leave the catalog alone as well.
LEMMA SetUpInv ==
  ASSUME StartInv,
         \/ ReadTableUnended \/ ReadIndex \/ SchemaRead \/ Manager_init \/ OptCC_init
         \/ LastColumnAgain /\ pc' # pc
  PROVE  StartInv'
<1> USE DEF StartInv, Goto
<1>0. Table \in DOMAIN catalog => catalog[Table] = Data_catalog
  BY DEF CatalogOK, get_schema
<1>1. /\ pc \in {"schema", "looping", "table", "occ", "open"}
      /\ pc' \in {"schema", "looping", "table", "occ", "open", "failed"}
      /\ n' \in Nat
      /\ UNCHANGED <<files, catalog, store, g_params, raced>>
  BY DEF ReadTableUnended, LastColumnAgain, ReadIndex, SchemaRead, Manager_init, OptCC_init,
         vars, TypeOK
<1>2. pc' \notin {"schema", "looping", "failed"} => Table \in DOMAIN catalog'
  BY DEF ReadTableUnended, LastColumnAgain, ReadIndex, SchemaRead, Manager_init, OptCC_init,
         vars, CatalogOK
<1>3. pc' \in {"occ", "open"} => timestamp' = 1
  <2>1. CASE ReadTableUnended \/ ReadIndex \/ SchemaRead \/ (LastColumnAgain /\ pc' # pc)
    BY <2>1 DEF ReadTableUnended, LastColumnAgain, ReadIndex, SchemaRead, vars
  <2>2. CASE Manager_init
    BY <2>2 DEF Manager_init
  <2>3. CASE OptCC_init
    BY <2>3 DEF OptCC_init, LoadOK, read
  <2>4. QED
    BY <2>1, <2>2, <2>3
<1>4. TypeOK' /\ CatalogOK' /\ RowsOK'
  <2>1. pc' \in Labels
    BY <1>1 DEF Labels
  <2>2. QED
    BY <1>0, <1>1, <1>2, <2>1, QuietStep
<1>5. LoadOK'
  BY <1>1, <1>3, EarlyStep
<1>6. ParamsOK'
  BY <1>1 DEF ParamsOK, files
<1>7. QED
  BY <1>4, <1>5, <1>6

\* A test row keeps the invariant: its number is shorter than the columns.
LEMMA InitRowInv ==
  ASSUME StartInv, InitRow
  PROVE  StartInv'
<1> USE DEF StartInv
<1>1. /\ pc = "table" /\ n < TestRows /\ n \in Nat /\ n' = n + 1 /\ Table \in DOMAIN catalog
      /\ UNCHANGED <<files, pc, catalog, g_params, raced>>
  BY DEF InitRow, TypeOK, CatalogOK
<1> DEFINE s == digits[n]
<1>2. s \in Str /\ len[s] < KEY_BUF /\ len[s] < VAL_BUF /\ n \in Pk /\ TestRows \in Nat
  BY <1>1, ConstantsAssumption DEF Pk
<1>3. get_schema = Data_catalog
  BY <1>1 DEF CatalogOK
<1>4. NewRow(n, s, s, c_str(s, KEY_BUF), c_str(s, VAL_BUF))
  BY <1>3, CatalogFacts DEF InitRow
<1> HIDE DEF s
<1>5. \E r \in RowId, row \in Row, item \in Item : Added(r, row, item, n, s, s)
  BY <1>1, <1>2, <1>4, CatalogFacts, StringKeeps, NewRowAdds
<1>6. PICK r \in RowId, row \in Row, item \in Item : Added(r, row, item, n, s, s)
  BY <1>5
<1>7. TypeOK' /\ CatalogOK' /\ RowsOK'
  BY <1>1, <1>2, <1>6, AddedKeeps DEF Labels
<1>8. LoadOK'
  <2>1. read = 0 /\ read' = 0
    BY <1>1 DEF read, files
  <2>2. \A p \in Pk : index[p] # NULL => p < TestRows
    BY <1>1, <2>1 DEF LoadOK
  <2>3. index' = [index EXCEPT ![n] = item]
    BY <1>6 DEF Added
  <2>4. \A p \in Pk : index'[p] # NULL => p < TestRows
    BY <1>1, <2>2, <2>3 DEF TypeOK
  <2>5. QED
    BY <1>1, <2>1, <2>4 DEF LoadOK, files
<1>9. ParamsOK'
  BY <1>1 DEF ParamsOK, files
<1>10. QED
  BY <1>7, <1>8, <1>9

\* If there is a data file, the loader inserts the key of g_params.
LEMMA OpenDataInv ==
  ASSUME StartInv, OpenData
  PROVE  StartInv'
<1> USE DEF StartInv
<1>1. /\ pc = "open" /\ n' = 0 /\ Table \in DOMAIN catalog /\ catalog[Table] = Data_catalog
      /\ UNCHANGED <<files, catalog, store, timestamp, raced>>
      /\ IF infile = NULL THEN pc' = "socket" /\ g_params' = g_params
                          ELSE pc' = "load" /\ g_params' = ParamsOf(g_params)
  BY DEF OpenData, Goto, CatalogOK, get_schema
<1>2. pc' \in {"socket", "load"}
  BY <1>1
<1>3. TypeOK' /\ CatalogOK' /\ RowsOK'
  BY <1>1, <1>2, QuietStep DEF Labels
<1>4. LoadOK'
  <2>1. read = 0 /\ read' = 0
    BY <1>1 DEF read, files
  <2>2. \A p \in Pk : index[p] # NULL => p < TestRows
    BY <1>1, <2>1 DEF LoadOK
  <2>3. timestamp' = 1
    BY <1>1, <2>1 DEF LoadOK
  <2>4. pc' = "load" => infile' # NULL /\ n' <= Len(infile')
    BY <1>1, Records DEF files, TypeOK
  <2>5. QED
    BY <1>1, <2>1, <2>2, <2>3, <2>4 DEF LoadOK, store
<1>5. ParamsOK'
  BY <1>1 DEF ParamsOK, files, ParamsOf
<1>6. QED
  BY <1>3, <1>4, <1>5

\* A record becomes the first of its key, and the last read of its key.
LEMMA LoadRecordInv ==
  ASSUME StartInv, LoadRecord
  PROVE  StartInv'
<1> USE DEF StartInv
<1>1. /\ pc = "load" /\ n \in Nat /\ n' = n + 1 /\ Table \in DOMAIN catalog /\ infile # NULL
      /\ n < Len(infile) /\ timestamp' = timestamp + 1 /\ infile \in DataFiles
      /\ UNCHANGED <<files, pc, catalog, g_params, raced>>
  BY DEF LoadRecord, TypeOK, CatalogOK, LoadOK, get_ts, ATOM_FETCH_ADD
<1>2. Len(infile) \in Nat /\ DOMAIN infile = 1..Len(infile) /\ n + 1 \in 1..Len(infile)
  BY <1>1, Records
<1> DEFINE rec == infile[n + 1]
<1>3. /\ rec.key \in Str /\ rec.val \in Str /\ pk(n + 1) \in Pk
      /\ rec = [key |-> rec.key, val |-> rec.val] /\ pk(n + 1) = hash_key[rec.key]
  BY <1>1, <1>2, Records DEF pk
<1>4. NewRow(pk(n + 1), rec.key, rec.val, c_buf(rec.key, KEY_BUF), c_buf(rec.val, VAL_BUF))
  BY <1>3 DEF LoadRecord
<1> HIDE DEF rec
<1>5. \E r \in RowId, row \in Row, item \in Item : Added(r, row, item, pk(n + 1), rec.key, rec.val)
  <2>1. PICK kb : kb = c_buf(rec.key, KEY_BUF)
    OBVIOUS
  <2>2. PICK vb : vb = c_buf(rec.val, VAL_BUF)
    OBVIOUS
  <2>3. /\ DOMAIN kb = 0..(KEY_BUF - 1) /\ DOMAIN vb = 0..(VAL_BUF - 1)
        /\ \A o \in DOMAIN kb : kb[o] \in Byte
        /\ \A o \in DOMAIN vb : vb[o] \in Byte
        /\ Keeps(kb, 0, rec.key, KEY_BUF) /\ Keeps(vb, 0, rec.val, VAL_BUF)
    BY <1>3, <2>1, <2>2, CatalogFacts, BufferKeeps
  <2>4. QED
    BY <1>1, <1>3, <1>4, <2>1, <2>2, <2>3, NewRowAdds
<1>6. PICK r \in RowId, row \in Row, item \in Item : Added(r, row, item, pk(n + 1), rec.key, rec.val)
  BY <1>5
<1>7. TypeOK' /\ CatalogOK' /\ RowsOK'
  BY <1>1, <1>3, <1>6, AddedKeeps DEF Labels
<1>8. LoadOK'
  <2>1. read = n /\ read' = n + 1 /\ \A m \in 1..Len(infile) : pk(m)' = pk(m)
    BY <1>1 DEF read, files, pk
  <2>2. PICK q \in Pk : q = pk(n + 1)
    BY <1>3
  <2>3. /\ \A p \in Pk : index'[p] = IF p = q THEN item ELSE index[p]
        /\ \A o \in RowId : set_last'[o] = IF o = r THEN rec ELSE set_last[o]
        /\ item.location = r /\ item # NULL /\ \A o \in RowId : rows[o] # NULL => o # r
    <3>1. /\ index' = [index EXCEPT ![q] = item]
          /\ set_last' = [set_last EXCEPT ![r] = rec]
          /\ item.location = r /\ \A o \in RowId : rows[o] # NULL <=> o < r
      BY <1>3, <1>6, <2>2 DEF Added
    <3>2. item # NULL
      BY NullAssumption
    <3>3. \A o \in RowId : rows[o] # NULL => o # r
      BY <3>1 DEF RowId
    <3>4. QED
      BY <3>1, <3>2, <3>3 DEF TypeOK
  <2>4. \A m \in 1..n : pk(m) \in Pk /\ m \in 1..Len(infile)
    BY <1>1, <1>2, Records
  <2>5. ASSUME NEW m \in 1..(n + 1)
        PROVE  index'[pk(m)] # NULL
    <3>1. CASE m = n + 1
      BY <3>1, <2>2, <2>3
    <3>2. CASE m # n + 1
      <4>1. m \in 1..n
        BY <3>2, <1>1
      <4>2. index[pk(m)] # NULL
        BY <4>1, <2>1 DEF LoadOK
      <4>3. QED
        BY <4>1, <4>2, <2>3, <2>4
    <3>3. QED
      BY <3>1, <3>2
  <2>6. ASSUME NEW m \in 1..(n + 1), \A j \in (m + 1)..(n + 1) : pk(j) # pk(m)
        PROVE  set_last'[index'[pk(m)].location] = infile[m]
    <3>1. CASE m = n + 1
      BY <3>1, <2>2, <2>3 DEF rec
    <3>2. CASE m # n + 1
      <4>1. m \in 1..n /\ n + 1 \in (m + 1)..(n + 1)
        BY <3>2, <1>1
      <4>2. PICK p \in Pk : p = pk(m)
        BY <4>1, <2>4
      <4>3. p # q
        BY <2>2, <2>6, <4>1, <4>2
      <4>4. \A j \in (m + 1)..n : pk(j) # pk(m)
        BY <1>1, <2>6
      <4>5. index[p] # NULL /\ set_last[index[p].location] = infile[m]
        BY <1>1, <2>1, <4>1, <4>2, <4>4 DEF LoadOK
      <4>6. index[p].location \in RowId /\ rows[index[p].location] # NULL
        BY <4>5, OwnRows
      <4>7. QED
        BY <2>3, <4>2, <4>3, <4>5, <4>6
    <3>3. QED
      BY <3>1, <3>2
  <2>7. ASSUME NEW p \in Pk, index'[p] # NULL
        PROVE  p < TestRows \/ \E m \in 1..(n + 1) : p = pk(m)
    <3>1. CASE p = q
      BY <3>1, <2>2, <1>1
    <3>2. CASE p # q
      <4>1. index[p] # NULL
        BY <3>2, <2>3, <2>7
      <4>2. p < TestRows \/ \E m \in 1..n : p = pk(m)
        BY <4>1, <1>1, <2>1 DEF LoadOK
      <4>3. 1..n \subseteq 1..(n + 1)
        BY <1>1
      <4>4. QED
        BY <4>2, <4>3
    <3>3. QED
      BY <3>1, <3>2
  <2>8. timestamp' = 1 + (n + 1)
    BY <1>1, <2>1 DEF LoadOK
  <2>9. infile' = infile /\ pc' = "load" /\ n' <= Len(infile) /\ 1..(n + 1) \subseteq 1..Len(infile)
    BY <1>1, <1>2 DEF files
  <2>10. /\ \A m \in 1..(n + 1) : pk(m)' = pk(m)
         /\ \A m \in 1..(n + 1) : \A j \in (m + 1)..(n + 1) : pk(j)' = pk(j)
    <3>1. \A m \in 1..(n + 1) : m \in 1..Len(infile)
      BY <2>9
    <3>2. \A m \in 1..(n + 1) : \A j \in (m + 1)..(n + 1) : j \in 1..(n + 1)
      BY <1>1
    <3>3. QED
      BY <2>1, <3>1, <3>2
  <2> HIDE DEF pk
  <2>11. /\ \A m \in 1..read' : index'[pk(m)'] # NULL
         /\ \A m \in 1..read' :
              (\A j \in (m + 1)..read' : pk(j)' # pk(m)') => set_last'[index'[pk(m)'].location] = infile'[m]
         /\ \A p \in Pk : index'[p] # NULL => p < TestRows \/ \E m \in 1..read' : p = pk(m)'
    BY <2>1, <2>5, <2>6, <2>7, <2>9, <2>10
  <2>12. QED
    BY <1>1, <2>1, <2>8, <2>9, <2>11 DEF LoadOK
<1>9. ParamsOK'
  BY <1>1 DEF ParamsOK, files
<1>10. QED
  BY <1>7, <1>8, <1>9

\* When the file ends, all its records have been read.
LEMMA DataLoadedInv ==
  ASSUME StartInv, DataLoaded
  PROVE  StartInv'
<1> USE DEF StartInv
<1>1. /\ pc = "load" /\ n = Len(infile) /\ pc' = "socket" /\ n' = 0 /\ infile # NULL
      /\ UNCHANGED <<files, catalog, store, timestamp, g_params, raced>>
      /\ Table \in DOMAIN catalog /\ catalog[Table] = Data_catalog
  BY DEF DataLoaded, Goto, LoadOK, CatalogOK, get_schema
<1>2. TypeOK' /\ CatalogOK' /\ RowsOK'
  BY <1>1, QuietStep DEF Labels
<1>3. LoadOK'
  <2>1. read' = read /\ \A m : pk(m)' = pk(m)
    BY <1>1 DEF read, files, pk
  <2> HIDE DEF read
  <2>2. QED
    BY <1>1, <2>1 DEF LoadOK, files, store
<1>4. ParamsOK'
  BY <1>1 DEF ParamsOK, files
<1>5. QED
  BY <1>2, <1>3, <1>4

\* The socket call changes none of the data.
LEMMA ListenInv ==
  ASSUME StartInv, NEW ok \in BOOLEAN, create_listen_socket(ok)
  PROVE  StartInv'
<1> USE DEF StartInv
<1>1. /\ pc = "socket" /\ pc' \in {"listening", "failed"} /\ n' = 0
      /\ UNCHANGED <<files, catalog, store, timestamp, g_params, raced>>
      /\ Table \in DOMAIN catalog /\ catalog[Table] = Data_catalog
  BY DEF create_listen_socket, Goto, CatalogOK, get_schema
<1>2. TypeOK' /\ CatalogOK' /\ RowsOK'
  BY <1>1, QuietStep DEF Labels
<1>3. LoadOK'
  <2>1. /\ pc' = "listening" => read' = read
        /\ pc' = "failed" => read' = 0
        /\ \A m : pk(m)' = pk(m)
    BY <1>1 DEF read, files, pk
  <2> HIDE DEF read
  <2>2. CASE pc' = "listening"
    BY <1>1, <2>1, <2>2 DEF LoadOK, files, store
  <2>3. CASE pc' = "failed"
    BY <1>1, <2>1, <2>3 DEF LoadOK, files, store
  <2>4. QED
    BY <1>1, <2>2, <2>3
<1>4. ParamsOK'
  BY <1>1 DEF ParamsOK, files
<1>5. QED
  BY <1>2, <1>3, <1>4

\* A session's START finds the key in g_params, if there was a data file.
LEMMA BeginInv ==
  ASSUME StartInv, begin_txn
  PROVE  StartInv'
<1> USE DEF StartInv
<1>1. /\ pc = "listening" /\ UNCHANGED <<files, pc, n, catalog, store, timestamp>>
      /\ g_params' = ParamsOf(g_params) /\ raced' = (raced \/ ParamsOf(g_params) # g_params)
      /\ Table \in DOMAIN catalog /\ catalog[Table] = Data_catalog /\ n' \in Nat
  BY DEF begin_txn, CatalogOK, get_schema, TypeOK
<1>2. TypeOK' /\ CatalogOK' /\ RowsOK'
  BY <1>1, QuietStep DEF Labels
<1>3. LoadOK'
  <2>1. read' = read /\ \A m : pk(m)' = pk(m)
    BY <1>1 DEF read, files, pk
  <2> HIDE DEF read
  <2>2. QED
    BY <1>1, <2>1 DEF LoadOK, files, store
<1>4. ParamsOK'
  BY <1>1 DEF ParamsOK, files, ParamsOf
<1>5. QED
  BY <1>2, <1>3, <1>4

\* A row that a session inserts keeps the invariant.
LEMMA PutNewInv ==
  ASSUME StartInv, NEW k \in Key, NEW v \in Value, PutNew(k, v)
  PROVE  StartInv'
<1> USE DEF StartInv
<1>1. /\ pc = "listening" /\ Table \in DOMAIN catalog /\ index[hash_key[k]] = NULL
      /\ NewRow(hash_key[k], k, v, c_buf(k, KEY_BUF), c_buf(v, VAL_BUF))
      /\ UNCHANGED <<files, pc, n, catalog, g_params, raced>> /\ n' \in Nat /\ pc' \in Labels
  BY DEF PutNew, CatalogOK, TypeOK, Labels
<1>2. k \in Str /\ v \in Str /\ hash_key[k] \in Pk
  BY ConstantsAssumption DEF Pk
<1>3. PICK p \in Pk : p = hash_key[k]
  BY <1>2
<1>4. \E r \in RowId, row \in Row, item \in Item : Added(r, row, item, p, k, v)
  <2>1. PICK kb : kb = c_buf(k, KEY_BUF)
    OBVIOUS
  <2>2. PICK vb : vb = c_buf(v, VAL_BUF)
    OBVIOUS
  <2>3. /\ DOMAIN kb = 0..(KEY_BUF - 1) /\ DOMAIN vb = 0..(VAL_BUF - 1)
        /\ \A o \in DOMAIN kb : kb[o] \in Byte
        /\ \A o \in DOMAIN vb : vb[o] \in Byte
        /\ Keeps(kb, 0, k, KEY_BUF) /\ Keeps(vb, 0, v, VAL_BUF)
    BY <1>2, <2>1, <2>2, CatalogFacts, BufferKeeps
  <2>4. QED
    BY <1>1, <1>2, <1>3, <2>1, <2>2, <2>3, NewRowAdds
<1>5. PICK r \in RowId, row \in Row, item \in Item : Added(r, row, item, p, k, v)
  BY <1>4
<1>6. TypeOK' /\ CatalogOK' /\ RowsOK'
  BY <1>1, <1>2, <1>5, AddedKeeps
<1>7. LoadOK'
  <2>1. read' = read /\ \A m : pk(m)' = pk(m)
    BY <1>1 DEF read, files, pk
  <2>2. index' = [index EXCEPT ![p] = item] /\ item # NULL
    BY <1>5, NullAssumption DEF Added
  <2>3. \A q \in Pk : index[q] # NULL => index'[q] # NULL
    BY <2>2 DEF TypeOK
  <2>4. \A m \in 1..read : pk(m) \in Pk
    <3>1. CASE infile = NULL
      BY <3>1 DEF read
    <3>2. CASE infile # NULL
      <4>1. read = Len(infile) /\ infile \in DataFiles
        BY <3>2, <1>1 DEF read, TypeOK
      <4>2. QED
        BY <3>2, <4>1, Records
    <3>3. QED
      BY <3>1, <3>2
  <2> HIDE DEF read, pk
  <2>5. \A m \in 1..read' : index'[pk(m)'] # NULL
    BY <2>1, <2>3, <2>4 DEF LoadOK
  <2>6. pc' = "listening"
    BY <1>1
  <2>7. QED
    BY <2>5, <2>6 DEF LoadOK
<1>8. ParamsOK'
  BY <1>1 DEF ParamsOK, files
<1>9. QED
  BY <1>6, <1>7, <1>8

\* A session's update of a row changes the value column only.
LEMMA PutOldInv ==
  ASSUME StartInv, NEW k \in Key, NEW v \in Value, PutOld(k, v)
  PROVE  StartInv'
<1> USE DEF StartInv
<1>1. hash_key[k] \in Pk /\ v \in Str
  BY ConstantsAssumption DEF Pk
<1>2. PICK p \in Pk : p = hash_key[k]
  BY <1>1
<1>3. PICK r : r = index[p].location
  OBVIOUS
<1>4. /\ pc = "listening" /\ index[p] # NULL /\ Table \in DOMAIN catalog
      /\ UNCHANGED <<files, pc, n, catalog, index, timestamp, g_params, raced>>
  BY <1>2 DEF PutOld, CatalogOK
<1>5. r \in RowId /\ rows[r] # NULL
  BY <1>3, <1>4, OwnRows
<1>6. get_schema = Data_catalog
  BY <1>4 DEF CatalogOK
<1>7. PICK local : local = copy(Data_catalog, new_data(Data_catalog), rows[r].data)
  OBVIOUS
<1>8. PICK after : after = copy(Data_catalog, rows[r].data, WriteLocal(Data_catalog, local, v))
  OBVIOUS
<1>9. /\ rows' = [rows EXCEPT ![r].data = after]
      /\ set_last' = [set_last EXCEPT ![r].val = v]
  BY <1>2, <1>3, <1>6, <1>7, <1>8 DEF PutOld
<1>10. rows[r] \in Row /\ rows[r].data \in Bytes /\ set_last[r] \in Strings
       /\ Holds(rows[r].data, set_last[r].key, set_last[r].val)
  BY <1>5, CatalogFacts DEF TypeOK, RowsOK, Row, Bytes
<1>11. after \in Bytes /\ Holds(after, set_last[r].key, v)
  BY <1>1, <1>7, <1>8, <1>10, WriteHolds DEF Strings
<1>12. PICK row : row = [rows[r] EXCEPT !.data = after]
  OBVIOUS
<1>13. row \in Row /\ row # NULL /\ row.primary_key = rows[r].primary_key /\ row.data = after
  <2>1. row \in Row /\ row.primary_key = rows[r].primary_key /\ row.data = after
    BY <1>10, <1>11, <1>12, CatalogFacts DEF Row, Bytes
  <2>2. QED
    BY <2>1, NullAssumption
<1>14. \A q \in RowId : rows'[q] = IF q = r THEN row ELSE rows[q]
  BY <1>5, <1>9, <1>12 DEF TypeOK
<1>15. \A q \in RowId : set_last'[q] = IF q = r THEN [key |-> set_last[r].key, val |-> v] ELSE set_last[q]
  BY <1>5, <1>9, <1>10 DEF TypeOK, Strings
<1>16. TypeOK'
  <2>1. rows' \in [RowId -> Row \cup {NULL}]
    BY <1>9, <1>13, <1>14 DEF TypeOK
  <2>2. set_last' \in [RowId -> Strings \cup {NULL}]
    <3>1. DOMAIN set_last' = RowId /\ set_last' = [q \in RowId |-> set_last'[q]]
      BY <1>9 DEF TypeOK
    <3>2. \A q \in RowId : set_last'[q] \in Strings \cup {NULL}
      BY <1>1, <1>10, <1>15 DEF TypeOK, Strings
    <3>3. QED
      BY <3>1, <3>2
  <2>3. QED
    BY <1>4, <2>1, <2>2 DEF TypeOK, files
<1>17. CatalogOK'
  BY <1>4 DEF CatalogOK, get_schema
<1>18. RowsOK'
  <2>1. \A q \in RowId : rows'[q] # NULL <=> rows[q] # NULL
    BY <1>5, <1>13, <1>14
  <2>2. \E c \in 0..MaxRows : \A q \in RowId : rows'[q] # NULL <=> q < c
    BY <2>1 DEF RowsOK
  <2>3. ASSUME NEW q \in RowId, rows'[q] # NULL
        PROVE  set_last'[q] \in Strings /\ Holds(rows'[q].data, set_last'[q].key, set_last'[q].val)
    <3>1. CASE q = r
      BY <3>1, <1>1, <1>10, <1>11, <1>13, <1>14, <1>15 DEF Strings
    <3>2. CASE q # r
      BY <3>2, <2>1, <2>3, <1>14, <1>15 DEF RowsOK
    <3>3. QED
      BY <3>1, <3>2
  <2>4. ASSUME NEW q \in Pk, index[q] # NULL
        PROVE  rows'[index[q].location] # NULL /\ rows'[index[q].location].primary_key = q
    <3>1. PICK l \in RowId : l = index[q].location
      BY <2>4, OwnRows
    <3>2. rows[l] # NULL /\ rows[l].primary_key = q
      BY <2>4, <3>1 DEF RowsOK
    <3>3. QED
      BY <3>1, <3>2, <1>13, <1>14
  <2>5. QED
    BY <1>4, <2>2, <2>3, <2>4 DEF RowsOK
<1>19. LoadOK'
  <2>1. read' = read /\ \A m : pk(m)' = pk(m)
    BY <1>4 DEF read, files, pk
  <2> HIDE DEF read
  <2>2. QED
    BY <1>4, <2>1 DEF LoadOK, files
<1>20. ParamsOK'
  BY <1>4 DEF ParamsOK, files
<1>21. QED
  BY <1>16, <1>17, <1>18, <1>19, <1>20

\* A stuttering step keeps the invariant.
LEMMA StutterInv ==
  ASSUME StartInv, UNCHANGED vars
  PROVE  StartInv'
<1> USE DEF StartInv, vars, files, store
<1>1. TypeOK'
  BY DEF TypeOK
<1>2. CatalogOK' /\ RowsOK'
  BY DEF CatalogOK, RowsOK, get_schema
<1>3. read' = read /\ \A m : pk(m)' = pk(m)
  BY DEF read, pk
<1>4. LoadOK' /\ ParamsOK'
  BY <1>3 DEF LoadOK, ParamsOK
<1>5. QED
  BY <1>1, <1>2, <1>4

\* StartInv holds in every reachable state.
THEOREM StartInvariance == Spec => []StartInv
<1>1. StartInv /\ [Next]_vars => StartInv'
  <2>1. SUFFICES ASSUME StartInv, [Next]_vars
                 PROVE  StartInv'
    OBVIOUS
  <2>2. CASE Main
    BY <2>1, <2>2, ReadTableInv, SetUpInv, InitRowInv, OpenDataInv, LoadRecordInv, DataLoadedInv,
       ListenInv DEF Main
  <2>3. CASE Serve
    BY <2>1, <2>3, BeginInv, PutNewInv, PutOldInv DEF Serve
  <2>4. CASE Failed \/ UNCHANGED vars \/ LastColumnAgain
    BY <2>1, <2>4, StutterInv, SetUpInv DEF Failed, LastColumnAgain
  <2>5. QED
    BY <2>1, <2>2, <2>3, <2>4 DEF Next
<1>2. QED
  BY InitInv, <1>1, PTL DEF Spec
-----------------------------------------------------------------------------
(* The theorems *)

\* If there was a data file, begin_txn of no session changes g_params, whatever
\* the sessions do (thread.cpp:21).
THEOREM ParamsAreSettled == Spec => []ParamsSettled
<1>1. StartInv => ParamsSettled
  BY DEF StartInv, ParamsOK, ParamsSettled
<1>2. QED
  BY <1>1, StartInvariance, PTL

\* The columns of every row, read as C strings, are what their widths keep of the
\* strings that the row was last given: by init_table from a std::string's own
\* bytes, by the loader and by transactions from their buffers, and after any
\* number of updates through local copies.
THEOREM FieldsAreExact == Spec => []FieldsHoldStrings
<1>1. StartInv => FieldsHoldStrings
  <2>1. SUFFICES ASSUME StartInv, NEW r \in RowId, rows[r] # NULL
                 PROVE  /\ get_value(get_schema, rows[r].data, 0) = cut(set_last[r].key, KEY_BUF)
                        /\ get_value(get_schema, rows[r].data, 1) = cut(set_last[r].val, VAL_BUF)
    BY DEF FieldsHoldStrings
  <2>2. get_schema = Data_catalog
    BY <2>1 DEF StartInv, CatalogOK
  <2>3. rows[r].data \in Bytes /\ set_last[r] \in Strings
    BY <2>1, CatalogFacts DEF StartInv, TypeOK, RowsOK, Row, Bytes
  <2>4. Holds(rows[r].data, set_last[r].key, set_last[r].val)
    BY <2>1 DEF StartInv, RowsOK
  <2>5. QED
    BY <2>2, <2>3, <2>4, HoldsRead DEF Strings
<1>2. QED
  BY <1>1, StartInvariance, PTL

\* A nonempty set of record numbers has a greatest one.
LEMMA GreatestNumber ==
  ASSUME NEW top \in Nat, NEW S \in SUBSET (1..top), S # {}
  PROVE  Max(S) \in S /\ \A m \in S : Max(S) >= m
<1> DEFINE T == {top - m : m \in S}
<1>1. T \subseteq Nat
  OBVIOUS
<1>2. T # {}
  <2>1. PICK m \in S : TRUE
    OBVIOUS
  <2>2. top - m \in T
    BY <2>1
  <2>3. QED
    BY <2>2
<1>3. PICK x \in T : \A y \in T : ~ (y < x)
  <2> HIDE DEF T
  <2>1. PICK x \in T : \A y \in T : ~ (<<y, x>> \in OpToRel(<, Nat))
    BY <1>1, <1>2, NatLessThanWellFounded, WFMin, Zenon
  <2>2. \A y \in T : ~ (y < x)
    BY <1>1, <2>1, Zenon DEF OpToRel
  <2>3. QED
    BY <2>2
<1>4. \A m \in S : x <= top - m
  BY <1>1, <1>3
<1>5. PICK g \in S : x = top - g
  BY <1>3
<1>6. \A m \in S : g >= m
  BY <1>4, <1>5
<1>7. QED
  BY <1>5, <1>6 DEF Max

\* Before the first session, the index leads from the key of every record to the
\* row of the last record with that key.
LEMMA LastRecords ==
  ASSUME StartInv, pc \in {"socket", "listening"}, infile # NULL,
         NEW p \in {hash_key[k] : k \in Loaded}
  PROVE  /\ p \in Pk /\ index[p] # NULL
         /\ pc = "socket" => set_last[index[p].location] = LastRecord(p)
         /\ \E g \in DOMAIN infile : p = pk(g) /\ LastRecord(p) = infile[g]
<1> USE DEF StartInv
<1>1. read = Len(infile) /\ infile \in DataFiles
  BY DEF read, TypeOK
<1>2. Len(infile) \in Nat /\ DOMAIN infile = 1..Len(infile)
  BY <1>1, Records
<1> DEFINE S == {m \in DOMAIN infile : hash_key[infile[m].key] = p}
<1>3. PICK a \in DOMAIN infile : p = pk(a)
  BY DEF Loaded, pk
<1>4. S \in SUBSET (1..Len(infile)) /\ S # {}
  BY <1>2, <1>3 DEF pk
<1>5. PICK g : g = Max(S)
  OBVIOUS
<1>6. g \in S /\ \A m \in S : g >= m
  BY <1>2, <1>4, <1>5, GreatestNumber
<1>7. g \in 1..read /\ p = pk(g) /\ LastRecord(p) = infile[g]
  BY <1>1, <1>2, <1>5, <1>6 DEF LastRecord, pk
<1>8. \A j \in (g + 1)..read : pk(j) # pk(g)
  BY <1>1, <1>2, <1>6, <1>7 DEF pk
<1>9. index[p] # NULL
  BY <1>7 DEF LoadOK
<1>10. p \in Pk
  BY <1>1, <1>2, <1>7, Records
<1>11. pc = "socket" => set_last[index[p].location] = LastRecord(p)
  BY <1>7, <1>8 DEF LoadOK
<1>12. QED
  BY <1>1, <1>2, <1>7, <1>9, <1>10, <1>11

\* Of several records with one key, the last one in the data file is the one that
\* sessions find; every record's key has an item, also while sessions run.
THEOREM LastRecordWins == Spec => []LastRecordCounts
<1>1. StartInv => LastRecordCounts
  <2>1. SUFFICES ASSUME StartInv, pc \in {"socket", "listening"},
                        NEW p \in {hash_key[k] : k \in Loaded}
                 PROVE  /\ index[p] # NULL
                        /\ pc = "socket" => set_last[index[p].location] =
                             [key |-> LastRecord(p).key, val |-> LastRecord(p).val]
    BY DEF LastRecordCounts
  <2>2. infile # NULL /\ infile \in DataFiles
    BY <2>1 DEF Loaded, StartInv, TypeOK
  <2>3. PICK g \in DOMAIN infile : LastRecord(p) = infile[g]
    BY <2>1, <2>2, LastRecords
  <2>4. infile[g] = [key |-> infile[g].key, val |-> infile[g].val]
    BY <2>2, Records
  <2>5. QED
    BY <2>1, <2>2, <2>3, <2>4, LastRecords
<1>2. QED
  BY <1>1, StartInvariance, PTL

\* The initial state of module TxnMan, part by part.
LEMMA EngineInit ==
  ASSUME NEW L \in SUBSET Key,
         timestamp = 1 + Cardinality(L),
         IndexView = [p \in KeyPk |-> IF p \in {hash_key[k] : k \in L} THEN <<"Loader", p>> ELSE NULL],
         MemView = [r \in LoaderRow |->
                      IF r[1] = "Loader" /\ r[2] \in {hash_key[k] : k \in L} THEN "live" ELSE "none"],
         DataView = [r \in LoaderRow |->
                       [key |-> KeyBufs[CHOOSE k \in Key :
                                          /\ hash_key[k] = r[2]
                                          /\ r[2] \in {hash_key[l] : l \in L} => k \in L],
                        val |-> "as in file"]],
         WtsView = [r \in LoaderRow |-> 0]
  PROVE  Engine(L)!Init
<1>1. ({} \cup {"Loader"}) \X KeyPk = LoaderRow
  BY DEF LoaderRow
<1>2. Engine(L)!Cardinality(L) = Cardinality(L)
  BY DEF Engine!Cardinality, Cardinality
<1>3. ViewBufs["as in file"] = "as in file"
  BY DEF ViewBufs, Views
<1>4. QED
  BY <1>1, <1>2, <1>3 DEF NoTxn, Engine!Init, Engine!Pk, Engine!LoadedPk, Engine!Row, Engine!owner, Engine!pk,
     Engine!RowOf, KeyPk, NoLatches

\* A data file with one record for each primary key has as many keys as records.
LEMMA KeysCounted ==
  ASSUME infile \in DataFiles, infile # NULL, OneRecordPerPk
  PROVE  Cardinality(Loaded) = Len(infile)
<1>1. Len(infile) \in Nat /\ DOMAIN infile = 1..Len(infile)
  BY Records
<1>2. \A i, j \in 1..Len(infile) : infile[i].key = infile[j].key => i = j
  BY <1>1 DEF OneRecordPerPk
<1>3. Loaded = {infile[m].key : m \in 1..Len(infile)}
  BY <1>1 DEF Loaded
<1> DEFINE f == [m \in 1..Len(infile) |-> infile[m].key]
<1>4. f \in Bijection(1..Len(infile), Loaded)
  BY <1>2, <1>3 DEF Bijection, Injection, Surjection, IsInjective
<1>5. ExistsBijection(1..Len(infile), Loaded)
  BY <1>4 DEF ExistsBijection
<1>6. 1 \in Int /\ Len(infile) \in Int
  BY <1>1
<1>7. IsFiniteSet(1..Len(infile)) /\ Cardinality(1..Len(infile)) = Len(infile)
  <2>1. /\ IsFiniteSet(1..Len(infile))
        /\ Cardinality(1..Len(infile)) = IF 1 > Len(infile) THEN 0 ELSE Len(infile) - 1 + 1
    BY <1>6, FS_Interval
  <2>2. QED
    BY <2>1, <1>1
<1>8. QED
  BY <1>5, <1>7, FS_Bijection

\* With one record for each primary key, init_engine leaves the engine in the
\* initial state that module TxnMan describes and its proofs start from.
THEOREM EngineIsReady == Spec => []EngineReady
<1>1. ASSUME StartInv, pc = "socket", OneRecordPerPk, NEW L \in SUBSET Key, L = Loaded
      PROVE  Engine(L)!Init
  <2> USE <1>1 DEF StartInv
  <2>1. infile \in DataFiles /\ timestamp = 1 + read
    BY DEF TypeOK, LoadOK
  <2>2. timestamp = 1 + Cardinality(L)
    <3>1. CASE infile = NULL
      <4>1. Loaded = {} /\ read = 0
        BY <3>1 DEF Loaded, read
      <4>2. QED
        BY <2>1, <4>1, FS_EmptySet
    <3>2. CASE infile # NULL
      BY <2>1, <3>2, KeysCounted DEF read
    <3>3. QED
      BY <3>1, <3>2
  <2> DEFINE LPk == {hash_key[k] : k \in L}
  <2>3. \A p \in KeyPk : p \in Pk /\ p >= TestRows /\ p \in Nat /\ TestRows \in Nat
    BY HashAssumption, ConstantsAssumption DEF KeyPk, Pk
  <2>4. ASSUME NEW p \in LPk
        PROVE  /\ p \in Pk /\ index[p] # NULL
               /\ set_last[index[p].location] = LastRecord(p)
               /\ \E g \in DOMAIN infile : p = pk(g) /\ LastRecord(p) = infile[g]
    BY <2>1, <2>4, LastRecords DEF Loaded
  <2>5. ASSUME NEW p \in KeyPk, index[p] # NULL
        PROVE  p \in LPk
    <3>1. PICK m \in 1..read : p = pk(m)
      BY <2>3, <2>5 DEF LoadOK
    <3>2. infile # NULL /\ read = Len(infile)
      BY <3>1 DEF read
    <3>3. m \in DOMAIN infile
      BY <2>1, <3>1, <3>2, Records
    <3>4. QED
      BY <3>1, <3>2, <3>3 DEF Loaded, pk
  <2>6. \A p \in KeyPk : index[p] # NULL <=> p \in LPk
    BY <2>4, <2>5
  <2>7. IndexView = [p \in KeyPk |-> IF p \in LPk THEN <<"Loader", p>> ELSE NULL]
    BY <2>6 DEF IndexView
  <2>8. \A r \in LoaderRow : r[1] = "Loader" /\ r[2] \in KeyPk
    BY DEF LoaderRow
  <2>9. MemView = [r \in LoaderRow |-> IF r[1] = "Loader" /\ r[2] \in LPk THEN "live" ELSE "none"]
    BY <2>6, <2>8 DEF MemView, Live
  <2>10. WtsView = [r \in LoaderRow |-> 0]
    <3>1. ASSUME NEW r \in LoaderRow, Live(r)
          PROVE  RowOfPk(r).manager.wts = 0
      <4>1. PICK p \in Pk : p = r[2]
        BY <2>3, <2>8
      <4>2. rows[index[p].location] \in Row
        BY <3>1, <4>1, OwnRows DEF Live, TypeOK
      <4>3. QED
        BY <4>1, <4>2 DEF RowOfPk, Row, Row_occ
    <3>2. QED
      BY <3>1 DEF WtsView
  <2> DEFINE KeyOf(p) == CHOOSE k \in Key : hash_key[k] = p /\ (p \in LPk => k \in L)
  <2>11. ASSUME NEW p \in KeyPk, index[p] # NULL
         PROVE  /\ get_value(get_schema, rows[index[p].location].data, 0) = cut(KeyOf(p), KEY_BUF)
                /\ get_value(get_schema, rows[index[p].location].data, 1) = cut(LastRecord(p).val, VAL_BUF)
                /\ KeyOf(p) \in Key
    <3>1. p \in LPk
      BY <2>5, <2>11
    <3>2. PICK g \in DOMAIN infile : p = pk(g) /\ LastRecord(p) = infile[g]
      BY <2>4, <3>1
    <3>3. \E k \in Key : hash_key[k] = p /\ (p \in LPk => k \in L)
      BY <3>1
    <3>4. KeyOf(p) \in Key /\ hash_key[KeyOf(p)] = p /\ KeyOf(p) \in L
      BY <3>1, <3>3
    <3> HIDE DEF KeyOf
    <3>5. infile # NULL
      BY <3>1 DEF Loaded
    <3>6. PICK i \in DOMAIN infile : KeyOf(p) = infile[i].key
      BY <3>4, <3>5 DEF Loaded
    <3>7. i = g
      BY <3>2, <3>4, <3>5, <3>6 DEF OneRecordPerPk, pk
    <3>8. PICK l \in RowId : l = index[p].location /\ rows[l] # NULL
      BY <2>3, <2>11, OwnRows
    <3>9. set_last[l] = infile[g]
      BY <2>4, <3>1, <3>2, <3>8
    <3>10. get_schema = Data_catalog /\ rows[l].data \in Bytes /\ set_last[l] \in Strings
           /\ Holds(rows[l].data, set_last[l].key, set_last[l].val)
      BY <3>8, CatalogFacts DEF CatalogOK, TypeOK, RowsOK, Row, Bytes
    <3>11. /\ get_value(get_schema, rows[l].data, 0) = cut(set_last[l].key, KEY_BUF)
           /\ get_value(get_schema, rows[l].data, 1) = cut(set_last[l].val, VAL_BUF)
      BY <3>10, HoldsRead DEF Strings
    <3>12. QED
      BY <3>2, <3>4, <3>6, <3>7, <3>8, <3>9, <3>11
  <2>12. ASSUME NEW r \in LoaderRow
         PROVE  DataView[r] = [key |-> KeyBufs[KeyOf(r[2])], val |-> "as in file"]
    <3>1. PICK p \in KeyPk : p = r[2]
      BY <2>8
    <3>2. KeyOf(p) \in Key
      BY DEF KeyPk
    <3>3. KeyBufs[KeyOf(p)] = cut(KeyOf(p), KEY_BUF)
      BY <3>2 DEF KeyBufs
    <3>4. CASE Live(r)
      <4>1. index[p] # NULL
        BY <3>1, <3>4 DEF Live
      <4>2. DataView[r] = [key |-> cut(KeyOf(p), KEY_BUF), val |-> "as in file"]
        BY <2>11, <3>1, <3>4, <4>1 DEF DataView, RowOfPk
      <4>3. QED
        BY <3>1, <3>3, <4>2
    <3>5. CASE ~Live(r)
      <4>1. KeyOfPk(p) = KeyOf(p)
        BY DEF KeyOfPk
      <4>2. DataView[r] = [key |-> cut(KeyOfPk(p), KEY_BUF), val |-> "as in file"]
        BY <3>1, <3>5 DEF DataView
      <4>3. QED
        BY <3>1, <3>3, <4>1, <4>2
    <3>6. QED
      BY <3>4, <3>5
  <2>13. DataView = [r \in LoaderRow |-> [key |-> KeyBufs[KeyOf(r[2])], val |-> "as in file"]]
    BY <2>12 DEF DataView
  <2>14. QED
    BY <2>2, <2>7, <2>9, <2>10, <2>13, EngineInit
<1>2. StartInv => EngineReady
  BY <1>1 DEF EngineReady
<1>3. QED
  BY <1>2, StartInvariance, PTL
=============================================================================
