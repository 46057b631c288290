------------------------------ MODULE Startup ------------------------------
(***************************************************************************)
(* The start of the server, main.cpp: init_engine (Server/kv_api.cpp)      *)
(* reads the schema file (test/wl.cpp), fills Data_TABLE with test rows    *)
(* (test/test_wl.cpp), sets up the timestamp manager and loads the data    *)
(* file; then the listening socket is made (Server/server.cpp) and the     *)
(* sessions' threads may run.  Of the sessions this module has what their  *)
(* STARTs and PUTs do to g_params and to the bytes of rows; the timestamps *)
(* they draw are module TxnMan's.                                          *)
(*                                                                         *)
(* An assertion that fails and an exception nobody catches end the         *)
(* process: pc = "failed".                                                 *)
(***************************************************************************)
EXTENDS RowLayout, SequencesExt

CONSTANTS
  SchemaFiles,  \* contents the schema file may have: sequences of sections, of
                \* which the last one may lack the newline
  DataFiles,    \* and the data file: sequences of [key, val], or NULL (no file)
  Key, Value,   \* strings that clients may send
  hash_key,     \* hash_key[k]: std::hash of k
  TestRows,     \* rows that init_table makes (10 in the code)
  digits,       \* digits[n]: std::to_string(n)
  KEY_BUF, VAL_BUF,  \* sizes of key_buf and val_buf (128 and 1024)
  MaxRows,      \* bound: rows ever allocated
  NULL

Table == "Data_TABLE"
Index == "Data_INDEX"

Pk == 0..(TestRows - 1) \cup {hash_key[k] : k \in DOMAIN hash_key}
RowId == 0..(MaxRows - 1)

\* The numbers of the test rows fit into the columns.
ASSUME ConstantsAssumption ==
  /\ Key \subseteq Str /\ Value \subseteq Str /\ hash_key \in [Key -> Nat]
  /\ {TestRows, MaxRows} \subseteq Nat /\ {KEY_BUF, VAL_BUF} \subseteq Nat \ {0}
  /\ digits \in [0..(TestRows - 1) -> Str]
  /\ \A m \in 0..(TestRows - 1) : len[digits[m]] < KEY_BUF /\ len[digits[m]] < VAL_BUF
  /\ \A f \in DataFiles : f # NULL => f \in Seq([key : Key, val : Str])

VARIABLES
  schema_file, infile,  \* the two files
  pc,             \* where the main thread is
  n,              \* sections, test rows or records read so far
  catalog,        \* catalog[t]: Catalog of table t
  index_table,    \* index_table[x]: table of index x
  rows,           \* rows[r]: row_t with row_id r, or NULL
  index,          \* index[p]: itemid_t, the first item of p, or NULL
  timestamp,      \* *Manager::timestamp, NULL before Manager::init
  occ_man,        \* the OptCC, NULL before its init
  loaded_count,
  g_params,       \* keys of the std::map g_params
  raced,          \* a session's thread has changed g_params
  set_last        \* history: set_last[r]: the strings r was last given

vars == <<schema_file, infile, pc, n, catalog, index_table, rows, index, timestamp, occ_man,
          loaded_count, g_params, raced, set_last>>
files == <<schema_file, infile>>
store == <<rows, index, set_last>>

Init ==
  /\ schema_file \in SchemaFiles /\ infile \in DataFiles
  /\ pc = "schema" /\ n = 0
  /\ catalog = [t \in {} |-> <<>>]
  /\ index_table = [x \in {} |-> NULL]
  /\ rows = [r \in RowId |-> NULL]
  /\ index = [p \in Pk |-> NULL]
  /\ timestamp = NULL /\ occ_man = NULL /\ loaded_count = 0
  /\ g_params = {} /\ raced = FALSE
  /\ set_last = [r \in RowId |-> NULL]

Goto(label) == pc' = label /\ n' = 0
-----------------------------------------------------------------------------
(* workload::init_schema and TestWorkload::init *)

Columns(section) ==
  FoldLeft(LAMBDA schema, c : add_col(schema, c.name, c.size), Catalog, section.cols)

\* The catalog of Data_TABLE: its columns are as wide as the buffers that are
\* copied into them (test/data_schema.txt).
Data_catalog ==
  [_columns |-> <<Column("KEY", KEY_BUF, 0), Column("VALUE", VAL_BUF, KEY_BUF)>>,
   tuple_size |-> KEY_BUF + VAL_BUF]

\* A schema file gives Data_TABLE these columns, if it has the table.
ASSUME SchemaAssumption ==
  \A f \in SchemaFiles :
    /\ Len(f) \in Nat
    /\ \A m \in 1..Len(f) :
         f[m].kind = "TABLE" /\ f[m].name = Table => Columns(f[m]) = Data_catalog

\* map[name] = value, of a std::map.
Assign(map, name, value) ==
  [x \in DOMAIN map \cup {name} |-> IF x = name THEN value ELSE map[x]]

\* The last line of section m is the last of the file and has no newline.
Unended(m) == m = Len(schema_file) /\ ~schema_file[m].newline

\* TABLE=name, and a line for each column up to a line that is empty or none.
ReadTable ==
  /\ pc = "schema" /\ n < Len(schema_file)
  /\ LET s == schema_file[n + 1] IN
     /\ s.kind = "TABLE" /\ ~Unended(n + 1)
     /\ catalog' = Assign(catalog, s.name, Columns(s))
  /\ n' = n + 1
  /\ UNCHANGED <<files, pc, index_table, store, timestamp, occ_man, loaded_count, g_params, raced>>

\* getline fails at the end of the file, and leaves in line what it was: as the
\* loop looks at line only, it takes the last column again and again.
ReadTableUnended ==
  /\ pc = "schema" /\ n < Len(schema_file)
  /\ schema_file[n + 1].kind = "TABLE" /\ Unended(n + 1)
  /\ pc' = "looping"
  /\ UNCHANGED <<files, n, catalog, index_table, store, timestamp, occ_man, loaded_count,
                 g_params, raced>>

\* Each turn of that loop adds a copy to lines; when the memory is used up, the
\* process ends.
LastColumnAgain ==
  /\ pc = "looping"
  /\ UNCHANGED vars \/ (pc' = "failed" /\ UNCHANGED <<files, n, catalog, index_table, store,
                           timestamp, occ_man, loaded_count, g_params, raced>>)

\* INDEX=name, and the line that names its table.  IndexHash::init asserts that
\* the table has been read before.
ReadIndex ==
  /\ pc = "schema" /\ n < Len(schema_file)
  /\ LET s == schema_file[n + 1] IN
     /\ s.kind = "INDEX"
     /\ IF s.table \in DOMAIN catalog
        THEN index_table' = Assign(index_table, s.name, s.table) /\ n' = n + 1 /\ UNCHANGED pc
        ELSE Goto("failed") /\ UNCHANGED index_table
  /\ UNCHANGED <<files, catalog, store, timestamp, occ_man, loaded_count, g_params, raced>>

\* The whole file has been read; without the table or the index the process
\* ends with a failed assertion.
SchemaRead ==
  /\ pc = "schema" /\ n = Len(schema_file)
  /\ Goto(IF Table \in DOMAIN catalog /\ Index \in DOMAIN index_table THEN "table" ELSE "failed")
  /\ UNCHANGED <<files, catalog, index_table, store, timestamp, occ_man, loaded_count, g_params, raced>>
-----------------------------------------------------------------------------
(* Rows *)

get_schema == catalog[Table]

\* Of a new row's manager the wts matters here.  Its memory comes from
\* mem_allocator, in the rows of init_table before mem_alloc::init: without
\* THREAD_ALLOC that is malloc.
Row_occ == [wts |-> 0]
init_manager(row) == [row EXCEPT !.manager = Row_occ]
row_t(p, data) == init_manager([primary_key |-> p, manager |-> NULL, data |-> data])

\* An index item; next points to the item that was the first one before, here
\* named by its row.  The first item of a key has no next set (NULL here), and
\* nothing reads it.
itemid_t(location, first) ==
  [type |-> "DT_row", location |-> location,
   next |-> IF first = NULL THEN NULL ELSE first.location, valid |-> TRUE]

\* Rows and index items; a null pointer is neither.
Row == [primary_key : Pk, manager : {Row_occ}, data : [0..(Data_catalog.tuple_size - 1) -> Byte]]
Item == [type : {"DT_row"}, location : RowId, next : RowId \cup {NULL}, valid : {TRUE}]

ASSUME NullAssumption == NULL \notin Row \cup Item

ATOM_FETCH_ADD(value) == timestamp' = timestamp + value

\* Manager::get_ts
get_ts == ATOM_FETCH_ADD(1)

cur_tab_size == Cardinality({r \in RowId : rows[r] # NULL})

\* A row behind others of its primary key.
Mut_push_back(p, key, val, keyBytes, valBytes) ==
  LET r == cur_tab_size
      schema == get_schema
  IN /\ r \in RowId
     /\ rows' = [rows EXCEPT ![r] =
          row_t(p, set_value(schema, set_value(schema, new_data(schema), 0, keyBytes), 1, valBytes))]
     /\ index' = [index EXCEPT ![p] = IF @ = NULL THEN itemid_t(r, NULL) ELSE @]
     /\ set_last' = [set_last EXCEPT ![r] = [key |-> key, val |-> val]]

\* get_new_row, set_primary_key, the two set_value with the given buffers, and
\* index_insert, which puts the row in front of others of its primary key.
NewRow(p, key, val, keyBytes, valBytes) ==
  LET r == cur_tab_size
      schema == get_schema
  IN /\ r \in RowId
     /\ rows' = [rows EXCEPT ![r] =
          row_t(p, set_value(schema, set_value(schema, new_data(schema), 0, keyBytes), 1, valBytes))]
     /\ index' = [index EXCEPT ![p] = itemid_t(r, @)]
     /\ set_last' = [set_last EXCEPT ![r] = [key |-> key, val |-> val]]

\* TestWorkload::init_table, one row.  set_value copies the column's size from
\* the std::string's characters.
InitRow ==
  /\ pc = "table" /\ n < TestRows
  /\ NewRow(n, digits[n], digits[n], c_str(digits[n], get_field_size(get_schema, 0)),
            c_str(digits[n], get_field_size(get_schema, 1)))
  /\ n' = n + 1
  /\ UNCHANGED <<files, pc, catalog, index_table, timestamp, occ_man, loaded_count, g_params, raced>>

\* The rest of init_engine's set-up; mem_alloc::init between the two sets up what
\* this build never uses (module MemAlloc).
Manager_init ==
  /\ pc = "table" /\ n = TestRows
  /\ timestamp' = 1
  /\ Goto("occ")
  /\ UNCHANGED <<files, catalog, index_table, store, occ_man, loaded_count, g_params, raced>>

\* Histories and counters that the row by row validation does without.
OptCC_init ==
  /\ pc = "occ"
  /\ occ_man' = [tnc |-> 0, history |-> <<>>, active |-> <<>>, lock_all |-> FALSE]
  /\ Goto("open")
  /\ UNCHANGED <<files, catalog, index_table, store, timestamp, loaded_count, g_params, raced>>

\* g_params["abort_buffer_enable"] of thread_t::init inserts the missing key.
ParamsOf(params) == params \cup {"abort_buffer_enable"}

\* The loader has no thread_t.
Mut_no_loader_thread ==
  /\ pc = "open"
  /\ Goto(IF infile = NULL THEN "socket" ELSE "load")
  /\ UNCHANGED <<files, catalog, index_table, store, timestamp, occ_man, loaded_count, g_params, raced>>

\* The data file is opened; if there is one, thread_t::init runs before any
\* session.
OpenData ==
  /\ pc = "open"
  /\ IF infile = NULL THEN Goto("socket") /\ UNCHANGED g_params
                      ELSE Goto("load") /\ g_params' = ParamsOf(g_params)
  /\ UNCHANGED <<files, catalog, index_table, store, timestamp, occ_man, loaded_count, raced>>

\* No transaction is committed for the record.
Mut_no_finish ==
  /\ pc = "load" /\ n < Len(infile)
  /\ LET rec == infile[n + 1] IN
     NewRow(hash_key[rec.key], rec.key, rec.val, c_buf(rec.key, KEY_BUF), c_buf(rec.val, VAL_BUF))
  /\ loaded_count' = loaded_count + 1
  /\ n' = n + 1
  /\ UNCHANGED <<files, pc, catalog, index_table, timestamp, occ_man, g_params, raced>>

\* A record that cannot be read is tried again.
Mut_read_again ==
  /\ pc = "load" /\ n < Len(infile)
  /\ UNCHANGED vars

\* One record: its row goes into the index, and a transaction with no accesses
\* is committed, which draws a timestamp.
LoadRecord ==
  /\ pc = "load" /\ n < Len(infile)
  /\ LET rec == infile[n + 1] IN
     NewRow(hash_key[rec.key], rec.key, rec.val, c_buf(rec.key, KEY_BUF), c_buf(rec.val, VAL_BUF))
  /\ get_ts
  /\ loaded_count' = loaded_count + 1
  /\ n' = n + 1
  /\ UNCHANGED <<files, pc, catalog, index_table, occ_man, g_params, raced>>

DataLoaded ==
  /\ pc = "load" /\ n = Len(infile)
  /\ Goto("socket")
  /\ UNCHANGED <<files, catalog, index_table, store, timestamp, occ_man, loaded_count, g_params, raced>>

\* socket, bind or listen may fail; nobody catches the exception.
create_listen_socket(ok) ==
  /\ pc = "socket"
  /\ Goto(IF ok THEN "listening" ELSE "failed")
  /\ UNCHANGED <<files, catalog, index_table, store, timestamp, occ_man, loaded_count, g_params, raced>>
-----------------------------------------------------------------------------
(* Sessions *)

\* The first lines of begin_txn: thread_t::init in the session's thread.
begin_txn ==
  /\ pc = "listening"
  /\ g_params' = ParamsOf(g_params)
  /\ raced' = (raced \/ ParamsOf(g_params) # g_params)
  /\ UNCHANGED <<files, pc, n, catalog, index_table, store, timestamp, occ_man, loaded_count>>

\* txn_man::Write of a key that has no item.
PutNew(k, v) ==
  /\ pc = "listening" /\ index[hash_key[k]] = NULL
  /\ NewRow(hash_key[k], k, v, c_buf(k, KEY_BUF), c_buf(v, VAL_BUF))
  /\ UNCHANGED <<files, pc, n, catalog, index_table, timestamp, occ_man, loaded_count, g_params, raced>>

\* Only the characters of the new value are copied.
Mut_short_write(schema, local, v) ==
  LET pos == get_field_index(schema, 1) IN
  [o \in DOMAIN local |-> IF o >= pos /\ o < pos + len[v] /\ o < pos + VAL_BUF - 1
                          THEN char(v, o - pos) ELSE local[o]]

\* The update of the local copy.
WriteLocal(schema, local, v) == set_value(schema, local, 1, c_buf(v, VAL_BUF))

\* txn_man::Write of a key that has one, and the commit: the row is copied, the
\* copy's key compared (strcmp with the whole key), its value set, and the copy
\* written back.
PutOld(k, v) ==
  LET item == index[hash_key[k]]
      r == item.location
      schema == get_schema
      local == copy(schema, new_data(schema), rows[r].data)
  IN /\ pc = "listening" /\ item # NULL
     /\ get_value(schema, local, 0) = [m \in 1..len[k] |-> char(k, m - 1)]
     /\ rows' = [rows EXCEPT ![r].data = copy(schema, @, WriteLocal(schema, local, v))]
     /\ set_last' = [set_last EXCEPT ![r].val = v]
     /\ UNCHANGED <<files, pc, n, catalog, index_table, index, timestamp, occ_man, loaded_count,
                    g_params, raced>>
-----------------------------------------------------------------------------
Main ==
  \/ ReadTable \/ ReadTableUnended \/ ReadIndex \/ SchemaRead \/ InitRow \/ Manager_init
  \/ OptCC_init \/ OpenData  \/ LoadRecord \/ DataLoaded \/ \E ok \in BOOLEAN : create_listen_socket(ok)

Serve == begin_txn \/ \E k \in Key, v \in Value : PutNew(k, v) \/ PutOld(k, v)

\* The process has ended.
Failed == pc = "failed" /\ UNCHANGED vars

Next == Main \/ Serve \/ LastColumnAgain \/ Failed

Spec == Init /\ [][Next]_vars
\* The main thread runs.  How long the memory lasts is open.
FairSpec == Spec /\ WF_vars(Main)
=============================================================================
