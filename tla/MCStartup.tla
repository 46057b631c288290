----------------------------- MODULE MCStartup -----------------------------
(***************************************************************************)
(* What a started server owes to its sessions.  Instance: KEY and VALUE    *)
(* are three bytes wide instead of 128 and 1024; "a" and "v" fit, "long"   *)
(* and "wide" do not.                                                      *)
(***************************************************************************)
EXTENDS Startup

MCLen == [s \in Str |-> IF s \in {"long", "wide"} THEN 5 ELSE 1]
MCHash == [k \in Key |-> IF k = "a" THEN 11 ELSE 12]
MCDigits == [m \in 0..1 |-> IF m = 0 THEN "0" ELSE "1"]

TableSection == [kind |-> "TABLE", name |-> Table, newline |-> TRUE,
                 cols |-> <<[name |-> "KEY", size |-> 3], [name |-> "VALUE", size |-> 3]>>]
IndexSection == [kind |-> "INDEX", name |-> Index, newline |-> FALSE, table |-> Table]
CutSection == [TableSection EXCEPT !.newline = FALSE]

\* The repository's schema file, whose last line has no newline; one that is
\* missing; two that are incomplete, of which one ends with a column; and two in
\* the wrong order.
MCSchemaFiles ==
  {<<TableSection, IndexSection>>, <<>>, <<TableSection>>, <<CutSection>>,
   <<IndexSection, TableSection>>, <<IndexSection, CutSection>>}

Rec(k, v) == [key |-> k, val |-> v]
MCDataFiles ==
  {NULL, <<>>, <<Rec("a", "v")>>, <<Rec("long", "v"), Rec("a", "wide")>>,
   <<Rec("a", "wide"), Rec("a", "v")>>}
-----------------------------------------------------------------------------
\* The strings in a row's columns, read as C strings, are what the columns keep
\* of the strings last written there: KEY never runs into VALUE, VALUE never out
\* of the row, a shorter value leaves no tail of a longer one, and no string
\* that was read beyond its end shows (row.cpp:59-115, kv_api.cpp:89-96,
\* txn.cpp:152-163 and 188-190, test_wl.cpp:37-38).
FieldsHoldStrings ==
  \A r \in RowId : rows[r] # NULL =>
    /\ get_value(get_schema, rows[r].data, 0) = cut(set_last[r].key, KEY_BUF)
    /\ get_value(get_schema, rows[r].data, 1) = cut(set_last[r].val, VAL_BUF)

Loaded == IF infile = NULL THEN {} ELSE {infile[m].key : m \in DOMAIN infile}

\* The last record of the data file with primary key p.
LastRecord(p) ==
  infile[Max({m \in DOMAIN infile : hash_key[infile[m].key] = p})]

\* Of several records with one key in the data file the last one counts: its row
\* is the one the index leads to (kv_api.cpp:72-113, index_hash.cpp insert_item).
LastRecordCounts ==
  pc \in {"socket", "listening"} =>
    \A p \in {hash_key[k] : k \in Loaded} :
      /\ index[p] # NULL
      /\ pc = "socket" =>
           set_last[index[p].location] = [key |-> LastRecord(p).key, val |-> LastRecord(p).val]

\* The state that the first session finds, in the terms of module TxnMan: a
\* loaded row for each key, written by Loader.
KeyPk == {hash_key[k] : k \in Key}
LoaderRow == {"Loader"} \X KeyPk
RowOfPk(r) == rows[index[r[2]].location]
KeyOfPk(p) == CHOOSE k \in Key : hash_key[k] = p /\ (p \in {hash_key[l] : l \in Loaded} => k \in Loaded)
Live(r) == index[r[2]] # NULL

IndexView == [p \in KeyPk |-> IF index[p] = NULL THEN NULL ELSE <<"Loader", p>>]
MemView == [r \in LoaderRow |-> IF Live(r) THEN "live" ELSE "none"]
WtsView == [r \in LoaderRow |-> IF Live(r) THEN RowOfPk(r).manager.wts ELSE 0]
DataView ==
  [r \in LoaderRow |->
     IF Live(r)
     THEN [key |-> get_value(get_schema, RowOfPk(r).data, 0),
           val |-> IF get_value(get_schema, RowOfPk(r).data, 1) = cut(LastRecord(r[2]).val, VAL_BUF)
                   THEN "as in file" ELSE "other"]
     ELSE [key |-> cut(KeyOfPk(r[2]), KEY_BUF), val |-> "as in file"]]
KeyBufs == [k \in Key |-> cut(k, KEY_BUF)]
Views == {"as in file", "other"}  \* of values that have been cut
ViewBufs == [v \in Views |-> v]
NoLatches == [r \in LoaderRow |-> NULL]
NoTxn == [t \in {} |-> NULL]

Engine(L) == INSTANCE TxnMan WITH
  Loaded <- L,
  Txn <- {}, Loader <- "Loader", InitVal <- "as in file", MAX_ROW_PER_TXN <- 64,
  Value <- Views, key_buf <- KeyBufs, val_buf <- ViewBufs,
  index <- IndexView, mem <- MemView, data <- DataView, wts <- WtsView, latch <- NoLatches,
  pc <- NoTxn, call <- NoTxn, start_ts <- NoTxn, end_ts <- NoTxn, accesses <- NoTxn,
  insert_rows <- NoTxn, locked <- NoTxn, rc <- NoTxn, reply <- NoTxn, snap <- NoTxn,
  crashed <- FALSE

\* std::hash maps no client's key to the primary key of a test row.
ASSUME HashAssumption == \A k \in Key : hash_key[k] >= TestRows

OneRecordPerPk ==
  infile # NULL =>
    \A i, j \in DOMAIN infile : hash_key[infile[i].key] = hash_key[infile[j].key] => i = j

\* With a data file in which no two records have the same primary key, init_engine
\* leaves the engine in the initial state of module TxnMan: each record committed
\* with wts 0, one timestamp drawn for each, nothing latched, and no other row
\* under a client's key.
EngineReady ==
  pc = "socket" /\ OneRecordPerPk =>
    \A L \in SUBSET Key : L = Loaded => Engine(L)!Init

\* If there was a data file, no session's thread ever changes g_params, which all
\* of them search without a lock (thread.cpp:21); init_engine's own thread_t has
\* inserted the key before.
ParamsSettled == infile # NULL => ~raced

\* The schema file ends with a column of a table and no newline.
ColumnLast ==
  schema_file # <<>> /\ schema_file[Len(schema_file)].kind = "TABLE" /\ Unended(Len(schema_file))

\* All that a session uses: the table, its index, the timestamps, the validation
\* and every record of the data file.
Started ==
  /\ Table \in DOMAIN catalog /\ Index \in DOMAIN index_table /\ occ_man # NULL
  /\ timestamp # NULL /\ loaded_count = IF infile = NULL THEN 0 ELSE Len(infile)

\* The start comes to its end: the process fails, or it listens from then on and
\* is started in full - unless the schema file ends with a column and no newline,
\* when the start never ends and no session is ever served (wl.cpp:31-34).
StartEnds ==
  /\ ~ColumnLast => <>(pc = "failed" \/ [](pc = "listening" /\ Started))
  /\ ColumnLast => [](pc # "listening")
=============================================================================
