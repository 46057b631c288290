----------------------------- MODULE RowLayout -----------------------------
(***************************************************************************)
(* The bytes of a row: class Catalog gives each column a place in the      *)
(* tuple (Storage/DataFormat/catalog.cpp), row_t reads and writes columns  *)
(* there (row.cpp), and txn_man and init_engine put C strings into them    *)
(* through buffers of a fixed size.                                        *)
(*                                                                         *)
(* A character is named by its string and its position in it, so that a    *)
(* byte shows where it came from.                                          *)
(***************************************************************************)
EXTENDS Naturals, Sequences, FiniteSetsExt

CONSTANTS
  Str,   \* strings
  len    \* len[s]: length of s

ASSUME StrAssumption == len \in [Str -> Nat]

NUL == "NUL"
JUNK == "junk"   \* a byte of whatever lies in memory there
char(s, n) == <<s, n>>
Byte == (Str \X Nat) \cup {NUL, JUNK}

\* The characters of a string come before its NUL.
ASSUME NulAssumption == \A s \in Str : \A n \in 0..(len[s] - 1) : char(s, n) # NUL

\* char buf[size] = {0}; strncpy(buf, s, size - 1)
c_buf(s, size) ==
  [o \in 0..(size - 1) |-> IF o < len[s] /\ o < size - 1 THEN char(s, o) ELSE NUL]

\* A pointer to the characters of a std::string, read as size bytes: what lies
\* behind the terminating NUL is read too.
c_str(s, size) ==
  [o \in 0..(size - 1) |-> IF o < len[s] THEN char(s, o) ELSE IF o = len[s] THEN NUL ELSE JUNK]

\* The characters of s that a buffer of the given size keeps.
cut(s, size) == [n \in 1..Min({len[s], size - 1}) |-> char(s, n - 1)]
-----------------------------------------------------------------------------
(* Catalog *)

Column(name, size, index) == [name |-> name, size |-> size, index |-> index]

\* A catalog before its columns are added; field_cnt is their number.
Catalog == [_columns |-> <<>>, tuple_size |-> 0]

add_col(schema, name, size) ==
  [_columns |-> Append(schema._columns, Column(name, size, schema.tuple_size)),
   tuple_size |-> schema.tuple_size + size]

\* The columns are numbered from 0.
get_field_size(schema, id) == schema._columns[id + 1].size
get_field_index(schema, id) == schema._columns[id + 1].index
-----------------------------------------------------------------------------
(* row_t *)

\* row_t::init: the memory of a new row holds anything.
new_data(schema) == [o \in 0..(schema.tuple_size - 1) |-> JUNK]

\* The byte at place o of a buffer that may be too short.
byte(buf, o) == IF o \in DOMAIN buf THEN buf[o] ELSE JUNK

\* set_value(id, ptr): memcpy of the column's size.
set_value(schema, data, id, buf) ==
  LET pos == get_field_index(schema, id) IN
  [o \in DOMAIN data |->
     IF o >= pos /\ o < pos + get_field_size(schema, id) THEN byte(buf, o - pos) ELSE data[o]]

\* The C string at get_value(id): up to the first NUL, wherever that is.
get_value(schema, data, id) ==
  LET pos == get_field_index(schema, id)
      nuls == {o \in DOMAIN data : o >= pos /\ data[o] = NUL}
      end == IF nuls = {} THEN schema.tuple_size ELSE Min(nuls)
  IN [n \in 1..(end - pos) |-> data[pos + n - 1]]

\* set_data(src->get_data(), tuple_size)
copy(schema, dst, src) == [o \in DOMAIN dst |-> IF o < schema.tuple_size THEN src[o] ELSE dst[o]]
=============================================================================
