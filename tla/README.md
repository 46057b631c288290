# A TLA+ verification of the DataAgent key-value server

The repository holds a small transactional key-value server in C++ (`main.cpp`,
`Server/`, `Storage/`), a Python stress test for it (`db_test.py`) and a Python
agent with an in-memory store of its own (`Agent/`). These modules model the
server from its start and the socket down to the row latches, the stress test as
its client, and the agent. TLC checks them on small instances, and TLAPS proves every safety
property that a passing run checks, the four refinements included, for every number of
transactions, keys, values, threads, items, clients and time-outs. The properties of the
allocator are the exception: they hold as long as its callers keep two conditions, which
nothing in the program ensures (section 2).

Paths below are relative to `src/`.

## 1. The system

```
db_test.py worker ──TCP──> handle_client (one thread per connection, session.cpp)
                              │  begin_txn get put commit abort_txn  (kv_api.cpp)
                              ▼
                           txn_man  (System/txn.cpp)  one per open transaction
              index_read /   │   Row_occ::access     │ OptCC::validate
              index_insert   ▼        ▼              ▼
                 hash index (index_hash.cpp)   rows + latch + wts (row.cpp, occ_row.cpp)
                                              Manager::get_ts: one atomic counter
```

| Component | State | Operations | What makes it correct |
|---|---|---|---|
| API and transaction manager (`Server/kv_api.cpp`, `System/txn.cpp`) | per transaction: `start_ts`, `end_ts`, `accesses`, `insert_rows`, counters | `begin_txn`, `get`, `put`, `commit`, `abort_txn` → `Read`, `Write`, `get_row`, `insert_row`, `finish`, `cleanup` | serializability; a rollback undoes exactly its own changes; no access past `accesses` |
| Concurrency control (`concurrency_control/occ*.cpp`) | per row: `_latch`, `wts` | `Row_occ::access/latch/validate/write/release`, `OptCC::validate` | no stale read commits; latches balanced on every path; no deadlock |
| Rows (`DataFormat/row.cpp`, `table.cpp`) | columns of bytes, manager pointer | `get_new_row`, `get_row`, `return_row`, `free_row` | nobody uses a freed row; fields hold the strings written to them |
| Timestamps (`System/manager.cpp`) | one counter | `get_ts` | unique, increasing |
| Hash index (`DataFormat/index_hash.cpp`) | buckets: latch, list of nodes, items of each node | `index_insert` (latched), `index_read` (no latch) | linearizable map; one node per key; walks end |
| Server and sessions (`main.cpp`, `Server/server.cpp`, `Server/session.cpp`) | per connection: socket buffers, `TxnHandle`, `in_txn` | accept, `read_line`, `split_ws`, the seven commands, `send_all` | `in_txn` agrees with the handle; a lost client leaves nothing behind; a PUT stores what was sent, cut to the 1023 characters that the engine's buffer holds (it is answered OK all the same) |
| Stress test (`db_test.py`) | per worker: place in the loop, key, value read; shared `applied_increments` | START/GET/PUT/COMMIT/ROLLBACK turns, time-outs, final check | counts equal the database's increments; the check compares them |
| Workload, catalog, schema (`Storage/test/wl.cpp`, `test_wl.cpp`, `catalog.cpp`) and `init_engine` | tables with their columns, indexes, the loaded rows | run once before the first connection: `init_schema`, `init_table`, the data file | the first session finds a complete engine; the last record of a key counts |
| Agent (`Agent/`) | the store, open transactions with their writes; the conversation | the tools `tx_start` … `tx_rollback`; `chat_with_tools`, `main` | the store is the replay of the commits; each tool call is answered; each chat ends |
| Allocator (`System/mem_alloc.cpp`) | per thread: arenas with free lists; the table of threads | `register_thread`, `unregister`, `alloc`, `free` | while no two calls meet in an arena and only blocks of the pool are freed: no block has two owners, each is large enough and lies in its buffer (off in this build, and the program would break both conditions) |
| `thread_t`, test transactions | dead in this build but for `thread_t::init` | — | — |

Components share state in four places: the rows and the index (all server
threads), the timestamp counter, a connection's two byte streams (one client, one
server thread), and the test's counters (all workers, under a lock). The agent is a
program of its own; it has one thread and does not use the server. Nothing is
persisted, so there is no recovery: the data file is read once and never
written.

### The hard behaviours

* **Interleaved validation.** `OptCC::validate` latches the rows of a
  transaction one by one, compares each `wts` with `start_ts`, draws `end_ts`, and
  only then writes; other threads copy, validate and write rows at every moment in
  between. Only the sort by primary key keeps two validations from waiting for
  each other.
* **Publication before commit.** `Write` puts a new row into the index at once.
  Others read it, write it and commit on it; an abort frees the row and leaves its
  index item, so later calls reach freed memory.
* **Latch-free readers of the index.**
* **Partial failure.** A copy may be refused in the middle of a transaction that
  goes on and commits; a key mismatch leaves an unwanted row in the write set;
  validation fails with some latches held; a peer disappears at any point of the
  protocol.
* **Reused slots.** A transaction's `accesses` keeps slots of refused copies, changes
  types in place, is sorted under the positions that `record_pos` names, and decides
  what `cleanup` frees.
* **Freed rows.** A rollback frees the rows it inserted before it walks its accesses once
  more to release latches, and leaves them in the index for others to find.
* **Strings of fixed size.** Keys and values are cut into buffers and copied into
  columns whose sizes come from a file.
* **A language model as the caller.** The agent's tools are called in any order, with
  any arguments, several at a time, across chats.
* **Time-outs.** A reply that comes after the client's time-out is read as the
  answer to a later request.

`PROJECT.json` lists these and the smaller ones under `hazards`, each with its line
and the properties that would catch it.

## 2. Modules

| Module | Models | Built on |
|---|---|---|
| `TxnMan` | the engine: `kv_api.cpp`, `txn.cpp`, `occ.cpp`, `occ_row.cpp`, `row.cpp`, `manager.cpp` | — |
| `TxnManProps` | its properties and the two refinement mappings | `TxnMan`, instances of `SerialKV`, `KvApi` |
| `TxnSets` | one transaction's arrays, counters, allocations and frees: `txn.cpp`, the sort of `occ.cpp`, `row.cpp` | — |
| `AccessSet` | abstract: a transaction's accesses as a set that a commit or abort takes as a whole | — |
| `TxnSetsProps` | the properties of `TxnSets`, with the unused `get_rw_set` and `test_valid` | `TxnSets`, an instance of `AccessSet` |
| `TxnManInv` | the inductive invariants of the engine | `TxnManProps` |
| `TxnManProofs` | the theorems about the invariant, and the proofs that the engine implements `SerialKV` and `KvApi` | `TxnManInv` |
| `SerialKV` | abstract: serializable transactions on records, with snapshots | — |
| `KvApi` | abstract: the five API calls, each atomic, answers included | — |
| `IndexHash` | the hash index, one load or store per step | — |
| `IndexMap` | abstract: a map with atomic operations | — |
| `RowLayout` | the bytes of a row: `catalog.cpp`, `row.cpp` | — |
| `Startup` | `main.cpp`, `init_engine`, `wl.cpp`, `test_wl.cpp`, `create_listen_socket`, and the first calls of sessions | `RowLayout` |
| `Session` | accept loop, `handle_client` with its splitting of lines, `read_line`, `send_all` | `KvApi` |
| `StressTest` | `db_test.py` against the sessions | `Session` |
| `Agent` | `db_client.py`, `kv_tools.py`, `tool_registry.py`, `llm.py`, `app.py` | — |
| `MemAlloc` | `mem_alloc.cpp` with THREAD_ALLOC | — |
| `TxnSetsProofs` | theorems about `TxnSets`, and that it implements `AccessSet` | `TxnSetsProps` |
| `IndexHashProofs` | theorems about `IndexHash`, and that it implements `IndexMap` | `MCIndexHash` |
| `StartupProofs`, `SessionProofs`, `AgentProofs`, `MemAllocProofs` | the invariants of those components, and their theorems | the `MC…` module of the component |
| `StressTestProofs` | the invariant that ties `db_test.py` to its sessions, and the theorems about the test | `MCStressTest`, `SessionProofs` (for what it proves of lines) |
| `MC…` | instances for TLC; the properties of `IndexHash`, `Session`, `StressTest`, `Startup` (with an instance of `TxnMan`), `Agent`, `MemAlloc` | |

Each layer assumes what the layer below is shown to do. `TxnMan` uses the index
as an atomic map, and `MCIndexHash` checks that `IndexHash` implements that map.
`Session` uses the engine as `KvApi`, and `CallsAreAtomic` checks that `TxnMan`
implements it. `TxnMan` starts from loaded records: `EngineReady` checks that what
`Startup` leaves behind is an initial state of `TxnMan`. `TxnMan` takes a transaction's
accesses as a map from primary keys, latched in order: `TxnSets` shows that the
arrays behave so.

Operators named `Mut_…` are plausible mistakes (a dropped guard, a missing reset,
a swapped order). No specification uses them; putting one in place of the
definition it stands beside makes a property fail, as `mutants` in `PROJECT.json`
records.

### `TxnMan`: state and actions

A server thread's step is what it does between two points where it touches shared
state: `begin_txn` (the atomic add of `get_ts`), the index probe of a GET or PUT
(`GetAbsent`, `GetFound`, `PutAbsent`, `PutFound`), the row copy under its latch
(`Read`, `Update`, `RowRefused`), `Insert`, one turn of the validation loop
(`LatchRow`), `DrawEndTs`, the writes (`Install`), the roll-back (`ValidateAbort`,
`abort_txn`), one unlock (`release`) and the return. `Install` writes all rows in
one step: the committing thread holds all their latches, and every reader takes the
latch.

| Code | Model |
|---|---|
| `accesses[i]`, `record_pos`, `row_cnt` | `accesses[t][p]`, one entry per primary key; `row_cnt(t)` is its size |
| `itemid_t*` in a bucket | `index[p]`, the row of the first item (only it is ever used) |
| `row_t*` | the pair of allocating transaction and primary key; `mem` says whether it is allocated or freed |
| `Row_occ::_latch` | `latch[r]`, held by a transaction through `validate`; a copy takes and gives it within one step, so it waits while the latch is held |
| bubble sort of `read_set`/`write_set` | rows are latched in order of primary key (`IsFirst`) |
| `std::hash`, `strncpy` to 127 | the constants `hash_key` and `key_buf`; an instance may make keys collide or be cut |
| history, not in the code | `snap[t]` (committed state at `start_ts`), `orig_data` (the copy as made) |

Undefined behaviour is `Fault`: where the next step of a thread uses a freed row or
the element past the end of `accesses`, either the memory still holds what it held
and the step happens, or the process dies (`crashed`).

Values are cut to 1023 characters on every way into a row (`val_buf`), keys to 127
(`key_buf`); the key is compared afterwards, the value never.

### `TxnSets`: one transaction, pointer by pointer

The state is `accesses` slot by slot, `record_pos`, the counters, the inserted rows, and the
blocks of memory that were allocated and not yet freed. `CachedRow` and `UncachedRow` are the two ways through
`get_row`; the latter may be refused, and the block of the refused copy stays in the slot
until the next copy overwrites the pointer (a leak, which `FreesAreExact` allows and
counts). `SortStep` and `SortPass` are the turns of the bubble sort's two loops; `LatchRow` and
`Validated` walk the sorted slots; `RowsReturned`, `FreeInserted`, `Reset` are `cleanup`.
What other transactions do is a nondeterministic answer of `access` and `validate`, the rows
they insert (`OtherInserts`) and those of them they free while the index still leads to them
(`OtherFrees`); a latch is always free: waiting is the subject of `TxnMan`.

`Undefined` names the steps that use a freed row: a copy, the sort, a latch, a write, and the
loop that releases the latches after a failed validation, which reaches the rows that the same
thread freed a moment before (`txn.cpp:220-225`, `occ.cpp:65-66`). Such a step is either taken
on what the memory still holds, or is the end of the thread (`Fault`, `faulted`). The latter is
likely: `row_t` begins with its `manager`, and that is where `free` puts its own pointer. Memory
that is handed out again before the use is left out; it would be another way for `Fault`. The program never frees a
transaction's manager, its `Access` records, row managers or index items; these leaks have
no effect on the properties.

### `IndexHash`

One bucket; every key falls into it, which is the worst case. Nodes are named by the
item they were allocated for. `Reachable` is the least set of nodes with a given first one that
is closed under `next`; with it the refinement mapping knows which items can be reached: an
insert takes effect when its item can be, a read when it loads the item or the NULL that ends
the list.

### `Startup` and `RowLayout`

The main thread's way is one action per section of the schema file, per row of
`init_table` and per record of the data file. A failed assertion or an exception nobody
catches is `pc = "failed"`. Bytes are named by the string and position they come from, so a
copy that is too long or too short shows. `c_str` is what `set_value` reads from the short
strings of `init_table`: characters, the NUL and then anything. A schema file may lack its last
newline. `wl.cpp:31-34` reads columns while the line is not empty, and a `getline` that fails
leaves the line as it was, so a file that ends with a column and no newline makes the loop read
that column for ever (`LastColumnAgain`): the server never listens. The repository's own file has
no newline at its end either, but ends with an index, which is read once. Once the server listens,
`begin_txn`, `PutNew` and `PutOld` are what a session does to `g_params` and to the bytes of
a row.

### `Session`

A connection is two queues, lines and replies. A line is a sequence of words and
separators. `read_line` builds it character by character without the carriage returns, and
refuses it beyond the limit; `split_ws` is the set of positions at which the words stand, and
`put_value` cuts the value of a PUT behind the second blank of the line; `buffered` of `KvApi` is
what the engine then keeps of it. `Rejected` gives the error
replies that do not reach the engine, in the order the code tests for them; `Start` … `End`
carry a command out; `Disconnect` is a failed `read_line`. `reply` is what the thread
is about to send, so the peer may go between the engine call and `send_all`. A
reply for a closed peer provokes a reset (`reset`), and a send after the reset
raises SIGPIPE (`SendSigpipe`). Some replies of the code cannot occur because the
engine never returns what they are for (`ERR START_FAIL`, `ERR COMMIT_FAIL`,
`ERR GET_FAIL`, and `ERR ABORT` to GET and PUT): `begin_txn` always returns OK,
`get` returns OK or NOT_FOUND, `put` OK or ERROR.

### `StressTest`

Client and server steps interleave. A worker's turn is START, GET, PUT of the value
plus one, COMMIT; a failed GET or PUT sends ROLLBACK, which the server does not know.
`TimeOut` is the exception of a worker's request without a reply; late replies stay in the
socket and are read by later requests. `TimeOutFinal` is the same in the final check: after the
greeting it goes on, after a GET the exception leaves `verify_final_values` and closes the
connection (`db_test.py:119`, 344). A connection that cannot be made at all is left out. `parse_int` takes the last integer of any
reply, as the code does. A crash of the server ends the model.

### `Agent`

A chat is `Ask`, then rounds of `Answer` (the model's tool calls), `RunTool` (each call and its
message) and `RoundEnds`, until `Finish`. The service and arguments of wrong types raise
(`Raise`), and the process ends with the store. A call has an id of its own, which its tool
message repeats (`llm.py:65`). Transactions may write any values, a key several times. `MCAgent` keeps what an observer of the tool
messages knows and compares the store with it.

### `MemAlloc`

Arenas of a size class each, one set per number that threads register with, found through a
table with linear probing. An allocation finds the arena and reads its head in one step and pops
or carves a block in another, a free is two steps as well. The rest is as the code has it: a
thread may register twice, or not at all, and is then served from arena 0; `unregister` empties
the table at any time, calls under way or not; requests beyond the largest size, and all of them
until the pool is enabled, go to `malloc` (`alloc_malloc`); and `free` takes any block, reads what
stands in front of it as its size, and puts it into a list.

So the pool cannot keep its promises to every caller. `kept` says that so far no two calls have
been at work on one arena and that no block of `malloc` has been freed; the properties are about
these behaviours, and after the first breach nothing is said. The program meets neither
condition: no code registers threads (`thread.cpp:32` is commented out), so with THREAD_ALLOC on
all would share arena 0; rows come from `_mm_malloc` (`table.cpp:29`) and are given to the pool by
`cleanup` (`txn.cpp:224`); and nothing sets the flags that enable the pool. THREAD_ALLOC is
`false`, and the properties tell what would have to be established before it can be turned on.

Left out: what the search of the table finds while `register_thread` or `unregister` is half through an
entry, the search without end for a thread that is not in a full table (`SearchEnds`), and a
registration in a full table, which probes for ever with the lock.

## 3. What is checked

`violation` runs show a disagreement between a statement in the repository and the
code; the statement is quoted in `findings`.

| Run | Instance | Shows |
|---|---|---|
| `loaded` | 2 transactions, 2 loaded records, 2 values | `Serializable` (refines `SerialKV`), `CallsAreAtomic` (refines `KvApi`), `LatchesMatch`, `WaitsAscend`, `WriteAdvancesWts`, and `EveryCallReturns` |
| `insert` | 2 transactions, a loaded key, one that collides with it, and one that is inserted and cut; `accesses` of length 1 | `ReadsAreCurrent`, `TypeOK` and `RefInv`, the invariant of the proofs, although others read, write and commit on uncommitted and freed rows, failed PUTs stay in the write set and `accesses` overruns |
| `sets` | 1 transaction, 3 primary keys, refusals, failed validations, rows inserted and freed by others | `PositionsAgree`, `RwSetsMatchCounts`, `FreesAreExact`, `OnlyReleaseUsesFreed`, `KeepsAccessSet` (refines `AccessSet`), `FinishEnds`, `TypeOK` |
| `startup` | columns of 3 bytes, strings that fit and that do not, schema files in good and bad order, some without their last newline, data files with duplicates, empty or missing | `FieldsHoldStrings`, `LastRecordCounts`, `EngineReady`, `ParamsSettled`, `StartEnds` |
| `index` | 2 threads, 3 keys, 2 insertions, any number of reads | `Linearizable` (refines `IndexMap`), `OneNodePerKey`, `EveryIndexCallReturns` |
| `session` | 1 client, 2 lines or replies in flight, every command, right and wrong, with single and doubled separators, values of up to 3 pieces kept whole | `InTxnIsHandle`, `ClosedClientIsForgotten`, `PlainPutIsExact` |
| `stress` | 2 workers and the check, 1 hot key, 2 turns each, at most 1 time-out anywhere | `NoLostUpdate`, `RepliesAligned`, `CountedIsWritten`, `TestFinishes` |
| `agent` | 1 key, 2 values, 2 transactions, 2 chats of 2 rounds of up to 2 calls | `StoreIsReplay`, `GetsAreRight`, `EveryCallAnswered`, `ChatEnds` |
| `pool` | 2 threads whose pids collide in the table, registrations (also repeated, or none) and `unregister` at any time, 3 block sizes, requests that fit, that leave room and that are too large, 2 buffers | `FindsOwn`, `NoBlockTwice`, `BlocksServe`, `BlocksFit` |
| `dirty` | 2 transactions, a loaded key and one that is inserted | violated: `NoDirtyCommit`. A transaction commits on a row whose inserter has not committed |
| `foreign` | as `dirty`, with fairness | violated: `RollbackIsOwn`. An abort frees a row that carries another transaction's acknowledged PUT |
| `hidden` | as `dirty` | violated: `OneCommittedInsert`. Two transactions insert one key and both commit; one row is hidden |

So the engine is serializable on records that were loaded at start. That is what `loaded`
checks and `RefinesSerialKV` proves. `insert` has no clients' view of the inserted
keys: it checks that validation stays sound and that the invariant of the proof, which is about
the loaded records, survives insertions, rollbacks, colliding and cut keys and an overrun access
array. Of what becomes of the inserted keys themselves, or of the memory behind the array, it says
nothing. On inserted keys the engine is not serializable, as `dirty`, `foreign` and `hidden` show.

`StartEnds` has two halves: a start that does not hang fails or listens for good, fully
initialised, and a start on a schema file that ends with a column and no newline never listens.
`OnlyReleaseUsesFreed` says that of its own rows a transaction uses none after freeing it, except in the
release loop after a failed validation; `FinishEnds` that `cleanup` ends, or a freed row was used.

Three things that the stress test's model shows and no run's property states: the
worker's ROLLBACK is answered `ERR BAD_CMD` and leaves its transaction open
(`db_test.py:265`, `session.cpp:130`), so later STARTs are refused; and the final check
sends GET outside a transaction, never sees a value, and reports a pass
(`db_test.py:344`); and a worker that has timed out once never sends a COMMIT again, however many
turns it has left, because its transaction stays open or its replies stay one behind (`Strayed`, a
part of the invariant `StressInv`).

### Bounds, and why they are enough

* *Two transactions, each used once.* A conflict in this protocol is between one
  transaction that validates and one that copies or validates; every kind of
  conflict (read-write, write-write, insert-read, insert-abort) needs two. The
  invariants behind the safety properties are proved for any number.
* *Two records.* Write skew, opposite latch orders and partially written commits need
  two. `insert` uses a loaded record beside the inserted one.
* *Two values.* An initial and a new one: the code never looks at a value.
* *`MAX_ROW_PER_TXN`* (64 in the code) is 3 in `loaded`, beyond reach of the keys, and 1 in
  `insert`, so that a second row overruns the array.
* *Index:* a list of two nodes and a third key has every shape of the walk: found
  first, found last, not found, appended to an empty list and behind a node.
* *One client* in `session`: sessions share nothing but the engine, which
  `KvApi` describes for any number of callers; the interleaving of several sessions
  is in `stress`.
* *`Pipeline` 2* lets a client be ahead of the server and leave with a reply unread,
  one under way and a line unread.
* *Three slots* in `sets` let the sort take two passes, a refused slot lie before used
  ones, and a read be upgraded behind a write.
* *`MaxRows` 6* in `startup` is two test rows, two records and two inserted rows; fields of
  3 bytes hold the strings "a" and "v" and are too small for the others.
* *Two transactions of the agent* overlap in every way, and with two values and four calls one
  writes a key twice, differently, and reads it; the store looks at a key and a transaction at a
  time. What an observer knows of a transaction that is over is forgotten, which keeps equal states
  together. `max_rounds` (10) is 2: the second round starts from a conversation
  that has tool messages already.
* *`MaxTimeouts` 1* is one loss of alignment anywhere in the test; `TXN_PER_THREAD` 2
  lets it hurt the following turn. Neither bounds the proof (`StressTestProofs`).
* *`pool`* takes a block from malloc (`MaxForeign`) beside those of the pool, and holds two
  (`MaxHeld`). `MaxEntries` 2 lets both threads register, one of them twice, or one leave the other on
  arena 0, so that they work side by side on different arenas or meet in one. TLC does not follow
  what comes after a breach of the conditions (the constraint `Followed`); the properties say
  nothing of it.
* *`MAX_VALUE` 3* in `session` (1023 characters in the code) cuts one of the values and leaves the
  others whole; the proof is for any way of cutting (`val_cut`).

### Fairness

`FairSpec` of `TxnMan` and `IndexHash` and `FairSessionSpec` of `MCSession` are weak fairness of each thread's
next step: the kernel schedules every server thread that can run. Clients owe
nothing: `begin_txn`, a GET, a PUT, `commit` and ABORT are requests, which may never
come. `LatchRow` waits for a `pthread_mutex_t` and `get_latch` spins on a
compare-and-swap, neither of which promises a waiter its turn. Weak fairness is
enough here because each transaction and each insertion happens once, so nobody
can take the latch for ever; a waiter in a server with endless traffic is
promised nothing. Copies take and give the latch within one step of the model, so a
waiter that starves because of endless GETs is not seen. In `StressTest` both programs run
(`WF` of each worker, the check and each server thread), and a time-out, of a worker or of
the check, never has to happen. In `Startup` the main thread runs, in `TxnSets` a transaction that has begun to
finish, and in `Agent` the process and the service it asks (which answers or fails); users
and clients owe nothing.

## 4. What is proved

The theorems hold for every value of the constants that meets the named assumptions of the
modules, which TLC evaluates in the runs. In the tables a property without a formula is an
invariant, `Spec => []P`.

### The engine (`TxnManProofs`)

Assumed (`ConstantsAssumption`, `NullAssumption`, `NullIsNoContext`): primary keys are natural
numbers, `Key` is finite, no two loaded keys have the same primary key (with two such records in
the data file the later one would hide the earlier), and `NULL` is none of the values it stands
beside; what is kept of a value is a value. Nothing is assumed of `Txn`, `Value`, `MAX_ROW_PER_TXN`,
or of how keys hash and how keys and values are cut.

| Theorem | States |
|---|---|
| `Invariance` | `IInv` |
| `TypeCorrect` | `TypeOK` |
| `LatchesReturned` | `LatchesMatch` |
| `WtsAdvances` | `Spec => WriteAdvancesWts`: the assertion of `Row_occ::write` never fails |
| `NoStaleCommit` | `Spec => ReadsAreCurrent`: validation is sound for every row, inserted and freed ones included |
| `NoWaitCycle` | `WaitsAscend`: no cycle of waiting validations |
| `SnapshotReads` | `RefInv`: a running transaction has only seen the committed state of its start |
| `RefinesSerialKV` | `Spec => Serializable`: transactions on the loaded records are serializable in the order of `end_ts` |
| `CallsTakeEffectAtOnce` | with all keys loaded and none cut (`AllLoaded`), `Spec => CallsAreAtomic`: each call of `kv_api.h` is one atomic step of `KvApi`, its answer included |

The invariant. `ReadsAreCurrent` is not inductive: at the commit point it needs that
every copy is current *or its row's `wts` is beyond `start_ts`* (`CopiesOK`), that the
rows validated so far keep their `wts` because they are latched (`ValidatedOK`,
`LatchesMatch`), and that a commit which has drawn its `end_ts` but not yet written is
newer than every start of those who copied before (`CopiesOK`, second half) and
still holds its latches (`CommitLatched`). `WriteAdvancesWts` needs `TimeOK`: all
timestamps in the system are below the counter. `RowsOK` and `CallOK` say that every
pointer (index, access, call in progress) leads to an allocated row of the right
primary key, and that a loaded key is never inserted again; `SetsOK` that a finished
transaction has empty sets. `IInv` is the conjunction. It is proved with one
lemma per action; actions that only move a call along share `CallFrame`, the two
that touch the access array share `AccessFrame`, the two roll-backs share a lemma.
`NoWaitCycle` uses a second, smaller invariant, `LockOrder`: rows already latched
precede the rows still to be latched.

`SerialKV`. A commit counts from the instant it draws `end_ts`, so the abstract
`db` (`Db`) is the value a pending commit will write, or else the row's. `begin_txn` is
a `Begin`, `Read` and `Update` of a loaded row are a `Get` and a `Put`, `DrawEndTs` is the
`Commit`, `ValidateAbort` and `abort_txn` are an `Abort`; everything else is a stutter,
`Install` too, since it writes what `Db` already says. Two facts beside `IInv` carry the
proof: `SeenOK`, what a transaction holds of a loaded row is its snapshot, and `SnapOK`, a
row with `wts <= start_ts` still has the snapshot's value once the commits older than
`start_ts` have written it. `SnapOK` is why the latch matters to a reader: a row that is
neither latched nor refused has no pending commit, so its copy is the snapshot
(`FreshCopy`). At `DrawEndTs`, `ValidatedOK` and `CopiesOK` make every copy current, which
is the guard of the abstract `Commit`.

`KvApi`. What a caller can tell of a transaction is its copies, which of them it has changed,
and which records it could no longer read or commit on, being *stale*. A record is stale for a
transaction if its `wts` is beyond `start_ts`, where a commit's `end_ts` counts as the `wts` of
its records from the instant it is drawn: the rows are latched from there until they carry it,
so nobody can notice the difference (`WtsFacts`, `UnlatchedWts`). The step in which a call takes
effect is `Read`, `Update` or `RowRefused` for GET and PUT, and `DrawEndTs` or `ValidateAbort`
for COMMIT; at that step the answer is fixed (`RcOf`), and what the thread still does before it
returns is a stutter. Beside `RefInv` the proof needs `KeysOK` and `CallKeyOK` (the key compared
by `get` is the one that was asked for, so no loaded key is refused) and `AnswerOK` (a validation
fails only after it has met a stale row, which is what lets the abstract commit fail). `ApiInv`
is the conjunction. Without `AllLoaded` the theorem would be false: `KvApi` has no inserted keys,
and a cut key is refused.

### The other components

| Theorem | States |
|---|---|
| `TxnSetsProofs`: `SetsTypeCorrect` | `TypeOK`: slots, counters and loop variables stay within the arrays |
| `PositionsRight`, `RwSetsRight`, `FreesExact` | `PositionsAgree`, `RwSetsMatchCounts`, `FreesAreExact` |
| `FreedUsesAreLate` | `OnlyReleaseUsesFreed` |
| `RefinesAccessSet` | `Spec => KeepsAccessSet`: the arrays, the sort and the loops implement `AccessSet` |
| `IndexHashProofs`: `OneNodePerKeyHolds` | `OneNodePerKey` |
| `ReadsAreAtomic` | `Spec => Linearizable`: reads without a latch implement `IndexMap` |
| `StartupProofs`: `ParamsAreSettled`, `FieldsAreExact`, `LastRecordWins` | `ParamsSettled`, `FieldsHoldStrings`, `LastRecordCounts` |
| `EngineIsReady` | `EngineReady`: the first session finds an initial state of `TxnMan` |
| `SessionProofs`: `InTxnFollowsHandle` | `InTxnIsHandle` |
| `PlainPutsAreExact` | `SessionSpec => PlainPutIsExact` (an action property) |
| `StressTestProofs`: `StressIsInvariant` | `StressInv` |
| `NoUpdateIsLost`, `CountedAreWritten`, `RepliesStayAligned` | `NoLostUpdate`, `CountedIsWritten`, `RepliesAligned` |
| `AgentProofs`: `StoreOnlyCommits`, `AllCallsAnswered` | `StoreIsReplay`, `EveryCallAnswered` |
| `GetsAnswerRight` | `FairSpec => GetsAreRight` (an action property) |
| `MemAllocProofs`: `ArenasFound` | `FindsOwn` |
| `BlocksNotShared`, `BlocksLargeEnough`, `BlocksInBuffers` | `NoBlockTwice`, `BlocksServe`, `BlocksFit` |

*`TxnSets`* (`SetsAssumption`, `NullIsNoValue`, `NullIsNoEntry`). `PositionsAgree` needs to know
which slots hold an access at all (`SlotsOK`, as refused copies leave slots behind that are used
again), that no key has two (`OneAccessPerKey`), and where each loop stands (`LoopsOK`, `SortOK`).
`FreesAreExact` is a count: `HeapOK` and `InsertsOK` say that no block is named twice, so the
blocks still allocated are in bijection with the slots, the inserted rows and the refused copies.
`OnlyReleaseUsesFreed` needs that, unless the transaction is aborting, every row it has inserted and may still reach is
allocated (`OwnLive`).
For the refinement the set of accesses is read off the slots, and the order of the keys that the
abstract latching demands is what `SortOK` has established when validation begins
(`LatchOrderOK`): the sort is proved, pass by pass, not assumed.

*`IndexHash`* (`NullAssumption`). The list is described without walking it: `Reachable` is the
least closed set, from which come its unfolding, what a new last node adds, and that everything
linked stays linked. A reader is right because its key's node, if there is one, is not behind it
(`Ahead`), which an append preserves; an insertion because it finds the end of the list under the
latch (`InsertOK`, `LatchOK`).

*`Startup`* (`ConstantsAssumption`, `SchemaAssumption`, `NullAssumption`,
`StrAssumption`, `NulAssumption`, `HashAssumption`): strings have lengths and no NUL among their characters, the schema gives the
table its two columns, the buffers of `init_table` hold its numbers, and no key hashes to a number
of a test row. `FieldsHoldStrings` goes over the bytes: `Keeps` says which bytes of a column a
string determines, whether it came from a buffer that is padded or from a string that is not, and
copying a column to a local buffer and back keeps them. `EngineReady` needs that the counter
counts the records (the second records of a key are excluded by its hypothesis) and that the
index leads to the last of them.

*`Session`* (`BlankAssumption`, `LengthAssumption`, `NullIsNoTxn`): white space is none of the words
of commands, keys and values. `InTxnIsHandle` needs `ByeIsLast`: the BYE of END is sent after the
transaction was closed, and no command follows it. `PlainPutIsExact` is about two ways of cutting
one line. The lemmas about `read_line` (`LoopRuns`, `ReadLine`) consider the first round of its loop
that would break them, since the induction theorems of the library cannot be used here. In a plain
PUT the first words stand at positions 1, 3 and 5 and the first two blanks at 2 and 4, so the key
that `split_ws` finds and the value that `put_value` cuts are those that the client meant, whatever
follows. What the transaction then holds is that value as the engine's buffer keeps it: the whole of it
if it is not in the domain of `val_cut`, and `val_cut` of it otherwise.

*`StressTest`* (the assumptions of `Session`, and `ClientAssumption`, `TestLineAssumption`,
`NumberAssumption`,
`TestNullAssumption`): there are finitely many workers and the verifier is none of them, the
limit of a line is at least the five pieces of a PUT, white space is no number, no number that an increment can reach is too long for the engine's
buffer, and `NULL` is no number, reply or transaction. Nothing is assumed of `TXN_PER_THREAD` and `MaxTimeouts` but that they
are numbers. `StressInv` has these parts beside the types.

* `Aligned`: between a client that has not timed out and its session there is nothing, one request,
  or its answer, and the client's place in the loop says which; what it has read is the record's
  value or its copy is stale, and what it has written is one more (`HasRead`, `HasWritten`).
  `RepliesAligned` follows at once.
* `Strayed`: a worker that has timed out reads answers to earlier requests. The answers that are
  given or still to be given are classed by what they can be mistaken for (`Kind`), and
  `NoWayToCommit` says that no sequence of them leads the worker through START, GET and PUT:
  a START that does begin a transaction is at most one of them, and the answer after that of
  its GET is an error. So its place is never `commit` or `COMMIT`, and it counts nothing. A COMMIT
  that was sent before the time-out may still be carried out (`CommitOK`).
* `Adrift`: the check, once it has timed out. It sends nothing but GETs outside a transaction, so whatever
  it reads changes nothing that the properties are about.
* `CountsOK`: a record holds its start, the increments counted, and those whose OK COMMIT is on its
  way (`ToCount`), exactly so as long as nothing has timed out, and at least so otherwise; it
  never exceeds its start by more than the turns in which a COMMIT may have been sent (`Turns`), the
  COMMITs not carried out yet included (`Committing`). `Turns` is a subset of
  `Worker \X (1..TXN_PER_THREAD)`, so the bound of `CountedIsWritten` is a cardinality and needs no
  sum over the workers. A step of one client leaves the others as they are but for
  `stale`, which a commit extends; that is why `HasRead` and `HasWritten` speak of stale copies.

*`Agent`* (`NullIsNoId`, `BoundsAreNumbers`): for any calls with any values, in any number. `OpenIsSent` ties the writes of
an open transaction to what the tool messages have accepted, `AloneSeesStart` the committed state
to that of its start, and `AnsweredSoFar` the messages already sent and the calls not yet run to
the answer they belong to.

*`MemAlloc`* (`PoolAssumption`, `SizesAssumption`, `NullIsNoBlock`): pids are distinct and not 0,
there is an arena for each number, sizes ascend, and a buffer has room for a block. Nothing is
assumed of requests, or of who registers, how often, and when. `TableOK` says that linear
probing leads every registered thread to the entry it made first, whoever has registered since, and
a thread without an entry to an empty one (`ArenasFound`). The other three are proved of
behaviours in which `kept` holds: then no two calls are at work on one arena (`Apart`), and what a
thread in `alloc` or `free` has read of its arena is still so (`InCall`). `ListsOK` describes the
free lists without walking them: a block that is neither held nor in a thread's hands is the head
of at most one list or the next of at most one block, and has the list's size; `BuffersOK` says
that what is left of a buffer lies beyond all that was cut from it and belongs to one arena.

Every property of the two tables but `IInv` and `StressInv` is checked by a run too, and `IInv` as a
part of `RefInv` in `insert`. `StressInv` quantifies over sequences, so no run evaluates it.

### Model-checked only

* Liveness (`EveryCallReturns`, `EveryIndexCallReturns`, `ClosedClientIsForgotten`,
  `TestFinishes`, `FinishEnds`, `StartEnds`, `ChatEnds`): fairness and `ENABLED` are beyond the
  prover.
* The three violations: each is one behaviour, which a run shows.

## 5. Abstractions and what is not modelled

* A freed row's memory is never given to another row. Reuse would add outcomes to
  `Fault`, and only there.
* `TxnMan` and `KvApi` cut values and keys by a constant (`val_buf`, `val_cut`, `key_buf`);
  `Startup` and `RowLayout` cut them byte by byte.
* `KvApi` speaks of records that exist (loaded or committed long before), for which
  NOT_FOUND means "overwritten since the start". Inserts are in `TxnMan` alone.
* The transaction number in `OK TXN <n>` is one constant; the stress test could take
  it for a value, so it is kept.
* A thread that `std::thread` cannot create once the server listens (`server.cpp:89`) is left out.
* `IndexHash` has sequentially consistent memory. A build with no `CMAKE_BUILD_TYPE` is not optimised and
  the code's loads and stores are plain; on x86-64 stores stay in order, which is what the
  latch-free reader needs. Another build or processor is outside the model.
* `Startup`: malformed lines of the schema file are left out (the file belongs to the
  program). Each table keeps a pointer to the characters of a local string as its name
  (`wl.cpp:35`), which `occ.cpp:34` compares; with one table a name is compared with itself.
  `cur_tab_size` is counted without a lock (`table.cpp:28`); it goes to `row_id`, which nothing
  reads.
* `g_params` in `thread.cpp:21` is a `std::map` whose `operator[]` inserts. With a data file the
  loader's thread has inserted the key (`ParamsSettled`); with none, two first STARTs race on
  the map, and the outcomes are the library's.
* `Agent`: `tool_registry.py:3` imports `tools.kv_tx_tools`, but the file is `tools/kv_tools.py`,
  and the tools `kv_get` and `kv_dump` have no function. The loop is modelled as it runs with
  the import put right; `image_analyze` changes nothing and is one of the other tools.
* `OptCC::get_rw_set` and `test_valid` have no caller; `RwSetsMatchCounts` uses them as a
  second account of the sets.

### Not modelled

* `txn_man::release`, `thread_t::run` (commented out), `get_next_ts`, `runTest`,
  `TestTxnMan::run_txn` and `Manager`'s tables of transactions: never used.
* `config.h`, the statistics macros and random generators of `helper.h`, the named-column and
  typed accessors of `row.cpp` and `catalog.cpp`: settings or without callers.
* Phantoms: a NOT_FOUND leaves nothing in the read set (`txn.cpp:118`). `SerialKV` speaks of
  loaded records; see the plan.
* In `db_test.py`: `preload_keys` is the initial state, the latency statistics are left
  out, a connection that cannot be made ends nothing but its client's work and is left out, and a
  server that dies ends the model.

## 6. Plan

Done: the models of every component but the unused ones, their abstract specifications
(`SerialKV`, `KvApi`, `IndexMap`, `AccessSet`), the four refinement proofs, and the proofs of all
safety properties of the passing runs.

What is left, in order:

1. `SerialInserts`: what clients may expect of inserted keys (one live row per key, no
   phantom), as an abstract specification beside `SerialKV`, with the cases in which
   the engine falls short (`OneCommittedInsert`, absence that is not validated).
2. More of `db_test.py`: `preload_keys` through the sessions, connections that cannot be made.
