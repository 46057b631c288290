------------------------------ MODULE MemAlloc ------------------------------
(***************************************************************************)
(* The pool of mem_alloc (System/mem_alloc.cpp): arenas of free blocks for *)
(* each block size, under the numbers that threads register in the table   *)
(* pid_arena, and used without a lock.                                     *)
(*                                                                         *)
(* The pool is a build option, THREAD_ALLOC of config.h, which this build  *)
(* sets to false: alloc and free are then malloc and free.  The model is   *)
(* of a build with the option, for any callers.  This program's sessions   *)
(* never register (thread.cpp:32 is commented out), and it frees rows that *)
(* were not allocated here (txn.cpp:224).                                  *)
(*                                                                         *)
(* Two calls at work on one arena are a data race, and free takes any      *)
(* pointer for one of the pool.  kept says that neither has happened; when *)
(* it is FALSE nothing is said of the pool.                                *)
(***************************************************************************)
EXTENDS Naturals, Sequences, FiniteSetsExt

CONSTANTS
  Thread,
  pid,           \* pid[t]: pthread_self() in thread t
  g_thread_cnt,  \* the larger of g_thread_cnt and g_init_parallelism
  BlockSizes,    \* the block sizes, ascending
  HEADER,        \* sizeof(FreeBlock)
  MEM_ALLIGN,
  BUFFER_BLOCKS, \* a buffer has room for so many blocks without headers (40960)
  Request,       \* sizes asked for
  MaxBuffers,    \* bound: buffers ever taken from malloc
  MaxHeld,       \* bound: blocks in use at once
  MaxForeign,    \* bound: blocks of malloc in use at once
  MaxEntries,    \* bound: entries of the table in use
  NULL

_bucket_cnt == g_thread_cnt * 4 + 1
Entry == 0..(_bucket_cnt - 1)
SizeId == DOMAIN BlockSizes
Number == 0..(g_thread_cnt - 1)

\* Bytes of a block with its header.
Room(s) == ((BlockSizes[s] + HEADER + MEM_ALLIGN - 1) \div MEM_ALLIGN) * MEM_ALLIGN

ASSUME PoolAssumption ==
  /\ g_thread_cnt \in Nat \ {0}
  /\ pid \in [Thread -> Nat \ {0}]
  /\ \A t, u \in Thread : t # u => pid[t] # pid[u]

\* A buffer has room for a block.
ASSUME SizesAssumption ==
  /\ BlockSizes \in Seq(Nat)
  /\ \A r, s \in SizeId : r < s => BlockSizes[r] < BlockSizes[s]
  /\ HEADER \in Nat \ {0} /\ MEM_ALLIGN \in Nat \ {0} /\ BUFFER_BLOCKS \in Nat
  /\ \A s \in SizeId : Room(s) <= BlockSizes[s] * BUFFER_BLOCKS
  /\ SizeId # {} /\ Request \subseteq Nat /\ MaxForeign \in Nat

\* A null pointer is no block, and no number.
ASSUME NullIsNoBlock == NULL \notin Nat \cup (Nat \X Nat)

VARIABLES
  enabled,    \* warmup_finish || enable_thread_mem_pool
  pid_arena,  \* pid_arena[e]: [first, second]
  arenas,     \* arenas[a][s]: [_head, _buffer, _size_in_buffer]
  header,     \* header[b]: FreeBlock [size, next] of each block b ever made
  buffers,    \* sizes of the buffers taken from malloc
  held,       \* blocks in use: [block, size asked for]
  pc,         \* pc[t]: "idle", "alloc" or "push"
  arena,      \* arena[t]: the Arena t works on, <<arena_id, size_id>>, or NULL
  block,      \* block[t]: the block it has in hand, or NULL
  asked,      \* asked[t]: size it has asked for, or NULL
  kept,       \* no two calls have met in an arena, no foreign block has been freed
  number      \* number[t]: with which t registered first since the last unregister, or NULL

vars == <<enabled, pid_arena, arenas, header, buffers, held, pc, arena, block, asked, kept, number>>

\* A block of the pool is named by its buffer and its place there; <<0, n>> is a
\* block that malloc has made.
NoEntry == [first |-> 0, second |-> 0]
EmptyArena == [_head |-> NULL, _buffer |-> <<0, 0>>, _size_in_buffer |-> 0]
FreeBlock(size, next) == [size |-> size, next |-> next]

init_thread_arena == arenas = [a \in Number |-> [s \in SizeId |-> EmptyArena]]

Init ==
  /\ enabled = FALSE /\ pid_arena = [e \in Entry |-> NoEntry]
  /\ init_thread_arena
  /\ header = <<>> /\ buffers = <<>> /\ held = {}
  /\ pc = [t \in Thread |-> "idle"]
  /\ arena = [t \in Thread |-> NULL]
  /\ block = [t \in Thread |-> NULL]
  /\ asked = [t \in Thread |-> NULL]
  /\ kept = TRUE /\ number = [t \in Thread |-> NULL]
-----------------------------------------------------------------------------
(* pid_arena *)

\* The entry reached by d steps from that of p's hash.
Probe(p, d) == (p + d) % _bucket_cnt

\* The first entry on the way that has one of the given pids.
FirstEntry(p, pids) ==
  Probe(p, Min({d \in Entry : pid_arena[Probe(p, d)].first \in pids}))

\* Thread t registers with the number n, under the lock, be it registered or not.
\* In a full table it would probe for ever, with the lock: it would have stopped.
register_thread(t, n) ==
  /\ pc[t] = "idle"
  /\ \E e \in Entry : pid_arena[e].first = 0
  /\ Cardinality({e \in Entry : pid_arena[e].first # 0}) < MaxEntries
  /\ pid_arena' = [pid_arena EXCEPT ![FirstEntry(pid[t], {0})] =
                     [first |-> pid[t], second |-> n]]
  /\ number' = [number EXCEPT ![t] = IF @ = NULL THEN n ELSE @]
  /\ UNCHANGED <<enabled, arenas, header, buffers, held, pc, arena, block, asked, kept>>

\* Every thread is taken out of the table, those in a call too.
unregister ==
  /\ \E t \in Thread : pc[t] = "idle"
  /\ pid_arena' = [e \in Entry |-> NoEntry]
  /\ number' = [t \in Thread |-> NULL]
  /\ UNCHANGED <<enabled, arenas, header, buffers, held, pc, arena, block, asked, kept>>

\* Operators named Mut_... are plausible mistakes in the code.

\* Conflicts are not followed.
Mut_no_probing(t) == pid_arena[Probe(pid[t], 0)].second

\* The table is searched without the lock; an empty entry says arena 0.  The search
\* is one step: what it finds while register_thread or unregister is half through an
\* entry is left out.
get_arena_id(t) == pid_arena[FirstEntry(pid[t], {pid[t], 0})].second

\* It goes round for ever in a full table that has not the thread.
SearchEnds(t) == \E e \in Entry : pid_arena[e].first \in {pid[t], 0}

\* A block as large as the request will not do, unless it is of the largest size.
Mut_strictly_larger(size) ==
  Min({s \in SizeId : size < BlockSizes[s] \/ s = Len(BlockSizes)})

get_size_id(size) == Min({s \in SizeId : size <= BlockSizes[s]})
-----------------------------------------------------------------------------
(* alloc and free *)

Arena(t) == arenas[arena[t][1]][arena[t][2]]
SetArena(t, a) == arenas' = [arenas EXCEPT ![arena[t][1]][arena[t][2]] = a]

\* The bounds, counting what the threads in alloc may still take.
Pending == Cardinality({t \in Thread : pc[t] = "alloc"})
InBound(head) ==
  /\ head = NULL => Len(buffers) + Pending < MaxBuffers
  /\ Cardinality(held) + Pending < MaxHeld

\* No other call is at work on the arena.
Alone(t, a) == \A u \in Thread \ {t} : pc[u] # "idle" => arena[u] # a

Pooled(size) == enabled /\ \E s \in SizeId : size <= BlockSizes[s]

\* The arena is found and its _head read.
alloc(t, size) ==
  LET a == <<get_arena_id(t), get_size_id(size)>> IN
  /\ pc[t] = "idle" /\ Pooled(size) /\ SearchEnds(t)
  /\ InBound(arenas[a[1]][a[2]]._head)
  /\ pc' = [pc EXCEPT ![t] = "alloc"]
  /\ arena' = [arena EXCEPT ![t] = a]
  /\ asked' = [asked EXCEPT ![t] = size]
  /\ block' = [block EXCEPT ![t] = arenas[a[1]][a[2]]._head]
  /\ kept' = (kept /\ Alone(t, a))
  /\ UNCHANGED <<enabled, pid_arena, arenas, header, buffers, held, number>>

\* The size is too large for the pool, or the pool is not yet in use.  What malloc
\* was asked for does not matter here.
alloc_malloc(t, size) ==
  \E n \in 1..MaxForeign :
    /\ pc[t] = "idle" /\ ~Pooled(size)
    /\ Cardinality(held) + Pending < MaxHeld
    /\ \A h \in held : h.block # <<0, n>>
    /\ held' = held \cup {[block |-> <<0, n>>, asked |-> 0]}
    /\ UNCHANGED <<enabled, pid_arena, arenas, header, buffers, pc, arena, block, asked, kept, number>>

\* warmup_finish or enable_thread_mem_pool is set.  Nothing in src/ sets them.
enable ==
  /\ ~enabled /\ enabled' = TRUE
  /\ UNCHANGED <<pid_arena, arenas, header, buffers, held, pc, arena, block, asked, kept, number>>

\* The call returns.
Return(t) ==
  /\ pc' = [pc EXCEPT ![t] = "idle"]
  /\ arena' = [arena EXCEPT ![t] = NULL]
  /\ block' = [block EXCEPT ![t] = NULL]
  /\ asked' = [asked EXCEPT ![t] = NULL]
  /\ UNCHANGED <<enabled, pid_arena, kept, number>>

HandOut(t, b) == held' = held \cup {[block |-> b, asked |-> asked[t]]} /\ Return(t)

\* The first block stays in the list.
Mut_no_unlink(t) ==
  /\ pc[t] = "alloc" /\ block[t] # NULL
  /\ HandOut(t, block[t])
  /\ UNCHANGED <<arenas, header, buffers>>

\* The free list has a block.
Pop(t) ==
  /\ pc[t] = "alloc" /\ block[t] # NULL
  /\ SetArena(t, [Arena(t) EXCEPT !._head = header[block[t]].next])
  /\ HandOut(t, block[t])
  /\ UNCHANGED <<header, buffers>>

\* The buffer is used up when it has no room for the block, header or not.
Mut_forget_header(s, left) == left < BlockSizes[s]

UsedUp(s, left) == left < Room(s)

\* It has none: the block is cut from the buffer, or from a new one.
Carve(t) ==
  LET s == arena[t][2]
      a == Arena(t)
      fresh == UsedUp(s, a._size_in_buffer)
      from == IF fresh THEN <<Len(buffers) + 1, 0>> ELSE a._buffer
      left == IF fresh THEN BlockSizes[s] * BUFFER_BLOCKS ELSE a._size_in_buffer
  IN /\ pc[t] = "alloc" /\ block[t] = NULL
     /\ buffers' = IF fresh THEN Append(buffers, left) ELSE buffers
     /\ header' = [b \in DOMAIN header \cup {from} |->
                     IF b = from THEN FreeBlock(BlockSizes[s], NULL) ELSE header[b]]
     /\ SetArena(t, [a EXCEPT !._buffer = <<from[1], from[2] + Room(s)>>,
                              !._size_in_buffer = IF left < Room(s) THEN 0 ELSE left - Room(s)])
     /\ HandOut(t, from)

\* What stands in front of a block as its size: in front of one of malloc's, anything
\* that makes it a block of some list, or get_size_id fails and ends the process.
SizeBefore(b) == IF b \in DOMAIN header THEN {header[b].size} ELSE {BlockSizes[s] : s \in SizeId}

\* A thread frees a block, its own or one given to it by another, into the arena
\* under its number that is for the size in front of the block.
free(t, h) ==
  \E size \in SizeBefore(h.block) :
    LET a == <<get_arena_id(t), get_size_id(size)>> IN
    /\ pc[t] = "idle" /\ SearchEnds(t)
    /\ held' = held \ {h}
    /\ pc' = [pc EXCEPT ![t] = "push"]
    /\ arena' = [arena EXCEPT ![t] = a]
    /\ block' = [block EXCEPT ![t] = h.block]
    /\ header' = [b \in DOMAIN header \cup {h.block} |->
                    IF b = h.block THEN FreeBlock(size, arenas[a[1]][a[2]]._head) ELSE header[b]]
    /\ kept' = (kept /\ h.block \in DOMAIN header /\ Alone(t, a))
    /\ UNCHANGED <<enabled, pid_arena, arenas, buffers, asked, number>>

Push(t) ==
  /\ pc[t] = "push"
  /\ SetArena(t, [Arena(t) EXCEPT !._head = block[t]])
  /\ Return(t)
  /\ UNCHANGED <<header, buffers, held>>
-----------------------------------------------------------------------------
Next ==
  \/ unregister \/ enable
  \/ \E t \in Thread :
       \/ \E n \in Number : register_thread(t, n)
       \/ \E size \in Request : alloc(t, size) \/ alloc_malloc(t, size)
       \/ \E h \in held : free(t, h)
       \/ Pop(t) \/ Carve(t) \/ Push(t)

Spec == Init /\ [][Next]_vars
=============================================================================
