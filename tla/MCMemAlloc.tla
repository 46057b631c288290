----------------------------- MODULE MCMemAlloc -----------------------------
(***************************************************************************)
(* What the pool owes to its callers.  Instance: two threads whose pids    *)
(* have the same place in pid_arena; three block sizes; buffers of three   *)
(* blocks' bytes, of which the headers take so much that fewer fit.        *)
(***************************************************************************)
EXTENDS MemAlloc

MCPid == [t \in Thread |-> 9 * (t + 1)]
MCBlockSizes == <<24, 64, 256>>

\* Of what follows when the conditions for the use of the pool are broken nothing is
\* said below, and TLC does not follow it.
Followed == kept

\* get_arena_id finds the number with which a thread registered, the first one if it
\* registered again, behind any others whose pids lead to the same place; and 0 for
\* a thread that has not registered since the last unregister (mem_alloc.cpp:74-112).
FindsOwn ==
  \A t \in Thread :
    IF number[t] # NULL THEN get_arena_id(t) = number[t]
    ELSE SearchEnds(t) => get_arena_id(t) = 0

InUse == {h.block : h \in held}

\* As long as no two calls meet in an arena and free is given blocks of the pool
\* only, a block is in one place: it is held at most once, and while it is held it
\* is neither the next block of a free list nor in the hands of a thread that is
\* about to hand it out or to put it back, and no two threads have the same in hand.
\* That is so whichever arenas the blocks are freed into, and while calls on
\* different arenas interleave (mem_alloc.cpp:32-58, 125-154).
NoBlockTwice ==
  kept =>
    /\ Cardinality(InUse) = Cardinality(held)
    /\ \A a \in DOMAIN arenas, s \in SizeId : arenas[a][s]._head \notin InUse
    /\ \A t \in Thread : block[t] \notin InUse
    /\ \A t, u \in Thread : t # u /\ block[t] # NULL => block[t] # block[u]

\* Under the same conditions a block of the pool is as large as its holder asked for,
\* however often it has been freed, into whichever arena: its header still tells the
\* list it belongs to (mem_alloc.cpp:114-136).
BlocksServe ==
  kept => \A h \in held : h.block \in DOMAIN header => h.asked <= header[h.block].size

SideBySide ==
  \A b \in DOMAIN header :
    LET end == b[2] + HEADER + header[b].size IN
    /\ end <= buffers[b[1]]
    /\ \A c \in DOMAIN header : c[1] = b[1] /\ c[2] > b[2] => c[2] >= end

\* Under the same conditions the blocks of a buffer, with their headers, lie side by
\* side inside it (mem_alloc.cpp:35-46).
BlocksFit == kept => SideBySide
=============================================================================
