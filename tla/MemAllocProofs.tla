--------------------------- MODULE MemAllocProofs ---------------------------
(***************************************************************************)
(* The proofs about the pool of mem_alloc.                                 *)
(*                                                                         *)
(* The way through the table of pids leads a thread to its own first entry *)
(* whatever the others do.  As long as no two calls meet in an arena, what *)
(* a call has read of its arena is what it still is.  The free lists are   *)
(* described without walking them: every block that is neither held nor in *)
(* the hands of a thread in free is the _head of at most one list or the   *)
(* next of at most one such block, never both, and all blocks of a list    *)
(* have its size.                                                          *)
(***************************************************************************)
EXTENDS MCMemAlloc, FiniteSetTheorems, WellFoundedInduction, TLAPS

Block == Nat \X Nat
ArenaType == [_head : Block \cup {NULL}, _buffer : Block, _size_in_buffer : Nat]
HeaderType == [size : Nat, next : Block \cup {NULL}]

\* Types of the pool's state.
PoolTypes ==
  /\ arenas \in [Number -> [SizeId -> ArenaType]]
  /\ DOMAIN header \subseteq Block /\ header \in [DOMAIN header -> HeaderType]
  /\ buffers \in Seq(Nat)
  /\ held \subseteq [block : Block, asked : Nat] /\ IsFiniteSet(held)
  /\ pc \in [Thread -> {"idle", "alloc", "push"}]
  /\ arena \in [Thread -> (Number \X SizeId) \cup {NULL}]
  /\ block \in [Thread -> Block \cup {NULL}]
  /\ asked \in [Thread -> Nat \cup {NULL}]

\* The way from t's hash leads to t's first entry before any other that would do.
Registered(t) ==
  \E d \in Entry :
    /\ pid_arena[Probe(pid[t], d)] = [first |-> pid[t], second |-> number[t]]
    /\ \A c \in Entry : c < d => pid_arena[Probe(pid[t], c)].first \notin {pid[t], 0}

\* The table: an empty entry stands for arena 0, and a thread without a number has no
\* entry.
TableOK ==
  /\ pid_arena \in [Entry -> [first : Nat, second : Number]]
  /\ number \in [Thread -> Number \cup {NULL}]
  /\ \A e \in Entry : pid_arena[e].first = 0 => pid_arena[e].second = 0
  /\ \A t \in Thread : number[t] # NULL => Registered(t)
  /\ \A t \in Thread : number[t] = NULL => \A e \in Entry : pid_arena[e].first # pid[t]

\* What a thread in alloc or free has in hand.  No other call changes its arena, so
\* what it has read of it is what it still is.
InCall(t) ==
  /\ pc[t] \in {"alloc", "push"} =>
       \E a \in Number, s \in SizeId :
         /\ arena[t] = <<a, s>>
         /\ pc[t] = "alloc" => block[t] = arenas[a][s]._head /\ asked[t] \in Nat
                               /\ asked[t] <= BlockSizes[s]
         /\ pc[t] = "push" => /\ block[t] \in DOMAIN header
                              /\ header[block[t]].size = BlockSizes[s]
                              /\ header[block[t]].next = arenas[a][s]._head
  /\ pc[t] \notin {"alloc", "push"} => block[t] = NULL

\* No two calls are at work on one arena.
Apart == \A t, u \in Thread : t # u /\ pc[t] # "idle" /\ pc[u] # "idle" => arena[t] # arena[u]

CallOK == Apart /\ \A t \in Thread : InCall(t)

\* The blocks in the hands of a thread in free, and those in the free lists.
Freeing == {block[t] : t \in {u \in Thread : pc[u] = "push"}}
Free == DOMAIN header \ (InUse \cup Freeing)

\* A block is held once, by someone who asked for no more, or being freed once.
HeldOK ==
  /\ \A h \in held : IF h.block \in DOMAIN header THEN h.asked <= header[h.block].size
                      ELSE h.block[1] = 0
  /\ \A g, h \in held : g.block = h.block => g = h
  /\ \A t \in Thread : pc[t] = "push" => block[t] \notin InUse
  /\ \A t, u \in Thread : pc[t] = "push" /\ pc[u] = "push" /\ block[t] = block[u] => t = u

\* The free lists share no block, and each has blocks of its size.
ListsOK ==
  /\ \A a \in Number, s \in SizeId : arenas[a][s]._head # NULL =>
       /\ arenas[a][s]._head \in Free
       /\ header[arenas[a][s]._head].size = BlockSizes[s]
       /\ \A b \in Number, r \in SizeId :
            arenas[b][r]._head = arenas[a][s]._head => a = b /\ s = r
  /\ \A b \in Free : header[b].next # NULL =>
       /\ header[b].next \in Free
       /\ header[header[b].next].size = header[b].size
       /\ \A a \in Number, s \in SizeId : arenas[a][s]._head # header[b].next
       /\ \A c \in Free : header[c].next = header[b].next => c = b
  /\ \A b \in DOMAIN header : \E s \in SizeId : header[b].size = BlockSizes[s]

End(b) == b[2] + HEADER + header[b].size

\* What is left of an arena's buffer lies beyond the blocks cut from it, and no
\* other arena cuts from that buffer.
BuffersOK ==
  /\ \A b \in DOMAIN header : b[1] \in 1..Len(buffers)
  /\ \A a \in Number, s \in SizeId : arenas[a][s]._size_in_buffer > 0 =>
       LET at == arenas[a][s]._buffer IN
       /\ at[1] \in 1..Len(buffers)
       /\ at[2] + arenas[a][s]._size_in_buffer <= buffers[at[1]]
       /\ \A b \in DOMAIN header : b[1] = at[1] => End(b) <= at[2]
       /\ \A c \in Number, r \in SizeId :
            arenas[c][r]._size_in_buffer > 0 /\ arenas[c][r]._buffer[1] = at[1]
            => c = a /\ r = s
  /\ SideBySide

\* The pool while its callers keep to the conditions.
PoolInv == PoolTypes /\ CallOK /\ HeldOK /\ ListsOK /\ BuffersOK

\* The inductive invariant.
Inv == TableOK /\ (kept => PoolInv)
-----------------------------------------------------------------------------
(* Number *)

Less == {ss \in Nat \X Nat : ss[1] < ss[2]}

\* The order in which the least number is found.
LEMMA LessIsWellFounded == IsWellFoundedOn(Less, Nat)
BY NatLessThanWellFounded DEF OpToRel, Less

\* A set of numbers has a smallest one.
LEMMA LeastOf ==
  ASSUME NEW S \in SUBSET Nat, S # {}
  PROVE  Min(S) \in S /\ \A y \in S : Min(S) <= y
<1>1. \E x \in S : \A y \in S : <<y, x>> \notin Less
  BY LessIsWellFounded, WFMin
<1>2. PICK x \in S : \A y \in S : <<y, x>> \notin Less
  BY <1>1
<1>3. \A y \in S : x <= y
  <2> TAKE y \in S
  <2>1. x \in Nat /\ y \in Nat /\ <<y, x>> \in Nat \X Nat
    OBVIOUS
  <2>2. ~(y < x)
    BY <1>2, <2>1 DEF Less
  <2> QED
    BY <2>1, <2>2
<1> QED
  BY <1>3 DEF Min

\* Room is the block with its header, rounded up.
LEMMA Sizes ==
  /\ SizeId \subseteq Nat /\ HEADER \in Nat /\ HEADER > 0
  /\ \A s \in SizeId : /\ BlockSizes[s] \in Nat /\ Room(s) \in Nat
                       /\ BlockSizes[s] * BUFFER_BLOCKS \in Nat
                       /\ Room(s) <= BlockSizes[s] * BUFFER_BLOCKS
                       /\ BlockSizes[s] + HEADER <= Room(s)
  /\ \A r, s \in SizeId : BlockSizes[r] = BlockSizes[s] => r = s
<1>1. SizeId \subseteq Nat /\ (\A s \in SizeId : BlockSizes[s] \in Nat)
  BY SizesAssumption DEF SizeId
<1>2. \A r, s \in SizeId : BlockSizes[r] = BlockSizes[s] => r = s
  <2> SUFFICES ASSUME NEW r \in SizeId, NEW s \in SizeId, BlockSizes[r] = BlockSizes[s], r # s
               PROVE  FALSE
    OBVIOUS
  <2>1. r < s \/ s < r
    BY <1>1
  <2> QED
    BY <1>1, <2>1, SizesAssumption
<1>3. ASSUME NEW s \in SizeId
      PROVE  Room(s) \in Nat /\ BlockSizes[s] + HEADER <= Room(s) /\ BlockSizes[s] * BUFFER_BLOCKS \in Nat
  <2>1. PICK x \in Nat, M \in Nat : x = BlockSizes[s] + HEADER /\ M = MEM_ALLIGN /\ M > 0
    BY <1>1, SizesAssumption
  <2>2. ((x + M - 1) \div M) * M >= x
    BY <2>1
  <2>3. (x + M - 1) \div M \in Nat /\ x + M - 1 \in Nat
    BY <2>1
  <2>4. PICK q \in Nat : q = (x + M - 1) \div M
    BY <2>3
  <2>5. q * M \in Nat
    OBVIOUS
  <2>6. Room(s) = q * M
    BY <2>1, <2>4 DEF Room
  <2>7. PICK a \in Nat, b \in Nat : a = BlockSizes[s] /\ b = BUFFER_BLOCKS
    BY <1>1, SizesAssumption
  <2>8. a * b \in Nat
    OBVIOUS
  <2> QED
    BY <2>1, <2>2, <2>4, <2>5, <2>6, <2>7, <2>8
<1> QED
  BY <1>1, <1>2, <1>3, SizesAssumption

\* get_size_id finds the first size that is large enough.
LEMMA SizeFound ==
  ASSUME NEW size \in Nat, \E s \in SizeId : size <= BlockSizes[s]
  PROVE  get_size_id(size) \in SizeId /\ size <= BlockSizes[get_size_id(size)]
<1> DEFINE S == {s \in SizeId : size <= BlockSizes[s]}
<1>1. S \in SUBSET Nat /\ S # {}
  BY Sizes
<1>2. Min(S) \in S
  BY <1>1, LeastOf
<1> QED
  BY <1>2 DEF get_size_id

\* For the size of a block it is the block's list.
LEMMA SizeOf ==
  ASSUME NEW s \in SizeId
  PROVE  get_size_id(BlockSizes[s]) = s
<1> DEFINE S == {r \in SizeId : BlockSizes[s] <= BlockSizes[r]}
<1>0. \A r \in SizeId : r \in Nat /\ BlockSizes[r] \in Nat
  BY Sizes
<1>1. S \in SUBSET Nat /\ s \in S
  BY <1>0
<1>2. Min(S) \in S /\ Min(S) <= s
  BY <1>1, LeastOf
<1>3. PICK m \in SizeId : m = Min(S) /\ BlockSizes[s] <= BlockSizes[m] /\ m <= s
  BY <1>2
<1>4. ~(m < s)
  <2>1. m < s => BlockSizes[m] < BlockSizes[s]
    BY SizesAssumption
  <2> QED
    BY <1>0, <1>3, <2>1
<1>5. m = s
  BY <1>3, <1>4, Sizes
<1> QED
  BY <1>3, <1>5 DEF get_size_id
-----------------------------------------------------------------------------
(* The table of pids *)

\* Probing goes through the whole table.
LEMMA ProbeAll ==
  ASSUME NEW p \in Nat
  PROVE  /\ \A d \in Entry : Probe(p, d) \in Entry
         /\ \A e \in Entry : \E d \in Entry : Probe(p, d) = e
<1>1. PICK B \in Nat : B = _bucket_cnt /\ B > 0
  BY PoolAssumption DEF _bucket_cnt
<1>2. Entry = 0..(B - 1)
  BY <1>1 DEF Entry
<1>3. ASSUME NEW d \in 0..(B - 1) PROVE (p + d) % B \in 0..(B - 1)
  BY <1>1
<1>4. ASSUME NEW e \in 0..(B - 1) PROVE \E d \in 0..(B - 1) : (p + d) % B = e
  <2>1. PICK q \in Nat, r \in 0..(B - 1) : p = B * q + r
    <3>1. p \div B \in Nat /\ p % B \in 0..(B - 1) /\ p = B * (p \div B) + (p % B)
      BY <1>1
    <3> QED
      BY <3>1
  <2>2. CASE r <= e
    <3>1. (B * q + e) % B = e
      BY <1>1
    <3>2. p + (e - r) = B * q + e /\ e - r \in 0..(B - 1)
      BY <1>1, <2>1, <2>2
    <3> QED
      BY <3>1, <3>2
  <2>3. CASE e < r
    <3>1. (B * (q + 1) + e) % B = e
      BY <1>1
    <3>2. p + (e - r + B) = B * (q + 1) + e /\ e - r + B \in 0..(B - 1)
      BY <1>1, <2>1, <2>3
    <3> QED
      BY <3>1, <3>2
  <2> QED
    BY <2>2, <2>3
<1> QED
  BY <1>1, <1>2, <1>3, <1>4 DEF Probe

\* The first entry on the way with one of the pids, if there is one.
LEMMA FirstFound ==
  ASSUME NEW p \in Nat, NEW pids, \E e \in Entry : pid_arena[e].first \in pids
  PROVE  \E d \in Entry :
           /\ FirstEntry(p, pids) = Probe(p, d) /\ Probe(p, d) \in Entry
           /\ pid_arena[Probe(p, d)].first \in pids
           /\ \A c \in Entry : pid_arena[Probe(p, c)].first \in pids => d <= c
<1> DEFINE S == {d \in Entry : pid_arena[Probe(p, d)].first \in pids}
<1>1. S \in SUBSET Nat
  BY DEF Entry
<1>2. S # {}
  BY ProbeAll
<1>3. Min(S) \in S /\ \A c \in S : Min(S) <= c
  BY <1>1, <1>2, LeastOf
<1>4. PICK d : d = Min(S)
  OBVIOUS
<1>5. d \in Entry /\ pid_arena[Probe(p, d)].first \in pids
  BY <1>3, <1>4
<1>6. \A c \in Entry : pid_arena[Probe(p, c)].first \in pids => d <= c
  BY <1>3, <1>4
<1>7. FirstEntry(p, pids) = Probe(p, d)
  BY <1>4 DEF FirstEntry
<1> QED
  BY <1>5, <1>6, <1>7, ProbeAll

\* Pids are not 0, and those of two threads differ.
LEMMA Pids ==
  /\ \A t \in Thread : pid[t] \in Nat /\ pid[t] # 0
  /\ \A t, u \in Thread : t # u => pid[t] # pid[u]
BY PoolAssumption

\* A search that ends, ends at an entry of the thread or at an empty one.
LEMMA ArenaFound ==
  ASSUME TableOK, NEW t \in Thread, SearchEnds(t)
  PROVE  \E e \in Entry : /\ get_arena_id(t) = pid_arena[e].second
                          /\ get_arena_id(t) \in Number
                          /\ pid_arena[e].first \in {pid[t], 0}
<1>1. PICK d \in Entry : /\ FirstEntry(pid[t], {pid[t], 0}) = Probe(pid[t], d)
                         /\ Probe(pid[t], d) \in Entry
                         /\ pid_arena[Probe(pid[t], d)].first \in {pid[t], 0}
  BY Pids, FirstFound DEF SearchEnds
<1>2. pid_arena[Probe(pid[t], d)].second \in Number
  BY <1>1 DEF TableOK
<1> QED
  BY <1>1, <1>2 DEF get_arena_id

\* A registered thread is led to the number it registered with first.
LEMMA OwnArena ==
  ASSUME NEW t \in Thread, Registered(t)
  PROVE  get_arena_id(t) = number[t]
<1>1. PICK d \in Entry :
        /\ pid_arena[Probe(pid[t], d)] = [first |-> pid[t], second |-> number[t]]
        /\ \A c \in Entry : c < d => pid_arena[Probe(pid[t], c)].first \notin {pid[t], 0}
  BY DEF Registered
<1>2. pid[t] \in Nat /\ Probe(pid[t], d) \in Entry
  BY ProbeAll, Pids
<1>3. pid_arena[Probe(pid[t], d)].first \in {pid[t], 0}
      /\ pid_arena[Probe(pid[t], d)].second = number[t]
  BY <1>1
<1>4. PICK b \in Entry :
        /\ FirstEntry(pid[t], {pid[t], 0}) = Probe(pid[t], b)
        /\ pid_arena[Probe(pid[t], b)].first \in {pid[t], 0}
        /\ \A c \in Entry : pid_arena[Probe(pid[t], c)].first \in {pid[t], 0} => b <= c
  BY <1>2, <1>3, FirstFound
<1>5. b <= d /\ ~(b < d) /\ b \in Nat /\ d \in Nat
  BY <1>1, <1>3, <1>4 DEF Entry
<1>6. b = d
  BY <1>5
<1> QED
  BY <1>3, <1>4, <1>6 DEF get_arena_id

\* What the table says is what get_arena_id finds.
LEMMA TableFinds == ASSUME TableOK PROVE FindsOwn
<1>1. ASSUME NEW t \in Thread, number[t] # NULL PROVE get_arena_id(t) = number[t]
  BY <1>1, OwnArena DEF TableOK
<1>2. ASSUME NEW t \in Thread, number[t] = NULL, SearchEnds(t) PROVE get_arena_id(t) = 0
  <2>1. PICK e \in Entry : get_arena_id(t) = pid_arena[e].second /\ pid_arena[e].first \in {pid[t], 0}
    BY <1>2, ArenaFound
  <2>2. pid_arena[e].first = 0
    BY <1>2, <2>1 DEF TableOK
  <2> QED
    BY <2>1, <2>2 DEF TableOK
<1> QED
  BY <1>1, <1>2 DEF FindsOwn

\* An empty entry.
LEMMA EmptyEntry ==
  NoEntry.first = 0 /\ NoEntry.second = 0 /\ NoEntry \in [first : Nat, second : Number]
BY PoolAssumption DEF NoEntry, Number

\* The new entry is on nobody's way: those lead over entries that are taken.
LEMMA RegisterStep ==
  ASSUME TableOK, NEW t \in Thread, NEW n \in Number, register_thread(t, n)
  PROVE  TableOK'
<1>1. PICK d \in Entry :
        /\ FirstEntry(pid[t], {0}) = Probe(pid[t], d) /\ Probe(pid[t], d) \in Entry
        /\ pid_arena[Probe(pid[t], d)].first \in {0}
        /\ \A c \in Entry : pid_arena[Probe(pid[t], c)].first \in {0} => d <= c
  <2>1. \E e \in Entry : pid_arena[e].first \in {0}
    BY DEF register_thread
  <2> QED
    BY <2>1, Pids, FirstFound
<1>2. PICK e \in Entry : e = Probe(pid[t], d) /\ pid_arena[e].first = 0
  BY <1>1
<1>3. PICK new \in [first : Nat, second : Number] :
        new = [first |-> pid[t], second |-> n] /\ new.first = pid[t] /\ new.second = n
  <2>1. PICK x : x = [first |-> pid[t], second |-> n]
    OBVIOUS
  <2>2. x \in [first : Nat, second : Number] /\ x.first = pid[t] /\ x.second = n
    BY <2>1, Pids
  <2> QED
    BY <2>1, <2>2
<1>4. /\ pid_arena' = [pid_arena EXCEPT ![e] = new]
      /\ number' = [number EXCEPT ![t] = IF @ = NULL THEN n ELSE @]
  BY <1>1, <1>2, <1>3 DEF register_thread
<1>5. /\ pid_arena' \in [Entry -> [first : Nat, second : Number]]
      /\ pid_arena'[e] = new
      /\ \A f \in Entry : f # e => pid_arena'[f] = pid_arena[f]
  BY <1>4 DEF TableOK
<1>6. n # NULL
  BY NullIsNoBlock DEF Number
<1>7. /\ number' \in [Thread -> Number \cup {NULL}]
      /\ number'[t] = (IF number[t] = NULL THEN n ELSE number[t]) /\ number'[t] # NULL
      /\ \A u \in Thread : u # t => number'[u] = number[u]
  BY <1>4, <1>6 DEF TableOK
<1>8. \A f \in Entry : pid_arena'[f].first = 0 => pid_arena'[f].second = 0
  BY <1>3, <1>5, Pids DEF TableOK
<1>9. ASSUME NEW u \in Thread, Registered(u), number'[u] = number[u] PROVE Registered(u)'
  <2>1. PICK k \in Entry :
          /\ pid_arena[Probe(pid[u], k)] = [first |-> pid[u], second |-> number[u]]
          /\ \A c \in Entry : c < k => pid_arena[Probe(pid[u], c)].first \notin {pid[u], 0}
    BY <1>9 DEF Registered
  <2>2. pid_arena[Probe(pid[u], k)].first = pid[u] /\ pid[u] # 0
    BY <2>1, Pids
  <2>3. \A c \in Entry : Probe(pid[u], c) \in Entry
    BY Pids, ProbeAll
  <2>4. pid_arena'[Probe(pid[u], k)] = pid_arena[Probe(pid[u], k)]
    BY <1>2, <1>5, <2>2, <2>3
  <2>5. ASSUME NEW c \in Entry, c < k PROVE pid_arena'[Probe(pid[u], c)].first \notin {pid[u], 0}
    BY <1>2, <1>5, <2>1, <2>3, <2>5
  <2> QED
    BY <1>9, <2>1, <2>4, <2>5 DEF Registered
<1>10. ASSUME number[t] = NULL PROVE Registered(t)'
  <2>1. ASSUME NEW c \in Entry, c < d PROVE pid_arena'[Probe(pid[t], c)].first \notin {pid[t], 0}
    <3>1. Probe(pid[t], c) \in Entry
      BY Pids, ProbeAll
    <3>2. pid_arena[Probe(pid[t], c)].first # 0
      <4>1. c \in Nat /\ d \in Nat
        BY DEF Entry
      <4> QED
        BY <1>1, <2>1, <4>1
    <3>3. pid_arena[Probe(pid[t], c)].first # pid[t]
      BY <1>10, <3>1 DEF TableOK
    <3> QED
      BY <1>2, <1>5, <3>1, <3>2, <3>3
  <2>2. pid_arena'[Probe(pid[t], d)] = [first |-> pid[t], second |-> number'[t]]
    BY <1>2, <1>3, <1>5, <1>7, <1>10
  <2> QED
    BY <2>1, <2>2 DEF Registered
<1>11. ASSUME NEW u \in Thread, number'[u] # NULL PROVE Registered(u)'
  <2>1. CASE u = t /\ number[t] = NULL
    BY <1>10, <2>1
  <2>2. CASE ~(u = t /\ number[t] = NULL)
    <3>1. number'[u] = number[u] /\ Registered(u)
      BY <1>7, <1>11, <2>2 DEF TableOK
    <3> QED
      BY <1>9, <3>1
  <2> QED
    BY <2>1, <2>2
<1>12. ASSUME NEW u \in Thread, number'[u] = NULL, NEW f \in Entry
       PROVE  pid_arena'[f].first # pid[u]
  <2>1. u # t /\ number[u] = NULL /\ pid[u] # pid[t]
    BY <1>7, <1>12, Pids
  <2> QED
    BY <1>3, <1>5, <2>1 DEF TableOK
<1> QED
  BY <1>5, <1>7, <1>8, <1>11, <1>12 DEF TableOK

\* The table is written by register_thread and unregister only.
LEMMA TableStep == ASSUME TableOK, [Next]_vars PROVE TableOK'
<1>1. CASE UNCHANGED <<pid_arena, number>>
  BY <1>1 DEF TableOK, Registered
<1>2. CASE unregister
  <2>1. pid_arena' = [e \in Entry |-> NoEntry] /\ number' = [t \in Thread |-> NULL]
    BY <1>2 DEF unregister
  <2>2. \A e \in Entry : pid_arena'[e] = NoEntry
    BY <2>1
  <2> QED
    BY <2>1, <2>2, EmptyEntry, Pids DEF TableOK
<1> QED
  BY <1>1, <1>2, RegisterStep
     DEF Next, vars, enable, alloc, alloc_malloc, free, Pop, Carve, Push, HandOut, Return
-----------------------------------------------------------------------------
(* What steps leave alone *)

\* The arenas after a change of one of them.
LEMMA OneArena ==
  ASSUME PoolTypes, NEW t \in Number, NEW s \in SizeId, NEW x \in ArenaType,
         arenas' = [arenas EXCEPT ![t][s] = x]
  PROVE  /\ arenas' \in [Number -> [SizeId -> ArenaType]]
         /\ arenas'[t][s] = x
         /\ \A a \in Number, r \in SizeId : a # t \/ r # s => arenas'[a][r] = arenas[a][r]
BY DEF PoolTypes

\* Another thread's call, when its arena and the block it frees stay as they are.
LEMMA OtherCall ==
  ASSUME NEW u \in Thread, InCall(u), pc'[u] = pc[u], arena'[u] = arena[u],
         block'[u] = block[u], asked'[u] = asked[u],
         \A a \in Number, s \in SizeId :
           pc[u] # "idle" /\ arena[u] = <<a, s>> => arenas'[a][s] = arenas[a][s],
         pc[u] = "push" => block[u] \in DOMAIN header' /\ header'[block[u]] = header[block[u]]
  PROVE  InCall(u)'
BY DEF InCall

\* Blocks keep their size, and no more is cut from a buffer.
LEMMA BuffersFrame ==
  ASSUME BuffersOK, buffers' = buffers, DOMAIN header' = DOMAIN header,
         \A b \in DOMAIN header : header'[b].size = header[b].size,
         \A a \in Number, s \in SizeId :
           /\ arenas'[a][s]._buffer = arenas[a][s]._buffer
           /\ arenas'[a][s]._size_in_buffer = arenas[a][s]._size_in_buffer
  PROVE  BuffersOK'
<1>1. \A b \in DOMAIN header : End(b)' = End(b)
  BY DEF End
<1>2. SideBySide'
  BY DEF BuffersOK, SideBySide
<1>3. \A b \in DOMAIN header' : b[1] \in 1..Len(buffers')
  BY DEF BuffersOK
<1>4. ASSUME NEW a \in Number, NEW s \in SizeId, arenas'[a][s]._size_in_buffer > 0
      PROVE  LET at == arenas'[a][s]._buffer IN
             /\ at[1] \in 1..Len(buffers')
             /\ at[2] + arenas'[a][s]._size_in_buffer <= buffers'[at[1]]
             /\ \A b \in DOMAIN header' : b[1] = at[1] => End(b)' <= at[2]
             /\ \A c \in Number, r \in SizeId :
                  arenas'[c][r]._size_in_buffer > 0 /\ arenas'[c][r]._buffer[1] = at[1]
                  => c = a /\ r = s
  BY <1>1, <1>4 DEF BuffersOK
<1> QED
  BY <1>2, <1>3, <1>4 DEF BuffersOK
-----------------------------------------------------------------------------
(* The start, and steps outside of the pool *)

\* At first the arenas and the lists are empty.
LEMMA InitPool == Init => PoolInv
<1> SUFFICES ASSUME Init PROVE PoolInv
  OBVIOUS
<1> USE DEF Init
<1>1. /\ header = <<>> /\ buffers = <<>> /\ held = {} /\ InUse = {}
      /\ \A t \in Thread : pc[t] = "idle" /\ block[t] = NULL
  BY DEF InUse
<1>2. arenas = [a \in Number |-> [s \in SizeId |-> EmptyArena]]
  BY DEF init_thread_arena, Number
<1>3. EmptyArena \in ArenaType /\ EmptyArena._head = NULL /\ EmptyArena._size_in_buffer = 0
  BY DEF EmptyArena, ArenaType, Block
<1>4. \A a \in Number, s \in SizeId : arenas[a][s] = EmptyArena
  BY <1>2
<1>5. DOMAIN header = {} /\ header \in [{} -> HeaderType]
  BY <1>1
<1>6. PoolTypes
  BY <1>1, <1>2, <1>3, <1>5, FS_EmptySet DEF PoolTypes
<1>8. CallOK
  BY <1>1 DEF CallOK, InCall, Apart
<1>9. HeldOK
  BY <1>1 DEF HeldOK
<1>10. ListsOK
  BY <1>3, <1>4, <1>5 DEF ListsOK, Free
<1>11. BuffersOK
  BY <1>3, <1>4, <1>5 DEF BuffersOK, SideBySide
<1> QED
  BY <1>6, <1>8, <1>9, <1>10, <1>11 DEF PoolInv

\* The pool stays as it is.
LEMMA PoolFrame ==
  ASSUME PoolInv, UNCHANGED <<arenas, header, buffers, held, pc, arena, block, asked>>
  PROVE  PoolInv'
<1> USE DEF PoolInv
<1>1. PoolTypes'
  BY DEF PoolTypes
<1>2. CallOK'
  BY DEF CallOK, InCall, Apart
<1>3. InUse' = InUse /\ Freeing' = Freeing /\ Free' = Free
  BY DEF InUse, Freeing, Free
<1>4. HeldOK'
  BY <1>3 DEF HeldOK
<1>5. ListsOK'
  BY <1>3 DEF ListsOK
<1>6. BuffersOK'
  BY BuffersFrame
<1> QED
  BY <1>1, <1>2, <1>4, <1>5, <1>6

\* A block that malloc has made is held, and is none of the pool's.
LEMMA MallocStep ==
  ASSUME PoolInv, NEW t \in Thread, NEW size \in Request, alloc_malloc(t, size)
  PROVE  PoolInv'
<1> USE DEF PoolInv
<1>1. PICK n \in 1..MaxForeign :
        /\ \A h \in held : h.block # <<0, n>>
        /\ held' = held \cup {[block |-> <<0, n>>, asked |-> 0]}
        /\ UNCHANGED <<arenas, header, buffers, pc, arena, block, asked>>
  BY DEF alloc_malloc
<1>2. PICK b \in Block : b = <<0, n>> /\ b[1] = 0
  <2>1. <<0, n>> \in Block
    BY SizesAssumption DEF Block
  <2> QED
    BY <2>1
<1>3. PICK h \in [block : Block, asked : Nat] :
        h = [block |-> <<0, n>>, asked |-> 0] /\ h.block = b /\ h.asked = 0
  <2>1. PICK x : x = [block |-> <<0, n>>, asked |-> 0]
    OBVIOUS
  <2>2. x \in [block : Block, asked : Nat] /\ x.block = b /\ x.asked = 0
    BY <1>2, <2>1
  <2> QED
    BY <2>1, <2>2
<1>4. held' = held \cup {h}
  BY <1>1, <1>3
<1>5. b \notin InUse
  BY <1>1, <1>2 DEF InUse
<1>6. b \notin DOMAIN header
  <2>1. b \in DOMAIN header => b[1] \in 1..Len(buffers)
    BY DEF BuffersOK
  <2>2. Len(buffers) \in Nat
    BY DEF PoolTypes
  <2> QED
    BY <1>2, <2>1, <2>2
<1>7. PoolTypes'
  <2>1. IsFiniteSet(held') /\ held' \subseteq [block : Block, asked : Nat]
    BY <1>4, FS_AddElement DEF PoolTypes
  <2> QED
    BY <1>1, <2>1 DEF PoolTypes
<1>8. CallOK'
  BY <1>1 DEF CallOK, InCall, Apart
<1>9. InUse' = InUse \cup {b} /\ Freeing' = Freeing
  BY <1>1, <1>3, <1>4 DEF InUse, Freeing
<1>10. Free' = Free
  BY <1>1, <1>6, <1>9 DEF Free
<1>11. HeldOK'
  <2>1. \A g \in held' : IF g.block \in DOMAIN header' THEN g.asked <= header'[g.block].size
                         ELSE g.block[1] = 0
    BY <1>1, <1>2, <1>3, <1>4, <1>6 DEF HeldOK
  <2>2. \A g \in held : g.block # b
    BY <1>1, <1>2
  <2>3. \A f, g \in held' : f.block = g.block => f = g
    BY <1>3, <1>4, <2>2 DEF HeldOK
  <2>4. \A u \in Thread : pc'[u] = "push" => block'[u] \notin InUse'
    <3>1. \A u \in Thread : pc[u] = "push" => block[u] \in DOMAIN header
      BY DEF CallOK, InCall
    <3> QED
      BY <1>1, <1>6, <1>9, <3>1 DEF HeldOK
  <2>5. \A u, w \in Thread : pc'[u] = "push" /\ pc'[w] = "push" /\ block'[u] = block'[w] => u = w
    BY <1>1 DEF HeldOK
  <2> QED
    BY <2>1, <2>3, <2>4, <2>5 DEF HeldOK
<1>12. ListsOK'
  BY <1>1, <1>10 DEF ListsOK
<1>13. BuffersOK'
  BY <1>1, BuffersFrame
<1> QED
  BY <1>7, <1>8, <1>11, <1>12, <1>13
-----------------------------------------------------------------------------
(* alloc and free *)

\* The call that t begins on arena <<a, s>> has it for itself.
LEMMA ApartStep ==
  ASSUME PoolTypes, Apart, NEW t \in Thread, NEW a \in Number, NEW s \in SizeId, Alone(t, <<a, s>>),
         pc[t] = "idle", arena' = [arena EXCEPT ![t] = <<a, s>>],
         \A u \in Thread \ {t} : pc'[u] = pc[u]
  PROVE  /\ Apart'
         /\ \A u \in Thread \ {t} : pc[u] # "idle" => arena[u] # <<a, s>>
BY DEF PoolTypes, Apart, Alone

\* The call that t ends leaves the others apart.
LEMMA ApartEnd ==
  ASSUME Apart, NEW t \in Thread, pc'[t] = "idle",
         \A u \in Thread : u # t => pc'[u] = pc[u] /\ arena'[u] = arena[u]
  PROVE  Apart'
BY DEF Apart

\* The head of the list is read into block[t].
LEMMA AllocStep ==
  ASSUME PoolInv, TableOK, kept', NEW t \in Thread, NEW size \in Request, alloc(t, size)
  PROVE  PoolInv'
<1> USE DEF PoolInv
<1>1. size \in Nat /\ \E s \in SizeId : size <= BlockSizes[s]
  BY SizesAssumption DEF alloc, Pooled
<1>2. PICK s \in SizeId : s = get_size_id(size) /\ size <= BlockSizes[s]
  BY <1>1, SizeFound
<1>3. PICK a \in Number : a = get_arena_id(t)
  BY ArenaFound DEF alloc
<1>4. PICK b \in Block \cup {NULL} : b = arenas[a][s]._head
  BY DEF PoolTypes, ArenaType
<1>5. /\ pc[t] = "idle"
      /\ pc' = [pc EXCEPT ![t] = "alloc"]
      /\ arena' = [arena EXCEPT ![t] = <<a, s>>]
      /\ asked' = [asked EXCEPT ![t] = size]
      /\ block' = [block EXCEPT ![t] = b]
      /\ Alone(t, <<a, s>>)
      /\ UNCHANGED <<arenas, header, buffers, held>>
  BY <1>2, <1>3, <1>4 DEF alloc
<1>6. /\ pc'[t] = "alloc" /\ arena'[t] = <<a, s>> /\ asked'[t] = size /\ block'[t] = b
      /\ \A u \in Thread : u # t =>
           /\ pc'[u] = pc[u] /\ arena'[u] = arena[u]
           /\ asked'[u] = asked[u] /\ block'[u] = block[u]
      /\ \A u \in Thread : pc'[u] = "push" <=> pc[u] = "push"
      /\ \A u \in Thread : pc[u] = "push" => block'[u] = block[u]
  BY <1>5 DEF PoolTypes
<1>7. PoolTypes'
  BY <1>1, <1>5 DEF PoolTypes
<1>8. CallOK'
  <2>1. InCall(t)'
    BY <1>1, <1>2, <1>4, <1>5, <1>6 DEF InCall
  <2>2. ASSUME NEW u \in Thread, u # t PROVE InCall(u)'
    <3>1. InCall(u) /\ (pc[u] = "push" => block[u] \in DOMAIN header)
      BY DEF CallOK, InCall
    <3> QED
      BY <1>5, <1>6, <2>2, <3>1, OtherCall
  <2>3. Apart'
    BY <1>5, <1>6, ApartStep DEF CallOK
  <2> QED
    BY <2>1, <2>2, <2>3 DEF CallOK
<1>10. InUse' = InUse /\ Freeing' = Freeing /\ Free' = Free
  BY <1>5, <1>6 DEF InUse, Freeing, Free
<1>11. HeldOK'
  BY <1>5, <1>6, <1>10 DEF HeldOK
<1>12. ListsOK'
  BY <1>5, <1>10 DEF ListsOK
<1>13. BuffersOK'
  BY <1>5, BuffersFrame
<1> QED
  BY <1>7, <1>8, <1>11, <1>12, <1>13

\* A block is handed out: it was in a free list, or did not exist.
LEMMA HandedOut ==
  ASSUME PoolInv, NEW t \in Thread, NEW b \in Block, HandOut(t, b),
         pc[t] = "alloc", asked[t] \in Nat, b \notin InUse \cup Freeing,
         b \in DOMAIN header', asked[t] <= header'[b].size,
         DOMAIN header \subseteq DOMAIN header', DOMAIN header' \subseteq DOMAIN header \cup {b},
         \A c \in DOMAIN header : header'[c] = header[c]
  PROVE  /\ held' \subseteq [block : Block, asked : Nat] /\ IsFiniteSet(held')
         /\ pc' \in [Thread -> {"idle", "alloc", "push"}]
         /\ arena' \in [Thread -> (Number \X SizeId) \cup {NULL}]
         /\ block' \in [Thread -> Block \cup {NULL}]
         /\ asked' \in [Thread -> Nat \cup {NULL}]
         /\ HeldOK' /\ Apart'
         /\ InUse' = InUse \cup {b} /\ Freeing' = Freeing
         /\ pc'[t] = "idle" /\ block'[t] = NULL
         /\ \A u \in Thread : u # t =>
              /\ pc'[u] = pc[u] /\ arena'[u] = arena[u]
              /\ asked'[u] = asked[u] /\ block'[u] = block[u]
<1> USE DEF PoolInv
<1>1. PICK h \in [block : Block, asked : Nat] :
        h = [block |-> b, asked |-> asked[t]] /\ h.block = b /\ h.asked = asked[t]
  <2>1. PICK x : x = [block |-> b, asked |-> asked[t]]
    OBVIOUS
  <2>2. x \in [block : Block, asked : Nat] /\ x.block = b /\ x.asked = asked[t]
    BY <2>1
  <2> QED
    BY <2>1, <2>2
<1>2. /\ held' = held \cup {h}
      /\ pc' = [pc EXCEPT ![t] = "idle"]
      /\ arena' = [arena EXCEPT ![t] = NULL]
      /\ block' = [block EXCEPT ![t] = NULL]
      /\ asked' = [asked EXCEPT ![t] = NULL]
  BY <1>1 DEF HandOut, Return
<1>3. /\ pc' \in [Thread -> {"idle", "alloc", "push"}]
      /\ arena' \in [Thread -> (Number \X SizeId) \cup {NULL}]
      /\ block' \in [Thread -> Block \cup {NULL}]
      /\ asked' \in [Thread -> Nat \cup {NULL}]
      /\ pc'[t] = "idle" /\ block'[t] = NULL
      /\ \A u \in Thread : u # t =>
           /\ pc'[u] = pc[u] /\ arena'[u] = arena[u]
           /\ asked'[u] = asked[u] /\ block'[u] = block[u]
  BY <1>2 DEF PoolTypes
<1>4. held' \subseteq [block : Block, asked : Nat]
  BY <1>2 DEF PoolTypes
<1>5. IsFiniteSet(held')
  BY <1>2, FS_AddElement DEF PoolTypes
<1>6. Apart'
  BY <1>3, ApartEnd DEF CallOK
<1>7. InUse' = InUse \cup {b}
  BY <1>1, <1>2 DEF InUse
<1>8. /\ Freeing' = Freeing
      /\ \A u \in Thread : (pc'[u] = "push" <=> pc[u] = "push")
                           /\ (pc[u] = "push" => block'[u] = block[u] /\ block[u] \in Freeing)
  BY <1>3 DEF Freeing
<1>9. HeldOK'
  <2>1. \A k \in held : k.block # b
    BY DEF InUse
  <2>2. \A k \in held' : IF k.block \in DOMAIN header' THEN k.asked <= header'[k.block].size
                         ELSE k.block[1] = 0
    BY <1>1, <1>2, <2>1 DEF HeldOK
  <2>3. \A g, k \in held' : g.block = k.block => g = k
    BY <1>1, <1>2, <2>1 DEF HeldOK
  <2>4. \A u \in Thread : pc'[u] = "push" => block'[u] \notin InUse'
    BY <1>7, <1>8 DEF HeldOK
  <2>5. \A u, w \in Thread : pc'[u] = "push" /\ pc'[w] = "push" /\ block'[u] = block'[w] => u = w
    BY <1>8 DEF HeldOK
  <2> QED
    BY <2>2, <2>3, <2>4, <2>5 DEF HeldOK
<1> QED
  BY <1>3, <1>4, <1>5, <1>6, <1>7, <1>8, <1>9

\* The list loses its head; nothing in it led there.
LEMMA PopStep == ASSUME PoolInv, NEW t \in Thread, Pop(t) PROVE PoolInv'
<1> USE DEF PoolInv
<1>1. PICK o \in Number, s \in SizeId :
        /\ arena[t] = <<o, s>> /\ block[t] = arenas[o][s]._head
        /\ asked[t] \in Nat /\ asked[t] <= BlockSizes[s]
  BY DEF Pop, CallOK, InCall
<1>2. \A u \in Thread : u # t /\ pc[u] # "idle" => arena[u] # <<o, s>>
  BY <1>1 DEF Pop, CallOK, Apart
<1>3. PICK b \in Free : b = block[t] /\ b = arenas[o][s]._head /\ header[b].size = BlockSizes[s]
  BY <1>1, <1>2 DEF Pop, ListsOK
<1>4. b \in Block /\ b \in DOMAIN header /\ b \notin InUse \cup Freeing
  BY DEF Free, PoolTypes
<1>5. PICK n \in Block \cup {NULL} : n = header[b].next
  BY <1>4 DEF PoolTypes, HeaderType
<1>6. arenas[o][s] \in ArenaType
  BY <1>2 DEF PoolTypes
<1>7. PICK x \in ArenaType :
        /\ x = [arenas[o][s] EXCEPT !._head = n] /\ x._head = n
        /\ x._buffer = arenas[o][s]._buffer
        /\ x._size_in_buffer = arenas[o][s]._size_in_buffer
  <2> DEFINE y == [arenas[o][s] EXCEPT !._head = n]
  <2>1. /\ y \in ArenaType /\ y._head = n /\ y._buffer = arenas[o][s]._buffer
        /\ y._size_in_buffer = arenas[o][s]._size_in_buffer
    BY <1>6 DEF ArenaType
  <2> HIDE DEF y
  <2> QED
    BY <2>1 DEF y
<1>8. /\ pc[t] = "alloc" /\ HandOut(t, b) /\ UNCHANGED <<header, buffers>>
      /\ arenas' = [arenas EXCEPT ![o][s] = x]
  BY <1>1, <1>3, <1>5, <1>7 DEF Pop, SetArena, Arena, HandOut, Return
<1>9. /\ arenas' \in [Number -> [SizeId -> ArenaType]]
      /\ arenas'[o][s] = x
      /\ \A a \in Number, r \in SizeId : a # o \/ r # s => arenas'[a][r] = arenas[a][r]
  <2>1. o \in Number /\ s \in SizeId /\ x \in ArenaType /\ PoolTypes
    OBVIOUS
  <2>2. arenas' = [arenas EXCEPT ![o][s] = x]
    BY <1>8
  <2> QED
    BY <2>1, <2>2, OneArena
<1>10. /\ held' \subseteq [block : Block, asked : Nat] /\ IsFiniteSet(held')
       /\ pc' \in [Thread -> {"idle", "alloc", "push"}]
       /\ arena' \in [Thread -> (Number \X SizeId) \cup {NULL}]
       /\ block' \in [Thread -> Block \cup {NULL}]
       /\ asked' \in [Thread -> Nat \cup {NULL}]
       /\ HeldOK' /\ Apart'
       /\ InUse' = InUse \cup {b} /\ Freeing' = Freeing
       /\ pc'[t] = "idle" /\ block'[t] = NULL
       /\ \A u \in Thread : u # t =>
            /\ pc'[u] = pc[u] /\ arena'[u] = arena[u]
            /\ asked'[u] = asked[u] /\ block'[u] = block[u]
  <2>1. asked[t] <= header'[b].size
    BY <1>1, <1>3, <1>8
  <2> QED
    BY <1>1, <1>4, <1>8, <2>1, HandedOut
<1>11. PoolTypes'
  BY <1>8, <1>9, <1>10 DEF PoolTypes
<1>12. CallOK'
  <2>1. InCall(t)'
    BY <1>10 DEF InCall
  <2>2. ASSUME NEW u \in Thread, u # t PROVE InCall(u)'
    <3>1. InCall(u) /\ (pc[u] = "push" => block[u] \in DOMAIN header)
      BY DEF CallOK, InCall
    <3>2. \A a \in Number, r \in SizeId :
            pc[u] # "idle" /\ arena[u] = <<a, r>> => arenas'[a][r] = arenas[a][r]
      BY <1>2, <1>9, <2>2
    <3> QED
      BY <1>8, <1>10, <2>2, <3>1, <3>2, OtherCall
  <2> QED
    BY <1>10, <2>1, <2>2 DEF CallOK
<1>13. Free' = Free \ {b}
  BY <1>8, <1>10 DEF Free
<1>14. ListsOK'
  <2>1. n # NULL =>
          /\ n \in Free /\ header[n].size = BlockSizes[s]
          /\ \A a \in Number, r \in SizeId : arenas[a][r]._head # n
          /\ \A c \in Free : header[c].next = n => c = b
    BY <1>3, <1>5 DEF ListsOK
  <2>2. b # NULL
    BY <1>4, NullIsNoBlock DEF Block
  <2>3. ASSUME NEW a \in Number, NEW r \in SizeId
        PROVE  arenas'[a][r]._head = IF a = o /\ r = s THEN n ELSE arenas[a][r]._head
    BY <1>7, <1>9
  <2>4. b = arenas[o][s]._head
    BY <1>3
  <2>5. ASSUME NEW a \in Number, NEW r \in SizeId, arenas'[a][r]._head # NULL
        PROVE  /\ arenas'[a][r]._head \in Free'
               /\ header[arenas'[a][r]._head].size = BlockSizes[r]
               /\ \A c \in Number, q \in SizeId :
                    arenas'[c][q]._head = arenas'[a][r]._head => a = c /\ r = q
    <3>1. CASE a = o /\ r = s
      <4>1. arenas'[a][r]._head = n /\ n # NULL
        BY <2>5, <2>3, <3>1
      <4>2. n # b
        BY <2>1, <2>4, <4>1
      <4>3. ASSUME NEW c \in Number, NEW q \in SizeId, arenas'[c][q]._head = n PROVE a = c /\ r = q
        BY <2>1, <2>3, <3>1, <4>1, <4>3
      <4> QED
        BY <1>13, <2>1, <3>1, <4>1, <4>2, <4>3
    <3>2. CASE a # o \/ r # s
      <4>1. arenas'[a][r] = arenas[a][r]
        BY <1>9, <3>2
      <4>2. /\ arenas[a][r]._head \in Free /\ header[arenas[a][r]._head].size = BlockSizes[r]
            /\ \A c \in Number, q \in SizeId :
                 arenas[c][q]._head = arenas[a][r]._head => a = c /\ r = q
        BY <2>5, <4>1 DEF ListsOK
      <4>3. arenas[a][r]._head # b
        BY <1>2, <1>3, <3>2, <4>2
      <4>4. arenas[a][r]._head # n
        BY <2>1, <2>5, <4>1
      <4>5. \A c \in Number, q \in SizeId :
              arenas'[c][q]._head = arenas[a][r]._head => a = c /\ r = q
        BY <2>3, <4>2, <4>4
      <4> QED
        BY <1>13, <4>1, <4>2, <4>3, <4>5
    <3> QED
      BY <3>1, <3>2
  <2>6. ASSUME NEW c \in Free', header[c].next # NULL
        PROVE  /\ header[c].next \in Free'
               /\ header[header[c].next].size = header[c].size
               /\ \A a \in Number, r \in SizeId : arenas'[a][r]._head # header[c].next
               /\ \A d \in Free' : header[d].next = header[c].next => d = c
    <3>1. c \in Free /\ c # b
      BY <1>13
    <3>2. /\ header[c].next \in Free
          /\ header[header[c].next].size = header[c].size
          /\ \A a \in Number, r \in SizeId : arenas[a][r]._head # header[c].next
          /\ \A d \in Free : header[d].next = header[c].next => d = c
      BY <2>6, <3>1 DEF ListsOK
    <3>3. header[c].next # b
      BY <1>2, <1>3, <3>2
    <3>4. header[c].next # n
      BY <1>5, <3>1, <3>2
    <3>5. \A a \in Number, r \in SizeId : arenas'[a][r]._head # header[c].next
      BY <2>3, <3>2, <3>4
    <3> QED
      BY <1>13, <3>2, <3>3, <3>5
  <2>7. \A c \in DOMAIN header : \E r \in SizeId : header[c].size = BlockSizes[r]
    BY DEF ListsOK
  <2>8. header' = header
    BY <1>8
  <2> QED
    BY <2>5, <2>6, <2>7, <2>8 DEF ListsOK
<1>15. BuffersOK'
  <2>1. \A a \in Number, r \in SizeId :
          /\ arenas'[a][r]._buffer = arenas[a][r]._buffer
          /\ arenas'[a][r]._size_in_buffer = arenas[a][r]._size_in_buffer
    BY <1>7, <1>9
  <2> QED
    BY <1>8, <2>1, BuffersFrame
<1> QED
  BY <1>10, <1>11, <1>12, <1>14, <1>15

\* Where a block is cut: from at, of left bytes that no other arena has and that
\* no block is in.
CutFrom(t, o, s, at, left) ==
  /\ at \in Block /\ left \in Nat /\ Room(s) <= left
  /\ buffers' \in Seq(Nat) /\ Len(buffers) <= Len(buffers')
  /\ \A i \in 1..Len(buffers) : buffers'[i] = buffers[i]
  /\ at[1] \in 1..Len(buffers') /\ at[2] + left <= buffers'[at[1]]
  /\ \A b \in DOMAIN header : b[1] = at[1] => End(b) <= at[2]
  /\ \A a \in Number, r \in SizeId :
       (a # o \/ r # s) /\ arenas[a][r]._size_in_buffer > 0 => arenas[a][r]._buffer[1] # at[1]
  /\ at \notin DOMAIN header
  /\ arenas' = [arenas EXCEPT ![o][s] =
                  [arenas[o][s] EXCEPT !._buffer = <<at[1], at[2] + Room(s)>>,
                                       !._size_in_buffer = left - Room(s)]]
  /\ header' = [b \in DOMAIN header \cup {at} |->
                  IF b = at THEN FreeBlock(BlockSizes[s], NULL) ELSE header[b]]
  /\ HandOut(t, at)

\* A block ends after it starts.
LEMMA Ends ==
  ASSUME PoolTypes, NEW b \in DOMAIN header
  PROVE  b[1] \in Nat /\ b[2] \in Nat /\ header[b].size \in Nat /\ End(b) \in Nat /\ b[2] < End(b)
<1>1. b \in Block /\ header[b] \in HeaderType
  BY DEF PoolTypes
<1>2. b[1] \in Nat /\ b[2] \in Nat /\ header[b].size \in Nat
  BY <1>1 DEF Block, HeaderType
<1> QED
  BY <1>2, Sizes DEF End

\* The buffer of the arena, or a new one.
LEMMA CutPlace ==
  ASSUME PoolInv, NEW t \in Thread, NEW o \in Number, NEW s \in SizeId,
         arena[t] = <<o, s>>, Carve(t)
  PROVE  \E at \in Block, left \in Nat : CutFrom(t, o, s, at, left)
<1> USE DEF PoolInv
<1>1. arenas[o][s] \in ArenaType
  BY DEF PoolTypes
<1>2. PICK x : x = arenas[o][s]
  OBVIOUS
<1>3. x._buffer \in Block /\ x._size_in_buffer \in Nat
  BY <1>1, <1>2 DEF ArenaType
<1>4. PICK R \in Nat : R = Room(s) /\ R > 0
  <2>1. Room(s) \in Nat /\ Room(s) > 0
    BY Sizes
  <2> QED
    BY <2>1
<1>5. buffers \in Seq(Nat) /\ Len(buffers) \in Nat
  BY DEF PoolTypes
<1>6. CASE UsedUp(s, x._size_in_buffer)
  <2>1. PICK at \in Block : at = <<Len(buffers) + 1, 0>> /\ at[1] = Len(buffers) + 1 /\ at[2] = 0
    <3>1. <<Len(buffers) + 1, 0>> \in Block
      BY <1>5 DEF Block
    <3> QED
      BY <3>1
  <2>2. PICK left \in Nat : left = BlockSizes[s] * BUFFER_BLOCKS /\ R <= left
    BY <1>4, Sizes
  <2>3. /\ buffers' = Append(buffers, left)
        /\ header' = [b \in DOMAIN header \cup {at} |->
                        IF b = at THEN FreeBlock(BlockSizes[s], NULL) ELSE header[b]]
        /\ HandOut(t, at)
    BY <1>2, <1>6, <2>1, <2>2 DEF Carve, Arena
  <2>4. arenas' = [arenas EXCEPT ![o][s] = [x EXCEPT !._buffer = <<at[1], at[2] + R>>,
                                                     !._size_in_buffer = left - R]]
    <3>1. SetArena(t, [x EXCEPT !._buffer = <<at[1], at[2] + Room(s)>>,
                                !._size_in_buffer = IF left < Room(s) THEN 0 ELSE left - Room(s)])
      BY <1>2, <1>6, <2>1, <2>2 DEF Carve, Arena
    <3>2. (IF left < Room(s) THEN 0 ELSE left - Room(s)) = left - R
      BY <1>4, <2>2
    <3>3. PICK k : k = IF left < Room(s) THEN 0 ELSE left - Room(s)
      OBVIOUS
    <3>4. arena[t][1] = o /\ arena[t][2] = s /\ k = left - R
      BY <3>2, <3>3
    <3>5. SetArena(t, [x EXCEPT !._buffer = <<at[1], at[2] + R>>, !._size_in_buffer = k])
      BY <1>4, <3>1, <3>3
    <3> QED
      BY <3>4, <3>5 DEF SetArena
  <2>5. /\ buffers' \in Seq(Nat) /\ Len(buffers') = Len(buffers) + 1
        /\ \A i \in 1..Len(buffers) : buffers'[i] = buffers[i]
        /\ buffers'[Len(buffers) + 1] = left
    BY <1>5, <2>3
  <2>6. \A b \in DOMAIN header : b[1] # at[1]
    BY <1>5, <2>1 DEF BuffersOK
  <2>7. \A a \in Number, r \in SizeId : arenas[a][r]._size_in_buffer > 0 => arenas[a][r]._buffer[1] # at[1]
    BY <1>5, <2>1 DEF BuffersOK
  <2>8. /\ Len(buffers) <= Len(buffers') /\ at[1] \in 1..Len(buffers')
        /\ at[2] + left <= buffers'[at[1]]
    BY <1>5, <2>1, <2>2, <2>5
  <2>9. arenas' = [arenas EXCEPT ![o][s] =
                    [arenas[o][s] EXCEPT !._buffer = <<at[1], at[2] + Room(s)>>,
                                         !._size_in_buffer = left - Room(s)]]
    BY <1>2, <1>4, <2>4
  <2>10. CutFrom(t, o, s, at, left)
    BY <1>4, <2>2, <2>3, <2>5, <2>6, <2>7, <2>8, <2>9 DEF CutFrom
  <2> QED
    BY <2>10
<1>7. CASE ~UsedUp(s, x._size_in_buffer)
  <2>1. PICK at \in Block, left \in Nat :
          at = x._buffer /\ left = x._size_in_buffer /\ R <= left /\ left > 0
    BY <1>3, <1>4, <1>7 DEF UsedUp
  <2>2. /\ buffers' = buffers
        /\ header' = [b \in DOMAIN header \cup {at} |->
                        IF b = at THEN FreeBlock(BlockSizes[s], NULL) ELSE header[b]]
        /\ HandOut(t, at)
    BY <1>2, <1>7, <2>1 DEF Carve, Arena
  <2>3. arenas' = [arenas EXCEPT ![o][s] = [x EXCEPT !._buffer = <<at[1], at[2] + R>>,
                                                     !._size_in_buffer = left - R]]
    <3>1. SetArena(t, [x EXCEPT !._buffer = <<at[1], at[2] + Room(s)>>,
                                !._size_in_buffer = IF left < Room(s) THEN 0 ELSE left - Room(s)])
      BY <1>2, <1>7, <2>1 DEF Carve, Arena
    <3>2. (IF left < Room(s) THEN 0 ELSE left - Room(s)) = left - R
      BY <1>4, <2>1
    <3>3. PICK k : k = IF left < Room(s) THEN 0 ELSE left - Room(s)
      OBVIOUS
    <3>4. arena[t][1] = o /\ arena[t][2] = s /\ k = left - R
      BY <3>2, <3>3
    <3>5. SetArena(t, [x EXCEPT !._buffer = <<at[1], at[2] + R>>, !._size_in_buffer = k])
      BY <1>4, <3>1, <3>3
    <3> QED
      BY <3>4, <3>5 DEF SetArena
  <2>4. /\ at[1] \in 1..Len(buffers) /\ at[2] + left <= buffers[at[1]]
        /\ \A b \in DOMAIN header : b[1] = at[1] => End(b) <= at[2]
        /\ \A c \in Number, r \in SizeId :
             arenas[c][r]._size_in_buffer > 0 /\ arenas[c][r]._buffer[1] = at[1] => c = o /\ r = s
    BY <1>1, <1>2, <2>1 DEF BuffersOK
  <2>5. at \notin DOMAIN header
    <3>1. at \in DOMAIN header => at[2] < End(at) /\ End(at) <= at[2] /\ End(at) \in Nat /\ at[2] \in Nat
      BY <2>4, Ends
    <3> QED
      BY <3>1
  <2>6. Len(buffers) <= Len(buffers)
    BY <1>5
  <2>7. arenas' = [arenas EXCEPT ![o][s] =
                    [arenas[o][s] EXCEPT !._buffer = <<at[1], at[2] + Room(s)>>,
                                         !._size_in_buffer = left - Room(s)]]
    BY <1>2, <1>4, <2>3
  <2>8. CutFrom(t, o, s, at, left)
    BY <1>4, <1>5, <2>1, <2>2, <2>4, <2>5, <2>6, <2>7 DEF CutFrom
  <2> QED
    BY <2>8
<1> QED
  BY <1>6, <1>7

\* The new block is beyond the others of its buffer.
LEMMA CutBuffers ==
  ASSUME PoolInv, NEW t \in Thread, NEW o \in Number, NEW s \in SizeId,
         NEW at \in Block, NEW left \in Nat,
         CutFrom(t, o, s, at, left), DOMAIN header' = DOMAIN header \cup {at},
         header'[at].size = BlockSizes[s], \A b \in DOMAIN header : header'[b] = header[b],
         arenas'[o][s]._buffer = <<at[1], at[2] + Room(s)>>,
         arenas'[o][s]._size_in_buffer = left - Room(s),
         \A a \in Number, r \in SizeId : a # o \/ r # s => arenas'[a][r] = arenas[a][r]
  PROVE  BuffersOK'
<1> USE DEF PoolInv
<1>1. PICK R \in Nat, z \in Nat : R = Room(s) /\ z = BlockSizes[s] /\ z + HEADER <= R /\ R <= left
  BY Sizes DEF CutFrom
<1>2. at[1] \in Nat /\ at[2] \in Nat
  BY DEF Block
<1>3. /\ Len(buffers) \in Nat /\ Len(buffers') \in Nat /\ Len(buffers) <= Len(buffers')
      /\ at[1] \in 1..Len(buffers') /\ at[2] + left <= buffers'[at[1]]
      /\ \A i \in 1..Len(buffers) : buffers'[i] = buffers[i]
      /\ \A i \in 1..Len(buffers') : buffers'[i] \in Nat
  BY DEF CutFrom, PoolTypes
<1>4. \A b \in DOMAIN header :
        /\ b # at /\ b[1] \in Nat /\ b[2] \in Nat /\ End(b) \in Nat /\ b[2] < End(b)
        /\ b[1] = at[1] => End(b) <= at[2]
        /\ End(b)' = End(b)
  <2> TAKE b \in DOMAIN header
  <2>1. b[1] \in Nat /\ b[2] \in Nat /\ End(b) \in Nat /\ b[2] < End(b)
    BY Ends
  <2>2. End(b)' = End(b)
    BY DEF End
  <2> QED
    BY <2>1, <2>2 DEF CutFrom
<1>5. End(at)' \in Nat /\ End(at)' <= at[2] + R
  BY <1>1, <1>2, Sizes DEF End
<1>6. \A b \in DOMAIN header' : b[1] \in 1..Len(buffers')
  BY <1>3, <1>4 DEF BuffersOK
<1>7. ASSUME NEW a \in Number, NEW r \in SizeId, arenas'[a][r]._size_in_buffer > 0
      PROVE  LET to == arenas'[a][r]._buffer IN
             /\ to[1] \in 1..Len(buffers')
             /\ to[2] + arenas'[a][r]._size_in_buffer <= buffers'[to[1]]
             /\ \A b \in DOMAIN header' : b[1] = to[1] => End(b)' <= to[2]
             /\ \A c \in Number, q \in SizeId :
                  arenas'[c][q]._size_in_buffer > 0 /\ arenas'[c][q]._buffer[1] = to[1]
                  => c = a /\ q = r
  <2>1. CASE a = o /\ r = s
    <3>1. PICK to : to = arenas'[a][r]._buffer
      OBVIOUS
    <3>2. to[1] = at[1] /\ to[2] = at[2] + R /\ arenas'[a][r]._size_in_buffer = left - R
      BY <1>1, <2>1, <3>1
    <3>3. to[2] + (left - R) <= buffers'[to[1]] /\ to[1] \in 1..Len(buffers')
      BY <1>1, <1>2, <1>3, <3>2
    <3>4. ASSUME NEW b \in DOMAIN header', b[1] = to[1] PROVE End(b)' <= to[2]
      <4>1. CASE b = at
        BY <1>5, <3>2, <4>1
      <4>2. CASE b # at
        <5>1. End(b) <= at[2] /\ End(b)' = End(b) /\ End(b) \in Nat
          BY <1>4, <3>2, <3>4, <4>2
        <5> QED
          BY <1>1, <1>2, <3>2, <5>1
      <4> QED
        BY <4>1, <4>2
    <3>5. \A c \in Number, q \in SizeId :
            arenas'[c][q]._size_in_buffer > 0 /\ arenas'[c][q]._buffer[1] = to[1] => c = a /\ q = r
      BY <2>1, <3>2 DEF CutFrom
    <3> QED
      BY <3>1, <3>2, <3>3, <3>4, <3>5
  <2>2. CASE a # o \/ r # s
    <3>1. PICK to, k : to = arenas[a][r]._buffer /\ k = arenas[a][r]._size_in_buffer
      OBVIOUS
    <3>2. arenas'[a][r]._buffer = to /\ arenas'[a][r]._size_in_buffer = k /\ k > 0
      BY <1>7, <2>2, <3>1
    <3>3. /\ to[1] \in 1..Len(buffers) /\ to[2] + k <= buffers[to[1]]
          /\ \A b \in DOMAIN header : b[1] = to[1] => End(b) <= to[2]
          /\ \A c \in Number, q \in SizeId :
               arenas[c][q]._size_in_buffer > 0 /\ arenas[c][q]._buffer[1] = to[1] => c = a /\ q = r
      BY <3>1, <3>2 DEF BuffersOK
    <3>4. to[1] # at[1]
      BY <2>2, <3>1, <3>2 DEF CutFrom
    <3>5. to[1] \in 1..Len(buffers') /\ to[2] + k <= buffers'[to[1]]
      BY <1>3, <3>3
    <3>6. \A b \in DOMAIN header' : b[1] = to[1] => End(b)' <= to[2]
      BY <1>4, <3>3, <3>4
    <3>7. ASSUME NEW c \in Number, NEW q \in SizeId,
                 arenas'[c][q]._size_in_buffer > 0, arenas'[c][q]._buffer[1] = to[1]
          PROVE  c = a /\ q = r
      <4>1. c # o \/ q # s
        BY <3>4, <3>7
      <4> QED
        BY <3>3, <3>7, <4>1
    <3> QED
      BY <3>2, <3>5, <3>6, <3>7
  <2> QED
    BY <2>1, <2>2
<1>8. ASSUME NEW b \in DOMAIN header'
      PROVE  /\ End(b)' <= buffers'[b[1]]
             /\ \A c \in DOMAIN header' : c[1] = b[1] /\ c[2] > b[2] => c[2] >= End(b)'
  <2>1. CASE b = at
    <3>1. End(at)' <= buffers'[at[1]]
      BY <1>1, <1>2, <1>3, <1>5
    <3>2. ASSUME NEW c \in DOMAIN header', c[1] = at[1], c[2] > at[2] PROVE FALSE
      <4>1. c \in DOMAIN header
        BY <1>2, <3>2
      <4>2. c[2] < End(c) /\ End(c) <= at[2] /\ c[2] \in Nat /\ End(c) \in Nat
        BY <1>4, <3>2, <4>1
      <4> QED
        BY <1>2, <3>2, <4>2
    <3> QED
      BY <2>1, <3>1, <3>2
  <2>2. CASE b # at
    <3>1. /\ End(b) <= buffers[b[1]] /\ b[1] \in 1..Len(buffers)
          /\ \A c \in DOMAIN header : c[1] = b[1] /\ c[2] > b[2] => c[2] >= End(b)
      BY <2>2 DEF BuffersOK, SideBySide, End
    <3>2. End(b)' = End(b) /\ buffers'[b[1]] = buffers[b[1]]
      BY <1>3, <1>4, <2>2, <3>1
    <3>3. at[1] = b[1] => at[2] >= End(b)
      BY <1>2, <1>4, <2>2
    <3> QED
      BY <3>1, <3>2, <3>3
  <2> QED
    BY <2>1, <2>2
<1>9. SideBySide'
  BY <1>8 DEF SideBySide, End
<1> QED
  BY <1>6, <1>7, <1>9 DEF BuffersOK

\* A block is made and handed out; the lists do not change.
LEMMA CarveStep == ASSUME PoolInv, NEW t \in Thread, Carve(t) PROVE PoolInv'
<1> USE DEF PoolInv
<1>1. PICK o \in Number, s \in SizeId :
        /\ arena[t] = <<o, s>> /\ block[t] = arenas[o][s]._head
        /\ asked[t] \in Nat /\ asked[t] <= BlockSizes[s]
  BY DEF Carve, CallOK, InCall
<1>2. pc[t] = "alloc" /\ \A u \in Thread : u # t /\ pc[u] # "idle" => arena[u] # <<o, s>>
  BY <1>1 DEF Carve, CallOK, Apart
<1>3. PICK at \in Block, left \in Nat : CutFrom(t, o, s, at, left)
  BY <1>1, CutPlace
<1>4. arenas[o][s] \in ArenaType
  BY <1>2 DEF PoolTypes
<1>5. PICK R \in Nat : R = Room(s) /\ R <= left
  BY <1>3, Sizes DEF CutFrom
<1>6. PICK x \in ArenaType :
        /\ x = [arenas[o][s] EXCEPT !._buffer = <<at[1], at[2] + Room(s)>>,
                                    !._size_in_buffer = left - Room(s)]
        /\ x._head = arenas[o][s]._head
        /\ x._buffer = <<at[1], at[2] + Room(s)>>
        /\ x._size_in_buffer = left - Room(s)
  <2>1. PICK f, k : f = <<at[1], at[2] + Room(s)>> /\ k = left - Room(s)
    OBVIOUS
  <2>2. f \in Block /\ k \in Nat
    BY <1>5, <2>1 DEF Block
  <2> DEFINE y == [arenas[o][s] EXCEPT !._buffer = f, !._size_in_buffer = k]
  <2>3. y \in ArenaType /\ y._head = arenas[o][s]._head /\ y._buffer = f /\ y._size_in_buffer = k
    BY <1>4, <2>2 DEF ArenaType
  <2>4. y = [arenas[o][s] EXCEPT !._buffer = <<at[1], at[2] + Room(s)>>,
                                 !._size_in_buffer = left - Room(s)]
    BY <2>1
  <2> HIDE DEF y
  <2> QED
    BY <2>1, <2>3, <2>4
<1>7. arenas' = [arenas EXCEPT ![o][s] = x]
  BY <1>3, <1>6 DEF CutFrom
<1>8. /\ arenas' \in [Number -> [SizeId -> ArenaType]]
      /\ arenas'[o][s] = x
      /\ \A a \in Number, r \in SizeId : a # o \/ r # s => arenas'[a][r] = arenas[a][r]
  <2>1. o \in Number /\ s \in SizeId /\ x \in ArenaType /\ PoolTypes
    OBVIOUS
  <2>2. arenas' = [arenas EXCEPT ![o][s] = x]
    BY <1>7
  <2> QED
    BY <2>1, <2>2, OneArena
<1>9. PICK new \in HeaderType : new = FreeBlock(BlockSizes[s], NULL) /\ new.size = BlockSizes[s]
  <2>1. PICK y : y = FreeBlock(BlockSizes[s], NULL)
    OBVIOUS
  <2>2. y \in HeaderType /\ y.size = BlockSizes[s]
    BY <2>1, Sizes DEF FreeBlock, HeaderType
  <2> QED
    BY <2>1, <2>2
<1>10. /\ DOMAIN header' = DOMAIN header \cup {at} /\ at \notin DOMAIN header
       /\ header' \in [DOMAIN header' -> HeaderType]
       /\ header'[at] = new /\ \A b \in DOMAIN header : header'[b] = header[b]
  <2>1. /\ header' = [b \in DOMAIN header \cup {at} |-> IF b = at THEN new ELSE header[b]]
        /\ at \notin DOMAIN header
    BY <1>3, <1>9 DEF CutFrom
  <2> QED
    BY <2>1 DEF PoolTypes
<1>11. at \notin InUse \cup Freeing
  <2>1. at[1] # 0
    BY <1>3 DEF CutFrom
  <2> QED
    BY <1>10, <2>1 DEF HeldOK, InUse, Freeing, CallOK, InCall
<1>12. /\ held' \subseteq [block : Block, asked : Nat] /\ IsFiniteSet(held')
       /\ pc' \in [Thread -> {"idle", "alloc", "push"}]
       /\ arena' \in [Thread -> (Number \X SizeId) \cup {NULL}]
       /\ block' \in [Thread -> Block \cup {NULL}]
       /\ asked' \in [Thread -> Nat \cup {NULL}]
       /\ HeldOK' /\ Apart'
       /\ InUse' = InUse \cup {at} /\ Freeing' = Freeing
       /\ pc'[t] = "idle" /\ block'[t] = NULL
       /\ \A u \in Thread : u # t =>
            /\ pc'[u] = pc[u] /\ arena'[u] = arena[u]
            /\ asked'[u] = asked[u] /\ block'[u] = block[u]
  <2>1. HandOut(t, at) /\ asked[t] <= header'[at].size /\ at \in DOMAIN header'
        /\ DOMAIN header \subseteq DOMAIN header'
    BY <1>1, <1>3, <1>9, <1>10 DEF CutFrom
  <2> QED
    BY <1>1, <1>2, <1>10, <1>11, <2>1, HandedOut
<1>13. PoolTypes'
  <2>1. buffers' \in Seq(Nat)
    BY <1>3 DEF CutFrom
  <2>2. DOMAIN header' \subseteq Block
    BY <1>10 DEF PoolTypes
  <2> QED
    BY <1>8, <1>10, <1>12, <2>1, <2>2 DEF PoolTypes
<1>14. CallOK'
  <2>1. InCall(t)'
    BY <1>12 DEF InCall
  <2>2. ASSUME NEW u \in Thread, u # t PROVE InCall(u)'
    <3>1. InCall(u) /\ (pc[u] = "push" => block[u] \in DOMAIN header)
      BY DEF CallOK, InCall
    <3>2. \A a \in Number, r \in SizeId :
            pc[u] # "idle" /\ arena[u] = <<a, r>> => arenas'[a][r] = arenas[a][r]
      BY <1>2, <1>8, <2>2
    <3> QED
      BY <1>10, <1>12, <2>2, <3>1, <3>2, OtherCall
  <2> QED
    BY <1>12, <2>1, <2>2 DEF CallOK
<1>15. Free' = Free
  BY <1>10, <1>11, <1>12 DEF Free
<1>16. ListsOK'
  <2>1. ASSUME NEW a \in Number, NEW r \in SizeId PROVE arenas'[a][r]._head = arenas[a][r]._head
    BY <1>6, <1>8
  <2>2. \A b \in Free : b \in DOMAIN header /\ header'[b] = header[b]
    BY <1>10 DEF Free
  <2>3. ASSUME NEW a \in Number, NEW r \in SizeId, arenas'[a][r]._head # NULL
        PROVE  /\ arenas'[a][r]._head \in Free'
               /\ header'[arenas'[a][r]._head].size = BlockSizes[r]
               /\ \A c \in Number, q \in SizeId :
                    arenas'[c][q]._head = arenas'[a][r]._head => a = c /\ r = q
    BY <1>15, <2>1, <2>2, <2>3 DEF ListsOK
  <2>4. ASSUME NEW b \in Free', header'[b].next # NULL
        PROVE  /\ header'[b].next \in Free'
               /\ header'[header'[b].next].size = header'[b].size
               /\ \A a \in Number, r \in SizeId : arenas'[a][r]._head # header'[b].next
               /\ \A c \in Free' : header'[c].next = header'[b].next => c = b
    BY <1>15, <2>1, <2>2, <2>4 DEF ListsOK
  <2>5. \A b \in DOMAIN header' : \E r \in SizeId : header'[b].size = BlockSizes[r]
    BY <1>9, <1>10 DEF ListsOK
  <2> QED
    BY <2>3, <2>4, <2>5 DEF ListsOK
<1>17. BuffersOK'
  <2>1. /\ arenas'[o][s]._buffer = <<at[1], at[2] + Room(s)>>
        /\ arenas'[o][s]._size_in_buffer = left - Room(s)
        /\ header'[at].size = BlockSizes[s]
    BY <1>6, <1>8, <1>9, <1>10
  <2> QED
    BY <1>2, <1>3, <1>8, <1>10, <2>1, CutBuffers
<1> QED
  BY <1>12, <1>13, <1>14, <1>16, <1>17

\* A block in use goes into the hands of the thread that frees it.
LEMMA FreeStep ==
  ASSUME PoolInv, TableOK, kept', NEW t \in Thread, NEW h \in held, free(t, h)
  PROVE  PoolInv'
<1> USE DEF PoolInv
<1>1. PICK b \in DOMAIN header : b = h.block /\ b \in InUse
  BY DEF free, InUse
<1>2. PICK s \in SizeId : header[b].size = BlockSizes[s]
  BY DEF ListsOK
<1>3. get_size_id(header[b].size) = s /\ SizeBefore(b) = {header[b].size}
  BY <1>2, SizeOf DEF SizeBefore
<1>4. PICK o \in Number : o = get_arena_id(t) /\ b \in Block
  BY ArenaFound DEF free, PoolTypes
<1>5. PICK n \in Block \cup {NULL} : n = arenas[o][s]._head
  BY <1>4 DEF PoolTypes, ArenaType
<1>6. PICK new \in HeaderType :
        new = FreeBlock(header[b].size, n) /\ new.size = header[b].size /\ new.next = n
  <2>1. PICK y : y = FreeBlock(header[b].size, n)
    OBVIOUS
  <2>2. header[b].size \in Nat
    BY DEF PoolTypes, HeaderType
  <2>3. y \in HeaderType /\ y.size = header[b].size /\ y.next = n
    BY <2>1, <2>2 DEF HeaderType, FreeBlock
  <2> QED
    BY <2>1, <2>3
<1>7. /\ pc[t] = "idle"
      /\ held' = held \ {h}
      /\ pc' = [pc EXCEPT ![t] = "push"]
      /\ arena' = [arena EXCEPT ![t] = <<o, s>>]
      /\ block' = [block EXCEPT ![t] = b]
      /\ header' = [c \in DOMAIN header \cup {b} |-> IF c = b THEN new ELSE header[c]]
      /\ Alone(t, <<o, s>>)
      /\ UNCHANGED <<arenas, buffers, asked>>
  BY <1>1, <1>3, <1>4, <1>5, <1>6 DEF free
<1>8. /\ DOMAIN header' = DOMAIN header /\ header' \in [DOMAIN header' -> HeaderType]
      /\ header'[b] = new /\ \A c \in DOMAIN header : c # b => header'[c] = header[c]
  <2>1. DOMAIN header \cup {b} = DOMAIN header
    OBVIOUS
  <2> QED
    BY <1>7, <2>1 DEF PoolTypes
<1>9. /\ pc'[t] = "push" /\ arena'[t] = <<o, s>> /\ block'[t] = b
      /\ \A u \in Thread : u # t =>
           pc'[u] = pc[u] /\ arena'[u] = arena[u] /\ asked'[u] = asked[u] /\ block'[u] = block[u]
  BY <1>7 DEF PoolTypes
<1>10. PoolTypes'
  <2>1. held' \subseteq [block : Block, asked : Nat]
    BY <1>7 DEF PoolTypes
  <2>2. IsFiniteSet(held')
    BY <1>7, FS_RemoveElement DEF PoolTypes
  <2>3. DOMAIN header' \subseteq Block
    BY <1>8 DEF PoolTypes
  <2> QED
    BY <1>4, <1>7, <1>8, <2>1, <2>2, <2>3 DEF PoolTypes
<1>11. Apart' /\ \A u \in Thread \ {t} : pc[u] # "idle" => arena[u] # <<o, s>>
  <2>1. \A u \in Thread \ {t} : pc'[u] = pc[u]
    BY <1>9
  <2> QED
    BY <1>7, <2>1, ApartStep DEF CallOK
<1>12. \A u \in Thread : pc[u] = "push" => block[u] # b
  BY <1>1 DEF HeldOK
<1>13. CallOK'
  <2>1. InCall(t)'
    BY <1>2, <1>5, <1>6, <1>7, <1>8, <1>9 DEF InCall
  <2>2. ASSUME NEW u \in Thread, u # t PROVE InCall(u)'
    <3>1. InCall(u) /\ (pc[u] = "push" => block[u] \in DOMAIN header)
      BY DEF CallOK, InCall
    <3> QED
      BY <1>7, <1>8, <1>9, <1>12, <2>2, <3>1, OtherCall
  <2> QED
    BY <1>11, <2>1, <2>2 DEF CallOK
<1>14. InUse' = InUse \ {b}
  <2>1. \A g \in held : g.block = b => g = h
    BY <1>1 DEF HeldOK
  <2> QED
    BY <1>1, <1>7, <2>1 DEF InUse
<1>15. Freeing' = Freeing \cup {b}
  <2>1. pc[t] # "push"
    BY <1>7
  <2> QED
    BY <1>9, <2>1 DEF Freeing
<1>16. Free' = Free /\ b \notin Free
  BY <1>1, <1>8, <1>14, <1>15 DEF Free
<1>17. HeldOK'
  <2>1. \A c \in DOMAIN header : header'[c].size = header[c].size
    BY <1>6, <1>8
  <2>2. \A g \in held' : g \in held /\ IF g.block \in DOMAIN header' THEN g.asked <= header'[g.block].size
                                       ELSE g.block[1] = 0
    BY <1>7, <1>8, <2>1 DEF HeldOK
  <2>3. \A u \in Thread : pc'[u] = "push" => block'[u] \notin InUse'
    BY <1>9, <1>14 DEF HeldOK
  <2>4. \A u, w \in Thread : pc'[u] = "push" /\ pc'[w] = "push" /\ block'[u] = block'[w] => u = w
    BY <1>9, <1>12 DEF HeldOK
  <2>5. \A f, g \in held' : f.block = g.block => f = g
    BY <2>2 DEF HeldOK
  <2> QED
    BY <2>2, <2>3, <2>4, <2>5 DEF HeldOK
<1>18. ListsOK'
  <2>1. arenas' = arenas
    BY <1>7
  <2>2. \A c \in Free : c \in DOMAIN header /\ header'[c] = header[c]
    BY <1>8, <1>16 DEF Free
  <2>3. ASSUME NEW a \in Number, NEW r \in SizeId, arenas'[a][r]._head # NULL
        PROVE  /\ arenas'[a][r]._head \in Free'
               /\ header'[arenas'[a][r]._head].size = BlockSizes[r]
               /\ \A c \in Number, q \in SizeId :
                    arenas'[c][q]._head = arenas'[a][r]._head => a = c /\ r = q
    BY <1>16, <2>1, <2>2, <2>3 DEF ListsOK
  <2>4. ASSUME NEW c \in Free', header'[c].next # NULL
        PROVE  /\ header'[c].next \in Free'
               /\ header'[header'[c].next].size = header'[c].size
               /\ \A a \in Number, r \in SizeId : arenas'[a][r]._head # header'[c].next
               /\ \A d \in Free' : header'[d].next = header'[c].next => d = c
    BY <1>16, <2>1, <2>2, <2>4 DEF ListsOK
  <2>5. \A c \in DOMAIN header' : \E r \in SizeId : header'[c].size = BlockSizes[r]
    <3>1. \A c \in DOMAIN header : header'[c].size = header[c].size
      BY <1>6, <1>8
    <3>2. \A c \in DOMAIN header : \E r \in SizeId : header[c].size = BlockSizes[r]
      BY DEF ListsOK
    <3> QED
      BY <1>8, <3>1, <3>2
  <2> QED
    BY <2>3, <2>4, <2>5 DEF ListsOK
<1>19. BuffersOK'
  <2>1. \A c \in DOMAIN header : header'[c].size = header[c].size
    BY <1>6, <1>8
  <2> QED
    BY <1>7, <1>8, <2>1, BuffersFrame
<1> QED
  BY <1>10, <1>13, <1>17, <1>18, <1>19

\* It becomes the head of its list, before the one that was.
LEMMA PushStep == ASSUME PoolInv, NEW t \in Thread, Push(t) PROVE PoolInv'
<1> USE DEF PoolInv
<1>1. PICK o \in Number, s \in SizeId :
        /\ arena[t] = <<o, s>> /\ block[t] \in DOMAIN header
        /\ header[block[t]].size = BlockSizes[s]
        /\ header[block[t]].next = arenas[o][s]._head
  BY DEF Push, CallOK, InCall
<1>2. PICK b \in Block : b = block[t] /\ b \in DOMAIN header
  BY <1>1 DEF PoolTypes
<1>3. /\ arenas[o][s] \in ArenaType
      /\ \A u \in Thread : u # t /\ pc[u] # "idle" => arena[u] # <<o, s>>
  BY <1>1 DEF Push, PoolTypes, CallOK, Apart
<1>4. b \in Freeing /\ b \notin InUse /\ b \notin Free
  BY <1>2 DEF Push, Freeing, HeldOK, Free
<1>5. PICK x \in ArenaType :
        /\ x = [arenas[o][s] EXCEPT !._head = b] /\ x._head = b
        /\ x._buffer = arenas[o][s]._buffer
        /\ x._size_in_buffer = arenas[o][s]._size_in_buffer
  <2> DEFINE y == [arenas[o][s] EXCEPT !._head = b]
  <2>1. /\ y \in ArenaType /\ y._head = b /\ y._buffer = arenas[o][s]._buffer
        /\ y._size_in_buffer = arenas[o][s]._size_in_buffer
    BY <1>3 DEF ArenaType
  <2> HIDE DEF y
  <2> QED
    BY <2>1 DEF y
<1>6. /\ pc[t] = "push"
      /\ arenas' = [arenas EXCEPT ![o][s] = x]
      /\ pc' = [pc EXCEPT ![t] = "idle"]
      /\ arena' = [arena EXCEPT ![t] = NULL]
      /\ block' = [block EXCEPT ![t] = NULL]
      /\ asked' = [asked EXCEPT ![t] = NULL]
      /\ UNCHANGED <<header, buffers, held>>
  BY <1>1, <1>2, <1>5 DEF Push, SetArena, Arena, Return
<1>7. /\ arenas' \in [Number -> [SizeId -> ArenaType]]
      /\ arenas'[o][s] = x
      /\ \A a \in Number, r \in SizeId : a # o \/ r # s => arenas'[a][r] = arenas[a][r]
  <2>1. o \in Number /\ s \in SizeId /\ x \in ArenaType /\ PoolTypes
    OBVIOUS
  <2>2. arenas' = [arenas EXCEPT ![o][s] = x]
    BY <1>6
  <2> QED
    BY <2>1, <2>2, OneArena
<1>8. /\ pc'[t] = "idle" /\ block'[t] = NULL
      /\ \A u \in Thread : u # t =>
           pc'[u] = pc[u] /\ arena'[u] = arena[u] /\ asked'[u] = asked[u] /\ block'[u] = block[u]
  BY <1>6 DEF PoolTypes
<1>9. PoolTypes'
  BY <1>6, <1>7 DEF PoolTypes
<1>10. Apart'
  BY <1>8, ApartEnd DEF CallOK
<1>11. CallOK'
  <2>1. InCall(t)'
    BY <1>8 DEF InCall
  <2>2. ASSUME NEW u \in Thread, u # t PROVE InCall(u)'
    <3>1. InCall(u) /\ (pc[u] = "push" => block[u] \in DOMAIN header)
      BY DEF CallOK, InCall
    <3>2. \A a \in Number, r \in SizeId :
            pc[u] # "idle" /\ arena[u] = <<a, r>> => arenas'[a][r] = arenas[a][r]
      BY <1>3, <1>7, <2>2
    <3> QED
      BY <1>6, <1>8, <2>2, <3>1, <3>2, OtherCall
  <2> QED
    BY <1>10, <2>1, <2>2 DEF CallOK
<1>12. InUse' = InUse
  BY <1>6 DEF InUse
<1>13. Freeing' = Freeing \ {b}
  <2>1. \A u \in Thread : pc[u] = "push" /\ block[u] = b => u = t
    BY <1>2, <1>6 DEF HeldOK
  <2>2. \A u \in Thread : pc'[u] = "push" <=> pc[u] = "push" /\ u # t
    BY <1>8
  <2>3. ASSUME NEW c \in Freeing, c # b PROVE c \in Freeing'
    <3>1. PICK u \in Thread : pc[u] = "push" /\ block[u] = c
      BY DEF Freeing
    <3>2. u # t
      BY <1>2, <2>3, <3>1
    <3> QED
      BY <1>8, <2>2, <3>1, <3>2 DEF Freeing
  <2>4. ASSUME NEW c \in Freeing' PROVE c \in Freeing /\ c # b
    <3>1. PICK u \in Thread : pc'[u] = "push" /\ block'[u] = c
      BY DEF Freeing
    <3>2. u # t /\ pc[u] = "push" /\ block[u] = c
      BY <1>8, <2>2, <3>1
    <3> QED
      BY <2>1, <3>2 DEF Freeing
  <2> QED
    BY <2>3, <2>4
<1>14. Free' = Free \cup {b}
  BY <1>2, <1>4, <1>6, <1>12, <1>13 DEF Free
<1>15. HeldOK'
  BY <1>6, <1>8, <1>12 DEF HeldOK
<1>16. ListsOK'
  <2>1. PICK n : n = arenas[o][s]._head
    OBVIOUS
  <2>2. header[b].next = n /\ header[b].size = BlockSizes[s] /\ b # NULL
    BY <1>1, <1>2, <2>1, NullIsNoBlock DEF Block
  <2>3. n # NULL => /\ n \in Free /\ header[n].size = BlockSizes[s]
                    /\ \A a \in Number, r \in SizeId : arenas[a][r]._head = n => a = o /\ r = s
    BY <1>3, <2>1 DEF ListsOK
  <2>4. ASSUME NEW a \in Number, NEW r \in SizeId
        PROVE  arenas'[a][r]._head = IF a = o /\ r = s THEN b ELSE arenas[a][r]._head
    BY <1>5, <1>7
  <2>5. \A c \in Free : header[c].next # NULL => header[c].next # n /\ header[c].next # b
    BY <1>3, <1>4, <2>1 DEF ListsOK
  <2>6. \A a \in Number, r \in SizeId : arenas[a][r]._head # b
    BY <1>4, <2>2 DEF ListsOK
  <2>7. ASSUME NEW a \in Number, NEW r \in SizeId, arenas'[a][r]._head # NULL
        PROVE  /\ arenas'[a][r]._head \in Free'
               /\ header[arenas'[a][r]._head].size = BlockSizes[r]
               /\ \A c \in Number, q \in SizeId :
                    arenas'[c][q]._head = arenas'[a][r]._head => a = c /\ r = q
    <3>1. CASE a = o /\ r = s
      <4>1. arenas'[a][r]._head = b
        BY <2>4, <3>1
      <4> QED
        BY <1>14, <2>2, <2>4, <2>6, <3>1, <4>1
    <3>2. CASE a # o \/ r # s
      <4>1. arenas'[a][r]._head = arenas[a][r]._head /\ arenas[a][r]._head # b
        BY <2>4, <2>6, <3>2
      <4>2. /\ arenas[a][r]._head \in Free /\ header[arenas[a][r]._head].size = BlockSizes[r]
            /\ \A c \in Number, q \in SizeId :
                 arenas[c][q]._head = arenas[a][r]._head => a = c /\ r = q
        BY <2>7, <4>1 DEF ListsOK
      <4> QED
        BY <1>14, <2>4, <4>1, <4>2
    <3> QED
      BY <3>1, <3>2
  <2>8. ASSUME NEW c \in Free', header[c].next # NULL
        PROVE  /\ header[c].next \in Free'
               /\ header[header[c].next].size = header[c].size
               /\ \A a \in Number, r \in SizeId : arenas'[a][r]._head # header[c].next
               /\ \A d \in Free' : header[d].next = header[c].next => d = c
    <3>1. CASE c = b
      <4>1. n \in Free /\ n # b /\ header[n].size = header[c].size /\ header[c].next = n
        BY <1>4, <2>2, <2>3, <2>8, <3>1
      <4>2. \A a \in Number, r \in SizeId : arenas'[a][r]._head # n
        BY <2>2, <2>3, <2>4, <2>8, <3>1, <4>1
      <4>3. \A d \in Free' : header[d].next = n => d = c
        BY <1>14, <2>2, <2>5, <2>8, <3>1
      <4> QED
        BY <1>14, <4>1, <4>2, <4>3
    <3>2. CASE c # b
      <4>1. c \in Free
        BY <1>14, <3>2
      <4>2. /\ header[c].next \in Free
            /\ header[header[c].next].size = header[c].size
            /\ \A a \in Number, r \in SizeId : arenas[a][r]._head # header[c].next
            /\ \A d \in Free : header[d].next = header[c].next => d = c
        BY <2>8, <4>1 DEF ListsOK
      <4>3. header[c].next # n /\ header[c].next # b
        BY <2>5, <2>8, <4>1
      <4>4. \A a \in Number, r \in SizeId : arenas'[a][r]._head # header[c].next
        BY <2>4, <4>2, <4>3
      <4>5. \A d \in Free' : header[d].next = header[c].next => d = c
        BY <1>14, <2>2, <4>2, <4>3
      <4> QED
        BY <1>14, <4>2, <4>4, <4>5
    <3> QED
      BY <3>1, <3>2
  <2>9. \A c \in DOMAIN header : \E r \in SizeId : header[c].size = BlockSizes[r]
    BY DEF ListsOK
  <2>10. header' = header
    BY <1>6
  <2> QED
    BY <2>7, <2>8, <2>9, <2>10 DEF ListsOK
<1>17. BuffersOK'
  <2>1. \A a \in Number, r \in SizeId :
          /\ arenas'[a][r]._buffer = arenas[a][r]._buffer
          /\ arenas'[a][r]._size_in_buffer = arenas[a][r]._size_in_buffer
    BY <1>5, <1>7
  <2> QED
    BY <1>6, <2>1, BuffersFrame
<1> QED
  BY <1>9, <1>11, <1>15, <1>16, <1>17
-----------------------------------------------------------------------------
(* The theorems *)

\* A step of the pool under the conditions keeps it in order.
LEMMA PoolStep == ASSUME PoolInv, TableOK, kept', [Next]_vars PROVE PoolInv'
<1>1. CASE UNCHANGED <<arenas, header, buffers, held, pc, arena, block, asked>>
  BY <1>1, PoolFrame
<1>2. ASSUME NEW t \in Thread, NEW size \in Request, alloc(t, size) PROVE PoolInv'
  BY <1>2, AllocStep
<1>3. ASSUME NEW t \in Thread, NEW size \in Request, alloc_malloc(t, size) PROVE PoolInv'
  BY <1>3, MallocStep
<1>4. ASSUME NEW t \in Thread, NEW h \in held, free(t, h) PROVE PoolInv'
  BY <1>4, FreeStep
<1>5. ASSUME NEW t \in Thread, Pop(t) \/ Carve(t) \/ Push(t) PROVE PoolInv'
  BY <1>5, PopStep, CarveStep, PushStep
<1> QED
  BY <1>1, <1>2, <1>3, <1>4, <1>5 DEF Next, vars, unregister, enable, register_thread

\* The conditions, once broken, stay so.
LEMMA KeptBefore == ASSUME [Next]_vars, kept' PROVE kept
<1>1. ASSUME NEW t \in Thread, NEW size \in Request, alloc(t, size) PROVE kept
  BY <1>1 DEF alloc
<1>2. ASSUME NEW t \in Thread, NEW h \in held, free(t, h) PROVE kept
  BY <1>2 DEF free
<1>3. CASE UNCHANGED kept
  BY <1>3
<1> QED
  BY <1>1, <1>2, <1>3
     DEF Next, vars, unregister, enable, register_thread, alloc_malloc, Pop, Carve, Push, HandOut, Return

\* The table is in order in every state, and the pool as long as its callers keep to
\* the conditions.
THEOREM PoolInvariance == Spec => []Inv
<1>1. Init => Inv
  <2> SUFFICES ASSUME Init PROVE TableOK
    BY InitPool DEF Inv
  <2>1. pid_arena = [e \in Entry |-> NoEntry] /\ number = [t \in Thread |-> NULL]
    BY DEF Init
  <2>2. \A e \in Entry : pid_arena[e] = NoEntry
    BY <2>1
  <2> QED
    BY <2>1, <2>2, EmptyEntry, Pids DEF TableOK
<1>2. Inv /\ [Next]_vars => Inv'
  BY TableStep, PoolStep, KeptBefore DEF Inv
<1> QED
  BY <1>1, <1>2, PTL DEF Spec

\* What one thread holds or has in hand no other one can get: the invariant says
\* of each block that it is held, being freed or in one list.
LEMMA OnePlace == ASSUME PoolInv PROVE NoBlockTwice
<1> USE DEF PoolInv
<1>1. Cardinality(InUse) = Cardinality(held)
  <2> DEFINE f == [h \in held |-> h.block]
  <2>1. f \in [held -> InUse]
    BY DEF InUse
  <2>2. \A g, h \in held : f[g] = f[h] => g = h
    BY DEF HeldOK
  <2>3. \A b \in InUse : \E h \in held : f[h] = b
    BY DEF InUse
  <2> HIDE DEF f
  <2>4. f \in Bijection(held, InUse)
    <3>1. f \in Injection(held, InUse)
      BY <2>1, <2>2 DEF Injection, IsInjective
    <3>2. f \in Surjection(held, InUse)
      BY <2>1, <2>3 DEF Surjection
    <3> QED
      BY <3>1, <3>2 DEF Bijection
  <2>5. IsFiniteSet(held) /\ ExistsBijection(held, InUse)
    BY <2>4 DEF PoolTypes, ExistsBijection
  <2> QED
    BY <2>5, FS_Bijection
<1>2. NULL \notin InUse
  <2>1. \A h \in held : h.block \in Block
    BY DEF PoolTypes
  <2> QED
    BY <2>1, NullIsNoBlock DEF InUse, Block
<1>3. \A a \in DOMAIN arenas, s \in SizeId : arenas[a][s]._head \notin InUse
  <2>1. DOMAIN arenas = Number
    BY DEF PoolTypes
  <2> QED
    BY <1>2, <2>1 DEF ListsOK, Free
<1>4. ASSUME NEW t \in Thread
      PROVE  \/ block[t] = NULL
             \/ pc[t] = "push" /\ block[t] \in Freeing
             \/ \E a \in Number, s \in SizeId :
                  /\ pc[t] = "alloc" /\ arena[t] = <<a, s>> /\ block[t] = arenas[a][s]._head
                  /\ block[t] \in Free
  <2>1. pc[t] \in {"idle", "alloc", "push"} /\ InCall(t)
    BY DEF PoolTypes, CallOK
  <2>2. CASE pc[t] = "push"
    BY <2>2 DEF Freeing
  <2>3. CASE pc[t] = "alloc"
    <3>1. PICK a \in Number, s \in SizeId : arena[t] = <<a, s>> /\ block[t] = arenas[a][s]._head
      BY <2>1, <2>3 DEF InCall
    <3>2. block[t] # NULL => block[t] \in Free
      BY <2>1, <3>1 DEF ListsOK
    <3> QED
      BY <2>3, <3>1, <3>2
  <2>4. CASE pc[t] = "idle"
    BY <2>1, <2>4 DEF InCall
  <2> QED
    BY <2>1, <2>2, <2>3, <2>4
<1>5. \A t \in Thread : block[t] \notin InUse
  BY <1>2, <1>4 DEF HeldOK, Free
<1>6. ASSUME NEW t \in Thread, NEW u \in Thread, t # u, block[t] # NULL, block[t] = block[u]
      PROVE  FALSE
  <2>1. CASE pc[t] = "push" /\ block[t] \in Freeing
    <3>1. pc[u] = "push"
      BY <1>4, <1>6, <2>1 DEF Free
    <3> QED
      BY <1>6, <2>1, <3>1 DEF HeldOK
  <2>2. CASE pc[t] = "alloc" /\ block[t] \in Free
    <3>1. PICK a \in Number, s \in SizeId :
            pc[t] = "alloc" /\ arena[t] = <<a, s>> /\ block[t] = arenas[a][s]._head
      BY <1>4, <1>6, <2>2 DEF Free
    <3>2. PICK c \in Number, r \in SizeId :
            pc[u] = "alloc" /\ arena[u] = <<c, r>> /\ block[u] = arenas[c][r]._head
      BY <1>4, <1>6, <2>2 DEF Free
    <3>3. arenas[a][s]._head # NULL /\ arenas[c][r]._head = arenas[a][s]._head
      BY <1>6, <3>1, <3>2
    <3>4. a = c /\ s = r
      BY <3>3 DEF ListsOK
    <3> QED
      BY <1>6, <3>1, <3>2, <3>4 DEF CallOK, Apart
  <2> QED
    BY <1>4, <1>6, <2>1, <2>2
<1> QED
  BY <1>1, <1>3, <1>5, <1>6 DEF NoBlockTwice

\* However the threads register, and with whatever pids, get_arena_id finds what each
\* registered with first, and 0 for the others (mem_alloc.cpp:74-112).
THEOREM ArenasFound == Spec => []FindsOwn
<1>1. Inv => FindsOwn
  BY TableFinds DEF Inv
<1> QED
  BY <1>1, PoolInvariance, PTL

\* As long as no two calls meet in an arena and no foreign block is freed, no two
\* callers have the same block, and none has one that is free, without a lock on the
\* arenas (mem_alloc.cpp:32-58, 125-154).
THEOREM BlocksNotShared == Spec => []NoBlockTwice
<1>1. Inv => NoBlockTwice
  <2>1. PoolInv => NoBlockTwice
    BY OnePlace
  <2> QED
    BY <2>1 DEF Inv, NoBlockTwice
<1> QED
  BY <1>1, PoolInvariance, PTL

\* As long as that is so, a block is as large as its holder asked for, into whichever
\* arena it has been freed before (mem_alloc.cpp:114-136).
THEOREM BlocksLargeEnough == Spec => []BlocksServe
<1>1. Inv => BlocksServe
  BY DEF Inv, PoolInv, HeldOK, BlocksServe
<1> QED
  BY <1>1, PoolInvariance, PTL

\* As long as that is so, blocks lie side by side within their buffers
\* (mem_alloc.cpp:35-46).
THEOREM BlocksInBuffers == Spec => []BlocksFit
<1>1. Inv => BlocksFit
  BY DEF Inv, PoolInv, BuffersOK, BlocksFit
<1> QED
  BY <1>1, PoolInvariance, PTL
=============================================================================
