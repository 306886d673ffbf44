----------------------------- MODULE TCNVMalloc -----------------------------
(***************************************************************************)
(* The chunk allocator TCNVMalloc (src/r3/TCNVMalloc/src/tcnvmalloc.c):     *)
(* each thread carves blocks out of one foreground chunk per size class,    *)
(* keeps the chunks with free blocks on background lists and the empty ones *)
(* on a free list, and takes new chunks from the pools of the areas.        *)
(*                                                                         *)
(* A call is one step: all but gpool_acquire_chunk touches only the heap of *)
(* the thread, which frees the blocks it allocated, and the pools are under *)
(* their lock.  Addresses are numbers.  The queue of worn chunks stays      *)
(* empty, as the body of reap_chunk is commented out, and is left out.      *)
(***************************************************************************)
EXTENDS Integers, SequencesExt, FiniteSets, FiniteSetsExt

CONSTANTS
  Thread,
  Size,             \* cls2size of the classes 1, 2, ... asked for
  CHUNK_DATA_SIZE,
  Header,           \* sizeof(chunkh_t)
  APPLY_PHY_MEMORY, \* length of a segment
  hardware_mc,      \* capacity of each area, a sequence
  PoolGap,          \* distance of the RAW_POOL_STARTs
  WEAR_LIMIT,
  MaxLive           \* bound of the model on the blocks a thread holds

Class == DOMAIN Size
Area  == DOMAIN hardware_mc

ASSUME ChunkAssumption ==
  /\ CHUNK_DATA_SIZE \in Nat \ {0} /\ Header \in Nat \ {0}
  /\ APPLY_PHY_MEMORY \in Nat /\ APPLY_PHY_MEMORY >= 2 * (CHUNK_DATA_SIZE + Header)
  /\ Size \in Seq(1..CHUNK_DATA_SIZE) /\ hardware_mc \in Seq(Nat) /\ PoolGap \in Nat
  /\ WEAR_LIMIT \in Nat \ {0, 1} /\ MaxLive \in Nat

\* The areas lie far enough apart for the chunks that one can get, when every
\* growth passes over a second one.
ASSUME GapAssumption ==
  \A a \in Area :
    hardware_mc[a] > APPLY_PHY_MEMORY =>
      2 * ((hardware_mc[a] - APPLY_PHY_MEMORY) \div CHUNK_DATA_SIZE + 1)
        * (CHUNK_DATA_SIZE + Header) <= PoolGap

VARIABLES
  chunk,      \* headers of the chunks acquired, by address
  foreground, \* the chunk of each class of each thread, or DUMMY
  background, \* lists of chunks with free blocks
  free_list,  \* list of the chunks each thread has emptied
  pool,       \* [free_start, pool_end, used_mc, free_list] of each area
  live        \* the blocks each thread holds

vars == <<chunk, foreground, background, free_list, pool, live>>

DUMMY      == 0   \* the heap's dummy chunk: empty, and replaced when first used
CHUNK_SIZE == CHUNK_DATA_SIZE + Header
Align(x)   == ((x + CHUNK_SIZE - 1) \div CHUNK_SIZE) * CHUNK_SIZE
RAW_POOL_START(a) == (a - 1) * PoolGap + 1

\* central_pool_init and acquire_lheap.
Init ==
  /\ chunk = <<>>
  /\ foreground = [t \in Thread |-> [c \in Class |-> DUMMY]]
  /\ background = [t \in Thread |-> [c \in Class |-> <<>>]]
  /\ free_list = [t \in Thread |-> <<>>]
  /\ pool = [a \in Area |-> [free_start |-> Align(RAW_POOL_START(a)),
                             pool_end   |-> RAW_POOL_START(a) + APPLY_PHY_MEMORY,
                             used_mc    |-> 0,
                             free_list  |-> <<>>]]
  /\ live = [t \in Thread |-> {}]

\* The heaps and the pools as one record, for the operators of the code.
Heap == [chunk |-> chunk, foreground |-> foreground, background |-> background,
         free_list |-> free_list, pool |-> pool, crashed |-> FALSE]

Becomes(h) ==
  /\ ~h.crashed
  /\ chunk' = h.chunk
  /\ foreground' = h.foreground
  /\ background' = h.background
  /\ free_list' = h.free_list
  /\ pool' = h.pool

-----------------------------------------------------------------------------
\* Mutants: free_start is moved by a growth only; no growth.
gpool_acquire_chunk_still(p) ==
  LET fits  == p.free_start + CHUNK_SIZE <= p.pool_end
      grown == [p EXCEPT !.free_start = Align(p.pool_end), !.pool_end = @ + APPLY_PHY_MEMORY]
  IN  [chunk |-> p.free_start,
       pool  |-> [(IF fits THEN p ELSE grown) EXCEPT !.used_mc = @ + CHUNK_DATA_SIZE]]
gpool_acquire_chunk_ungrown(p) ==
  [chunk |-> p.free_start,
   pool  |-> [p EXCEPT !.free_start = @ + CHUNK_SIZE, !.used_mc = @ + CHUNK_DATA_SIZE]]

\* gpool_acquire_chunk with gpool_grow: a chunk that no longer fits straddles
\* the two segments, and free_start passes over the chunk after it.
gpool_acquire_chunk(p) ==
  LET fits  == p.free_start + CHUNK_SIZE <= p.pool_end
      grown == [p EXCEPT !.free_start = Align(p.pool_end), !.pool_end = @ + APPLY_PHY_MEMORY]
      from  == IF fits THEN p ELSE grown
  IN  [chunk |-> p.free_start,
       pool  |-> [from EXCEPT !.free_start = @ + CHUNK_SIZE, !.used_mc = @ + CHUNK_DATA_SIZE]]

HasRoom(p, a) == p.used_mc + APPLY_PHY_MEMORY < hardware_mc[a]

\* chunk_init of a new chunk of thread t.
chunk_init(t, c, ch) ==
  LET n == CHUNK_DATA_SIZE \div Size[c]
  IN  [owner |-> t, state |-> "FORG", size_cls |-> c, blk_cnt |-> n, free_mem_cnt |-> n,
       free_tot_cnt |-> n, free_mem |-> ch + Header, dlist |-> <<>>, wear_count |-> 0]

ToForeground(h, t, c, ch) ==
  [h EXCEPT !.foreground[t][c] = ch, !.chunk[ch].state = "FORG"]

\* A new chunk from the first area with room.  With every area at its limit
\* the search runs on to the null pointer behind the last area.
NewForeground(h, t, c) ==
  IF \A a \in Area : ~HasRoom(h.pool[a], a) THEN [h EXCEPT !.crashed = TRUE]
  ELSE LET a == Min({b \in Area : HasRoom(h.pool[b], b)})
           r == gpool_acquire_chunk(h.pool[a])
       IN  [h EXCEPT !.pool[a] = r.pool, !.foreground[t][c] = r.chunk,
                     !.chunk = [ch \in DOMAIN h.chunk \cup {r.chunk} |->
                                  IF ch = r.chunk THEN chunk_init(t, c, ch) ELSE h.chunk[ch]]]

\* A background chunk of the class, else one the thread has emptied (which
\* keeps the class it had), else a new one.
lheap_replace_foreground(h, t, c) ==
  IF h.background[t][c] # <<>>
  THEN ToForeground([h EXCEPT !.background[t][c] = Tail(@)], t, c, Head(h.background[t][c]))
  ELSE IF h.free_list[t] # <<>>
  THEN ToForeground([h EXCEPT !.free_list[t] = Tail(@)], t, c, Head(h.free_list[t]))
  ELSE NewForeground(h, t, c)

\* Mutant: the block taken stays on the list of freed ones.
chunk_alloc_obj_listed(k) ==
  IF k.free_mem_cnt > 0
  THEN [addr  |-> k.free_mem,
        chunk |-> [k EXCEPT !.free_mem = @ + Size[k.size_cls], !.free_mem_cnt = @ - 1]]
  ELSE [addr  |-> Last(k.dlist), chunk |-> k]

\* chunk_alloc_obj: the untouched end first, then the block freed first.
chunk_alloc_obj(k) ==
  IF k.free_mem_cnt > 0
  THEN [addr  |-> k.free_mem,
        chunk |-> [k EXCEPT !.free_mem = @ + Size[k.size_cls], !.free_mem_cnt = @ - 1]]
  ELSE [addr  |-> Last(k.dlist), chunk |-> [k EXCEPT !.dlist = Front(@)]]

\* unlikely(ch->wear_count) >= WEAR_LIMIT, with the parenthesis where it is:
\* the truth value of wear_count is what is compared.
Worn(k) == (IF k.wear_count # 0 THEN 1 ELSE 0) >= WEAR_LIMIT

\* The header when small_malloc has taken a block; of wear_count only the
\* truth value is followed.
Taken(k) ==
  LET r == chunk_alloc_obj(k).chunk
  IN  [r EXCEPT !.free_tot_cnt = r.free_tot_cnt - 1,
                !.state = IF r.free_tot_cnt = 1 THEN "FULL" ELSE r.state,
                !.wear_count = 1]

\* small_malloc for a heap whose foreground chunk is ch.
AllocFrom(h, t, c, ch) ==
  LET k    == Taken(h.chunk[ch])
      g    == [h EXCEPT !.chunk[ch] = k]
      next == IF k.free_tot_cnt = 0 THEN lheap_replace_foreground(g, t, c) ELSE g
  IN  [addr |-> chunk_alloc_obj(h.chunk[ch]).addr,
       heap |-> IF ~Worn(k) THEN next
                ELSE lheap_replace_foreground([next EXCEPT !.chunk[ch].state = "NAVA"], t, c)]

small_malloc(h, t, c) ==
  LET g == IF h.foreground[t][c] = DUMMY THEN lheap_replace_foreground(h, t, c) ELSE h
  IN  IF g.crashed THEN [addr |-> 0, heap |-> g]
      ELSE AllocFrom(g, t, c, g.foreground[t][c])

\* wa_malloc of a small block; a call that would crash is not made.
Malloc(t, c) ==
  /\ Cardinality(live[t]) < MaxLive
  /\ LET r == small_malloc(Heap, t, c)
     IN  /\ Becomes(r.heap)
         /\ live' = [live EXCEPT ![t] = @ \cup {[at |-> r.addr, size |-> Size[c]]}]

-----------------------------------------------------------------------------
\* chunk_extract_header.
ChunkOf(addr) == addr - (addr % CHUNK_SIZE)

\* The area chunk_free_small takes an address to be in.
PoolOf(addr) == Max({a \in Area : a = 1 \/ addr >= RAW_POOL_START(a)})

\* Mutants: a freed block counted twice; an emptied chunk left on its
\* background list as well.
chunk_free_small_twice(h, addr) ==
  [h EXCEPT !.chunk[ChunkOf(addr)].dlist = <<addr>> \o @,
            !.chunk[ChunkOf(addr)].free_tot_cnt = @ + 2]
chunk_free_small_kept(h, addr) ==
  LET ch == ChunkOf(addr)
      k  == [h.chunk[ch] EXCEPT !.dlist = <<addr>> \o @, !.free_tot_cnt = @ + 1]
      g  == [h EXCEPT !.chunk[ch] = k]
  IN  CASE k.state = "FULL" -> [g EXCEPT !.background[k.owner][k.size_cls] = Append(@, ch),
                                         !.chunk[ch].state = "BACK"]
        [] k.state = "BACK" /\ k.free_tot_cnt = k.blk_cnt ->
             [g EXCEPT !.free_list[k.owner] = Append(@, ch)]
        [] OTHER -> g

\* list_del of a chunk from the list it is on.
list_del(s, ch) == RemoveAt(s, CHOOSE i \in DOMAIN s : s[i] = ch)

\* chunk_free_small: the freed block is the last to be handed out again; a
\* full chunk becomes available, an emptied one changes to the free list.
chunk_free_small(h, addr) ==
  LET ch == ChunkOf(addr)
      k  == [h.chunk[ch] EXCEPT !.dlist = <<addr>> \o @, !.free_tot_cnt = @ + 1]
      g  == [h EXCEPT !.chunk[ch] = k]
      empty == k.free_tot_cnt = k.blk_cnt
  IN  CASE k.state = "FULL" -> [g EXCEPT !.background[k.owner][k.size_cls] = Append(@, ch),
                                         !.chunk[ch].state = "BACK"]
        [] k.state = "BACK" /\ empty ->
             [g EXCEPT !.background[k.owner][k.size_cls] = list_del(@, ch),
                       !.free_list[k.owner] = Append(@, ch)]
        [] k.state = "NAVA" /\ empty ->
             [g EXCEPT !.pool[PoolOf(addr)].free_list = Append(@, ch),
                       !.pool[PoolOf(addr)].used_mc = @ - CHUNK_DATA_SIZE]
        [] OTHER -> g

\* wa_free of a small block by the thread that holds it.
Free(t, b) ==
  /\ Becomes(chunk_free_small(Heap, b.at))
  /\ live' = [live EXCEPT ![t] = @ \ {b}]

Next ==
  \E t \in Thread : \/ \E c \in Class : Malloc(t, c)
                    \/ \E b \in live[t] : Free(t, b)

Spec == Init /\ [][Next]_vars

-----------------------------------------------------------------------------
Chunks   == DOMAIN chunk
AllLive  == UNION {live[t] : t \in Thread}
Cells(b) == b.at..b.at + b.size - 1

TypeOK ==
  /\ \A ch \in Chunks :
       /\ chunk[ch].owner \in Thread /\ chunk[ch].size_cls \in Class
       /\ chunk[ch].state \in {"FORG", "BACK", "FULL"}
       /\ chunk[ch].free_tot_cnt \in 0..chunk[ch].blk_cnt
       /\ chunk[ch].wear_count \in {0, 1}
  /\ foreground \in [Thread -> [Class -> Chunks \cup {DUMMY}]]
  /\ \A t \in Thread : ToSet(free_list[t]) \subseteq Chunks
  /\ \A a \in Area : pool[a].used_mc \in 0..hardware_mc[a]

\* The counts of a header agree with the blocks: a block is in use, on the
\* list of freed blocks or in the untouched end, and in one of these only.
\* Were one block in two, it would be handed out while in use.
CountsAgree ==
  \A ch \in Chunks :
    LET k     == chunk[ch]
        inUse == {b.at : b \in {d \in AllLive : ChunkOf(d.at) = ch}}
        freed == ToSet(k.dlist)
    IN  /\ k.free_tot_cnt = k.free_mem_cnt + Len(k.dlist)
        /\ k.free_tot_cnt + Cardinality(inUse) = k.blk_cnt
        /\ Cardinality(freed) = Len(k.dlist)
        /\ inUse \cap freed = {}
        /\ \A x \in inUse \cup freed : ch + Header <= x /\ x < k.free_mem

\* The state of a chunk tells where it is, in its owner's heap and in one
\* place only: the foreground of one class, the background list of its own
\* class, the free list with every block free, or nowhere when full.
PlaceTellsState ==
  \A ch \in Chunks :
    LET k  == chunk[ch]
        fg == {p \in Thread \X Class : foreground[p[1]][p[2]] = ch}
        bg == {p \in Thread \X Class : ch \in ToSet(background[p[1]][p[2]])}
        fl == {t \in Thread : ch \in ToSet(free_list[t])}
    IN  CASE k.state = "FORG" -> /\ \E c \in Class : fg = {<<k.owner, c>>}
                                 /\ bg = {} /\ fl = {} /\ k.free_tot_cnt > 0
          [] k.state = "FULL" -> fg = {} /\ bg = {} /\ fl = {} /\ k.free_tot_cnt = 0
          [] k.state = "BACK" ->
               /\ fg = {} /\ k.free_tot_cnt > 0
               /\ \/ bg = {<<k.owner, k.size_cls>>} /\ fl = {}
                  \/ bg = {} /\ fl = {k.owner} /\ k.free_tot_cnt = k.blk_cnt

\* Chunks lie in the mapped part of one area, none is given out twice, and a
\* growth costs one chunk at most.
ChunksInPools ==
  \A a \in Area :
    LET start    == RAW_POOL_START(a)
        mine     == {ch \in Chunks : PoolOf(ch) = a}
        segments == (pool[a].pool_end - start) \div APPLY_PHY_MEMORY
    IN  /\ \A ch \in mine : ch >= start /\ ch + CHUNK_SIZE <= pool[a].pool_end
        /\ pool[a].used_mc = CHUNK_DATA_SIZE * Cardinality(mine)
        /\ (pool[a].free_start - Align(start)) \div CHUNK_SIZE
             <= Cardinality(mine) + segments - 1

\* A block larger than those its chunk is cut into: a chunk the thread has
\* emptied keeps the class it had when it serves another one.
Undersized(b) == b.size > Size[chunk[ChunkOf(b.at)].size_cls]

\* Two blocks, of one thread or of two, have addresses of their own, and the
\* first reaches into the second only if its chunk is cut into smaller blocks
\* than were asked for: nothing else makes wa_malloc hand out a byte twice.
OnlyUndersizedOverlap ==
  \A t, u \in Thread : \A b \in live[t], d \in live[u] :
    <<t, b>> # <<u, d>> /\ b.at <= d.at =>
      b.at < d.at /\ (Undersized(b) \/ Cells(b) \cap Cells(d) = {})

\* The bytes asked for are the caller's alone. Does not hold.
NoOverlap ==
  \A t, u \in Thread : \A b \in live[t], d \in live[u] :
    <<t, b>> # <<u, d>> => Cells(b) \cap Cells(d) = {}
=============================================================================
