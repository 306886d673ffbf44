------------------------------ MODULE SpanHeap ------------------------------
(***************************************************************************)
(* The central pools of the memory areas (hpnmalloc.c): spans cut from the  *)
(* untouched end of the newest segment, free lists indexed by page count,   *)
(* splitting, growth.  Every operator maps a heap record to the heap record *)
(* the code leaves behind; the caller holds the area's lock.                *)
(*                                                                         *)
(* A span is named by the place of its header, which is that of its first   *)
(* page: the headers of an area are an array as long as its pages.          *)
(***************************************************************************)
EXTENDS Span, ListHead, AddressMap

CONSTANT LARGE_BLOCK_NUM  \* free lists of an area; the last takes larger spans

ASSUME HeapAssumption ==
  /\ LARGE_BLOCK_NUM \in Nat /\ LARGE_BLOCK_NUM > 1
  /\ LARGE_BLOCK_NUM - 1 <= SegPages

\* Nodes are numbers, as addresses are: spans above 0, list heads below.
NULL      == 0
LARGE     == LARGE_BLOCK_NUM - 1         \* span_category of a large span
ListIndex == 0..LARGE_BLOCK_NUM - 1
Spans     == 1..AREA_NUM * AreaPages
SpanAt(a, k)   == a * AreaPages + k + 1
AreaOf(s)      == (s - 1) \div AreaPages
PageOf(s)      == (s - 1) % AreaPages
FreeList(a, i) == -(a * LARGE_BLOCK_NUM + i + 1)
FreeLists      == -(AREA_NUM * LARGE_BLOCK_NUM)..-1

\* Blocks of a span of class c: PAGE_SIZE / ((c + 1) * 64).
TotalBlocks(c) == PageUnits \div (c + 1)

\* The address of a span's first page.
AddressOf(s) == RAW_POOL_START(AreaOf(s)) + PageOf(s) * PageUnits

\* pool_end, in pages.
FreeEnd(h, a)  == h.segments[a] * SegPages

\* Mutant: the list of n + 1 pages.
IndexFor_pages(n) == IF n <= LARGE THEN n ELSE LARGE

\* The free list for spans of n pages.
IndexFor(n) == IF n <= LARGE THEN n - 1 ELSE LARGE

\* central_pool_init for every area; the list heads, those of the caches
\* included, are the nodes from lowest to -1.
HeapInit(lowest) ==
  LET links == [n \in lowest..AREA_NUM * AreaPages |-> IF n < 0 THEN n ELSE NULL]
  IN  [next |-> links,
       prev |-> links,
       hdr  |-> [s \in Spans |-> [bitmap |-> {}, cur_pos |-> 0, free_block_num |-> 0,
                                  wear_count |-> 0, category |-> 0, page_num |-> 0]],
       span_map   |-> [a \in Area |-> [k \in {0} |-> SPAN_MAP_POOL_START(a)]],
       entry      |-> [e \in MapEntries |-> NULL],
       free_start |-> [a \in Area |-> 0],
       segments   |-> [a \in Area |-> 1],
       max_wc     |-> [a \in Area |-> 0],
       max_wear_page_index |-> [a \in Area |-> [i \in ListIndex |-> NULL]]]

-----------------------------------------------------------------------------
\* reset_span_map: the map leads from the first page of a span to its header.
reset_span_map(h, s) ==
  [h EXCEPT !.entry[EntryAt(h.span_map[AreaOf(s)], AddressOf(s) - RAW_POOL_START(AreaOf(s)))] = s]

\* span_extract_header: the header the map gives for the page of an address.
span_extract_header(h, addr) ==
  LET a == AreaOfAddress(addr)
  IN  h.entry[EntryAt(h.span_map[a], addr - RAW_POOL_START(a))]

\* Mutants: the page count of a large span one short; the links left as they are.
span_init_short(h, s, index, category) ==
  LET hdr == IF category # LARGE
             THEN [SpanInit(h.hdr[s], TotalBlocks(index)) EXCEPT !.category = index]
             ELSE [h.hdr[s] EXCEPT !.category = LARGE, !.page_num = index]
  IN  reset_span_map(INIT_LIST_HEAD([h EXCEPT !.hdr[s] = hdr], s), s)
span_init_unlinked(h, s, index, category) ==
  LET hdr == IF category # LARGE
             THEN [SpanInit(h.hdr[s], TotalBlocks(index)) EXCEPT !.category = index]
             ELSE [h.hdr[s] EXCEPT !.category = LARGE, !.page_num = index + 1]
  IN  reset_span_map([h EXCEPT !.hdr[s] = hdr], s)

\* span_init with span_map_flag: a small span of class "index", or a large
\* one of index + 1 pages.
span_init(h, s, index, category) ==
  LET hdr == IF category # LARGE
             THEN [SpanInit(h.hdr[s], TotalBlocks(index)) EXCEPT !.category = index]
             ELSE [h.hdr[s] EXCEPT !.category = LARGE, !.page_num = index + 1]
  IN  reset_span_map(INIT_LIST_HEAD([h EXCEPT !.hdr[s] = hdr], s), s)

\* Mutant: the maximum is not recorded.
NewMaxLost(h, a, i, w) == [h EXCEPT !.max_wear_page_index[a][i] = NULL]

NewMax(h, a, i, w) == [h EXCEPT !.max_wc[a] = w, !.max_wear_page_index[a][i] = NULL]

\* The header of a small span that goes back, a span of one page: page_num
\* lies over the low 16 bits of the bitmap (the union of struct span), so
\* the number written there leaves block 1 of the first 16 free.  The page
\* count of a large span lies over its bitmap too, which nobody reads before
\* span_init sets it anew.
Returned(v) ==
  IF v.category = LARGE THEN v
  ELSE [v EXCEPT !.page_num = 1, !.bitmap = {1} \cup {b \in @ : b > 16}]

\* span_back_to_centralpool.  The loop that is to clear the index of the
\* other lists writes to the span's own list instead, so a new maximum
\* leaves its own list without an index and the others with theirs.
span_back_to_centralpool(h, s) ==
  LET a    == AreaOf(s)
      v    == Returned(h.hdr[s])
      i    == IndexFor(v.page_num)
      head == FreeList(a, i)
      w    == v.wear_count
      max  == h.max_wear_page_index[a][i]
      g    == [h EXCEPT !.hdr[s] = v]
  IN  CASE w > h.max_wc[a] -> NewMax(list_add_tail(g, s, head), a, i, w)
        [] w = h.max_wc[a] ->
             [list_add_tail(g, s, head) EXCEPT
                !.max_wear_page_index[a][i] = IF max = NULL THEN s ELSE @]
        [] w < h.max_wc[a] /\ max = NULL -> list_add_tail(g, s, head)
        [] OTHER                         -> list_add(g, s, max)

\* Mutant: the index stays on a span that is taken.
SkipFirst_kept(h, a, i) == h

\* acquire_span moves the index past the first span of list i before taking it.
SkipFirst(h, a, i) ==
  LET first == h.next[FreeList(a, i)]
      after == h.next[first]
  IN  [h EXCEPT !.max_wear_page_index[a][i] =
         IF @ # first THEN @ ELSE IF after = FreeList(a, i) THEN NULL ELSE after]

\* Mutant: the rest starts on the last page of the part kept.
span_split_early(h, s, cur, target) ==
  LET last == IF cur = LARGE THEN h.hdr[s].page_num - 1 ELSE cur
      rest == SpanAt(AreaOf(s), PageOf(s) + target)
      g    == [h EXCEPT !.hdr[rest].wear_count = h.hdr[s].wear_count]
  IN  span_back_to_centralpool(span_init(g, rest, last - target - 1, LARGE), rest)

\* span_split: the pages behind the first target + 1 of a span become a span
\* of their own, with the wear of the whole, and go back to the pool.
span_split(h, s, cur, target) ==
  LET last == IF cur = LARGE THEN h.hdr[s].page_num - 1 ELSE cur
      rest == SpanAt(AreaOf(s), PageOf(s) + target + 1)
      g    == [h EXCEPT !.hdr[rest].wear_count = h.hdr[s].wear_count]
  IN  span_back_to_centralpool(span_init(g, rest, last - target - 1, LARGE), rest)

\* Mutant: the table of the new segment replaces that of the one before.
central_pool_grow_refiled(h, a) ==
  [h EXCEPT !.free_start[a] = FreeEnd(h, a),
            !.segments[a] = @ + 1,
            !.span_map[a] = [k \in 0..h.segments[a] |->
               IF k >= h.segments[a] - 1 THEN SPAN_MAP_POOL_START(a) + FreeEnd(h, a) ELSE @[k]]]

\* central_pool_grow: the tables of the map follow each other in memory, as
\* the segments do.
central_pool_grow(h, a) ==
  LET index == memory_index(FreeEnd(h, a) * PageUnits)
  IN  [h EXCEPT !.free_start[a] = FreeEnd(h, a),
                !.segments[a] = @ + 1,
                !.span_map[a] = [k \in DOMAIN @ \cup {index} |->
                   IF k = index THEN SPAN_MAP_POOL_START(a) + FreeEnd(h, a) ELSE @[k]]]

\* Mutant: free_start one page short.
Cut_short(h, a, index) ==
  LET s == SpanAt(a, h.free_start[a])
  IN  [span |-> s,
       heap |-> [h EXCEPT !.hdr[s].wear_count = 0,
                          !.free_start[a] = @ + index]]

\* The pages at free_start; the comparison that lets acquire_span come here
\* is strict, so the last page of a segment is reached only by a span that
\* fills a segment of its own.
Cut(h, a, index) ==
  LET s == SpanAt(a, h.free_start[a])
  IN  [span |-> s,
       heap |-> [h EXCEPT !.hdr[s].wear_count = 0,
                          !.free_start[a] = @ + index + 1]]

\* Mutant: the room of a single page is taken for enough.
HasUncut_one(h, a, index) == h.free_start[a] + 1 < FreeEnd(h, a)

HasUncut(h, a, index) == h.free_start[a] + index + 1 < FreeEnd(h, a)
FittingLists(h, a, index) ==
  {i \in ListIndex : i >= index /\ ~list_empty(h, FreeList(a, i))}

\* The bound of the model: acquire_span of index + 1 pages need not grow
\* beyond MaxSegs segments.
CanAcquire(h, a, index) ==
  \/ HasUncut(h, a, index)
  \/ FittingLists(h, a, index) # {}
  \/ h.segments[a] < MaxSegs

acquire_span(h, a, index) ==
  LET fit   == FittingLists(h, a, index)
      i     == Min(fit)
      first == h.next[FreeList(a, i)]
      g     == SkipFirst(h, a, i)
  IN  CASE HasUncut(h, a, index) -> Cut(h, a, index)
        [] ~HasUncut(h, a, index) /\ fit # {} ->
             [span |-> first,
              heap |-> list_del(IF i = index THEN g ELSE span_split(g, first, i, index), first)]
        [] OTHER -> Cut(central_pool_grow(h, a), a, index)

-----------------------------------------------------------------------------
\* What the properties look at: the spans of each free list, and the pages
\* of a span of n pages.
Listed(h, a, i) == EntrySet(h, FreeList(a, i), AREA_NUM * AreaPages)
InCentral(h, a) == UNION {Listed(h, a, i) : i \in ListIndex}
ExtentOf(s, n)  == s..s + n - 1

\* Every node of the lists of these heads is between its neighbours, and
\* nothing was written through NULL.
RingsCoherent(h, heads) ==
  /\ \A head \in heads :
       \A n \in EntrySet(h, head, AREA_NUM * AreaPages) \cup {head} : Linked(h, n)
  /\ h.next[NULL] = NULL /\ h.prev[NULL] = NULL
=============================================================================
