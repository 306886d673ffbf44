---------------------------- MODULE CentralPool ----------------------------
(***************************************************************************)
(* The central pools as the threads drive them, each call under the lock of *)
(* its area and so one step: pages fetched for a cache, large spans         *)
(* allocated, spans given back with the wear they have gathered.            *)
(***************************************************************************)
EXTENDS SpanHeap

CONSTANTS
  FIXED_THRESHOLD, \* least wear at which a small span is given back
  MaxWear          \* bound of the model on the wear of a span

ASSUME PoolAssumption == FIXED_THRESHOLD \in Nat /\ MaxWear \in Nat

VARIABLES
  heap,  \* the heap record of SpanHeap
  held,  \* the spans out of the pool, with their pages and use
  lost   \* pages a growth left behind at the end of a segment

vars == <<heap, held, lost>>

Uses == {"page", "small", "large"}
Hold(s, n, use) == [span |-> s, pages |-> n, use |-> use]

Init ==
  /\ heap = HeapInit(-(AREA_NUM * LARGE_BLOCK_NUM))
  /\ held = {}
  /\ lost = {}

\* What a growth of area a abandons.
Abandoned(a, g) ==
  IF g.segments[a] = heap.segments[a] THEN {}
  ELSE {SpanAt(a, k) : k \in heap.free_start[a]..FreeEnd(heap, a) - 1}

\* acquire_span(pool, 0): a page for a cache, its header not yet initialised.
FetchPage(a) ==
  /\ CanAcquire(heap, a, 0)
  /\ LET r == acquire_span(heap, a, 0)
     IN  /\ heap' = r.heap
         /\ held' = held \cup {Hold(r.span, 1, "page")}
         /\ lost' = lost \cup Abandoned(a, r.heap)

\* span_init of a fetched page, at once or when the cache comes to use it.
InitSmall(h) ==
  /\ h.use = "page"
  /\ heap' = span_init(heap, h.span, 0, 0)
  /\ held' = (held \ {h}) \cup {Hold(h.span, 1, "small")}
  /\ UNCHANGED lost

\* acquire_span_from_centralpool1: large_malloc of n pages.
AcquireLarge(a, n) ==
  /\ CanAcquire(heap, a, n - 1)
  /\ LET r == acquire_span(heap, a, n - 1)
     IN  /\ heap' = span_init(r.heap, r.span, n - 1, LARGE)
         /\ held' = held \cup {Hold(r.span, n, "large")}
         /\ lost' = lost \cup Abandoned(a, r.heap)

\* A cache gives back a small span that has worn to the threshold or beyond.
ReturnSmall(h) ==
  /\ h.use = "small"
  /\ \E w \in FIXED_THRESHOLD..MaxWear :
       /\ w >= heap.hdr[h.span].wear_count
       /\ heap' = span_back_to_centralpool([heap EXCEPT !.hdr[h.span].wear_count = w], h.span)
  /\ held' = held \ {h}
  /\ UNCHANGED lost

\* large_free.
ReturnLarge(h) ==
  /\ h.use = "large"
  /\ heap' = span_back_to_centralpool(heap, h.span)
  /\ held' = held \ {h}
  /\ UNCHANGED lost

Next ==
  \/ \E a \in Area : FetchPage(a)
  \/ \E a \in Area, n \in 2..LARGE : AcquireLarge(a, n)
  \/ \E h \in held : InitSmall(h) \/ ReturnSmall(h) \/ ReturnLarge(h)

Spec == Init /\ [][Next]_vars

-----------------------------------------------------------------------------
TypeOK ==
  /\ \A s \in Spans : /\ heap.hdr[s].wear_count \in 0..MaxWear
                      /\ heap.hdr[s].page_num \in 0..LARGE
                      /\ heap.hdr[s].category \in {0, LARGE}
  /\ heap.entry \in [MapEntries -> Spans \cup {NULL}]
  /\ \A a \in Area : /\ heap.segments[a] \in 1..MaxSegs
                     /\ heap.free_start[a] \in 0..FreeEnd(heap, a)
                     /\ heap.max_wc[a] \in 0..MaxWear
                     /\ heap.max_wear_page_index[a] \in [ListIndex -> Spans \cup {NULL}]
  /\ held \subseteq [span : Spans, pages : 1..LARGE, use : Uses]
  /\ lost \subseteq Spans

HeldExtents   == {ExtentOf(h.span, h.pages) : h \in held}
ListedExtents == UNION {{ExtentOf(s, i + 1) : s \in Listed(heap, a, i)} :
                          a \in Area, i \in ListIndex}
CutPages      == UNION {{SpanAt(a, k) : k \in 0..heap.free_start[a] - 1} : a \in Area}

\* Every page ever cut from a segment is in exactly one place - held, on a
\* free list or left behind by a growth - and extents never overlap:
\* acquire_span, span_split and span_back_to_centralpool neither lose a page
\* nor give one out twice.
PagesPartitioned ==
  LET extents == HeldExtents \cup ListedExtents
  IN  /\ (UNION extents) \cup lost = CutPages
      /\ lost \cap UNION extents = {}
      /\ \A e, f \in extents : e # f => e \cap f = {}
      /\ HeldExtents \cap ListedExtents = {}
      /\ \A e \in extents : Cardinality({PageOf(s) \div SegPages : s \in e}) = 1

\* The free list a span is found on tells its page count, its links are
\* coherent, and no span ever reaches the list of larger spans.
ListsIndexed ==
  /\ RingsCoherent(heap, FreeLists)
  /\ \A a \in Area : Listed(heap, a, LARGE) = {}
  /\ \A a \in Area, i \in 0..LARGE - 1 :
       \A s \in Listed(heap, a, i) : heap.hdr[s].page_num = i + 1 /\ AreaOf(s) = a

\* max_wear_page_index of a list is NULL or a span of that very list, so
\* list_add never inserts next to a span that has been handed out.
IndexOnItsList ==
  \A a \in Area, i \in ListIndex :
    heap.max_wear_page_index[a][i] \in Listed(heap, a, i) \cup {NULL}

\* max_wc_count bounds the wear of every span in the pool and of every page
\* just fetched from it, so the unsigned difference that
\* reset_localcache_wc_threshold takes never wraps.
PoolWearBounded ==
  /\ \A a \in Area : \A s \in InCentral(heap, a) : heap.hdr[s].wear_count <= heap.max_wc[a]
  /\ \A h \in held : h.use \in {"page", "large"}
                       => heap.hdr[h.span].wear_count <= heap.max_wc[AreaOf(h.span)]

\* A span as worn as any in its pool is behind every less worn span of its
\* list: the wear levelling that max_wear_page_index is kept for.
WornLast ==
  \A a \in Area, i \in ListIndex :
    LET e == Entries(heap, FreeList(a, i), AREA_NUM * AreaPages)
    IN  \A j, k \in DOMAIN e :
          j < k /\ heap.hdr[e[j]].wear_count = heap.max_wc[a]
            => heap.hdr[e[k]].wear_count = heap.max_wc[a]

\* Every address at which a block in a held span can start, those of its
\* first page, leads through the map to the span's header, whatever spans
\* its pages belonged to before and however the pool has grown.
LookupFindsHeader ==
  \A h \in held : h.use # "page" =>
    \A x \in AddressOf(h.span)..AddressOf(h.span) + PageUnits - 1 :
      span_extract_header(heap, x) = h.span

-----------------------------------------------------------------------------
\* The extents held from area a, for the abstract allocator.
AllocOf(a) == {[first |-> PageOf(h.span), pages |-> h.pages] :
                 h \in {g \in held : AreaOf(g.span) = a}}
=============================================================================
