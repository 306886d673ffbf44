---------------------------- MODULE CentralPoolProofs ----------------------------
(***************************************************************************)
(* The invariants of CentralPool, for every number and size of areas,       *)
(* segments, pages and free lists, and that the pool of an area implements  *)
(* the allocator of page extents.                                           *)
(***************************************************************************)
EXTENDS MCCentralPool, SpanHeapProofs

Lowest     == -(AREA_NUM * LARGE_BLOCK_NUM)
PieceOf(k) == [at |-> k.span, pages |-> k.pages]
Pieces(H)  == {PieceOf(k) : k \in H}
Holds      == [span : Spans, pages : 1..LARGE, use : Uses]

\* The header and the map say of a held span what its use needs of them.
Described(h, k) ==
  /\ k.use # "large" => k.pages = 1
  /\ k.use = "large" => h.hdr[k.span].category = LARGE /\ h.hdr[k.span].page_num = k.pages
  /\ k.use = "small" => h.hdr[k.span].category = 0
  /\ k.use # "small" => h.hdr[k.span].wear_count <= h.max_wc[AreaOf(k.span)]
  /\ k.use # "page" => h.entry[k.span - 1] = k.span

\* Wear stays within the bound of the model; spans are small of class 0 or large.
WornWithin(h) ==
  /\ \A s \in Spans : h.hdr[s].wear_count <= MaxWear /\ h.hdr[s].category \in {0, LARGE}
  /\ \A a \in Area : h.max_wc[a] <= MaxWear

\* The inductive invariant, of heap h, held spans H and lost pages L: some
\* assignment of spans to free lists makes the heap a pool that, with what is
\* held and what is lost, accounts for every page cut.
Good(h, H, L) ==
  /\ H \subseteq Holds
  /\ \A j, k \in H : j.span = k.span => j = k
  /\ \E S : Pool(Lowest, h, S, Pieces(H), L)
  /\ \A k \in H : Described(h, k)
  /\ WornWithin(h)

IInv == Good(heap, held, lost)

-----------------------------------------------------------------------------
\* The nodes are the spans, the list heads and NULL.
LEMMA LowestNodes == Lowest \in Int /\ FreeLists \subseteq Node(Lowest)
  <1>1. AREA_NUM * LARGE_BLOCK_NUM \in Nat /\ AREA_NUM * AreaPages \in Nat  BY Sizes
  <1> QED  BY <1>1 DEF Lowest, FreeLists, Node

\* A hold is as well described by a heap that has kept its header, its entry
\* in the map and at least the wear of its area.
LEMMA StillDescribed ==
  ASSUME NEW lowest, NEW h \in HeapType(lowest), NEW g \in HeapType(lowest),
         NEW k \in Holds, Described(h, k),
         g.hdr[k.span] = h.hdr[k.span], \A a \in Area : g.max_wc[a] >= h.max_wc[a],
         h.entry[k.span - 1] = k.span => g.entry[k.span - 1] = k.span
  PROVE  Described(g, k)
  <1>1. k.span \in Spans  BY DEF Holds
  <1>2. AreaOf(k.span) \in Area  BY <1>1, PageOfSpan
  <1>3. /\ h.hdr[k.span].wear_count \in Nat
        /\ g.max_wc[AreaOf(k.span)] \in Nat /\ h.max_wc[AreaOf(k.span)] \in Nat
    BY <1>1, <1>2 DEF HeapType, HeaderType
  <1> QED  BY <1>2, <1>3 DEF Described

\* The invariant with a piece e out of the pool whose use is still to be told.
GoodBut(g, e, H, L) ==
  /\ e.at \in Spans /\ e \notin Pieces(H)
  /\ \E S : Pool(Lowest, g, S, Pieces(H) \cup {e}, L)
  /\ \A k \in H : Described(g, k) /\ k.span # e.at
  /\ WornWithin(g)
  /\ g.hdr[e.at].wear_count <= g.max_wc[AreaOf(e.at)]

\* What acquiring a piece leaves of the invariant to be shown for that piece.
LEMMA AcquiredGood ==
  ASSUME NEW h, NEW H, NEW L, Good(h, H, L), NEW a \in Area,
         NEW index \in 0..LARGE - 1, CanAcquire(h, a, index),
         NEW r, r = acquire_span(h, a, index),
         NEW more, more = IF r.heap.segments[a] = h.segments[a] THEN {} ELSE Left(h, a),
         NEW e, e = [at |-> r.span, pages |-> index + 1]
  PROVE  GoodBut(r.heap, e, H, L \cup more)
  <1>1. PICK S : Pool(Lowest, h, S, Pieces(H), L)  BY DEF Good
  <1>2. Acquired(Lowest, h, r, a, e, Pieces(H), L)
    BY <1>1, LowestNodes, AcquirePool
  <1>3. PICK R : Pool(Lowest, r.heap, R, Pieces(H) \cup {e}, L \cup more)
    BY <1>2 DEF Acquired
  <1>4. /\ e \in Piece /\ e \notin Pieces(H) /\ e.at = r.span /\ AreaOf(r.span) = a
        /\ Taken(h, r.heap, Pieces(H), a, r.span)
    BY <1>2 DEF Acquired
  <1>5. h \in HeapType(Lowest) /\ r.heap \in HeapType(Lowest)  BY <1>1, <1>3 DEF Pool
  <1>6. ASSUME NEW k \in H  PROVE Described(r.heap, k) /\ k.span # r.span
    <2>1. k \in Holds /\ Described(h, k) /\ PieceOf(k) \in Pieces(H)  BY DEF Good, Pieces
    <2>2. PieceOf(k).at = k.span  BY SMTT(30) DEF PieceOf
    <2>3. r.heap.hdr[k.span] = h.hdr[k.span]  BY <1>4, <2>1, <2>2 DEF Taken
    <2>4. k.span - 1 \in MapEntries /\ (k.span - 1) + 1 = k.span
      <3>1. AREA_NUM * AreaPages \in Nat  BY Sizes
      <3>2. k.span \in Spans  BY SMTT(30), <2>1 DEF Holds
      <3> QED  BY <3>1, <3>2 DEF Spans, MapEntries
    <2>5. h.entry[k.span - 1] = k.span => r.heap.entry[k.span - 1] = k.span
      BY <1>4, <2>4 DEF Taken
    <2>6. \A b \in Area : r.heap.max_wc[b] >= h.max_wc[b]
      <3>1. r.heap.max_wc = h.max_wc /\ h.max_wc \in [Area -> Nat]
        BY <1>4, <1>5 DEF Taken, HeapType
      <3> QED  BY SMTT(30), <3>1
    <2>7. Described(r.heap, k)  BY <1>5, <2>1, <2>3, <2>5, <2>6, StillDescribed
    <2>8. k.span # r.span
      <3>1. PieceOf(k) \in Pieces(H) \cup {e} /\ e \in Pieces(H) \cup {e}  BY <2>1
      <3>2. PieceOf(k).at = e.at => PieceOf(k) = e  BY <1>3, <3>1, HeldPiece
      <3> QED  BY <1>4, <2>1, <2>2, <3>2
    <2> QED  BY <2>7, <2>8
  <1>7. WornWithin(r.heap)
    <2>1. r.heap.max_wc = h.max_wc  BY <1>4 DEF Taken
    <2>2. ASSUME NEW x \in Spans
          PROVE  r.heap.hdr[x].wear_count <= MaxWear /\ r.heap.hdr[x].category \in {0, LARGE}
      <3>1. /\ r.heap.hdr[x].category \in {h.hdr[x].category, LARGE}
            /\ r.heap.hdr[x].wear_count \in {0} \cup {h.hdr[y].wear_count : y \in Spans}
        BY <1>4 DEF Taken
      <3>2. MaxWear \in Nat  BY PoolAssumption
      <3>3. \A y \in Spans : h.hdr[y].wear_count <= MaxWear /\ h.hdr[y].category \in {0, LARGE}
        BY SMTT(30) DEF Good, WornWithin
      <3> QED  BY SMTT(30), <3>1, <3>2, <3>3
    <2> QED  BY SMTT(30), <2>1, <2>2 DEF Good, WornWithin
  <1>8. r.heap.hdr[r.span].wear_count <= r.heap.max_wc[a]  BY <1>4 DEF Taken
  <1>9. r.span \in Spans  BY <1>4 DEF Piece
  <1> QED  BY <1>3, <1>4, <1>6, <1>7, <1>8, <1>9 DEF GoodBut

\* A page fetched for a cache.
LEMMA FetchGood ==
  ASSUME NEW h, NEW H, NEW L, Good(h, H, L), NEW a \in Area, CanAcquire(h, a, 0),
         NEW r, r = acquire_span(h, a, 0),
         NEW more, more = IF r.heap.segments[a] = h.segments[a] THEN {} ELSE Left(h, a)
  PROVE  Good(r.heap, H \cup {Hold(r.span, 1, "page")}, L \cup more)
  <1> DEFINE e == [at |-> r.span, pages |-> 0 + 1]
             q == Hold(r.span, 1, "page")
  <1>1. GoodBut(r.heap, e, H, L \cup more) /\ e.at = r.span /\ r.span \in Spans
    <2>1. 0 \in 0..LARGE - 1 /\ e.at = r.span  BY Sizes
    <2> HIDE DEF q
    <2>2. GoodBut(r.heap, e, H, L \cup more)  BY <2>1, AcquiredGood
    <2> HIDE DEF e
    <2> QED  BY <2>1, <2>2 DEF GoodBut
  <1>2. q \in Holds /\ q.span = r.span /\ q.use = "page" /\ q.pages = 1 /\ PieceOf(q) = e
    BY <1>1, Sizes DEF Holds, Hold, Uses, PieceOf
  <1> HIDE DEF e, q
  <1>3. Pieces(H \cup {q}) = Pieces(H) \cup {e}  BY <1>2 DEF Pieces
  <1>4. Described(r.heap, q)  BY <1>1, <1>2 DEF Described, GoodBut
  <1>5. \A j, k \in H \cup {q} : j.span = k.span => j = k  BY <1>1, <1>2 DEF Good, GoodBut
  <1>6. H \cup {q} \subseteq Holds  BY <1>2 DEF Good
  <1>7. Good(r.heap, H \cup {q}, L \cup more)
    BY ZenonT(60), <1>1, <1>3, <1>4, <1>5, <1>6 DEF Good, GoodBut
  <1> QED  BY <1>7 DEF q

\* A held piece is initialised: the header and the entry of its own span change.
LEMMA InitedGood ==
  ASSUME NEW h, NEW S, NEW P, NEW L, Pool(Lowest, h, S, P, L), NEW e \in P, WornWithin(h),
         NEW index \in 0..LARGE - 1, NEW category \in {0, LARGE}, category = 0 => index = 0,
         NEW g, g = span_init(h, e.at, index, category)
  PROVE  /\ Pool(Lowest, g, S, P, L) /\ WornWithin(g)
         /\ \A k \in Holds : k.span # e.at /\ Described(h, k) => Described(g, k)
         /\ g.hdr[e.at].category = category
         /\ g.hdr[e.at].wear_count = h.hdr[e.at].wear_count
         /\ category = LARGE => g.hdr[e.at].page_num = index + 1
         /\ g.entry[e.at - 1] = e.at /\ g.max_wc = h.max_wc
  <1> DEFINE s == e.at
             v == Initialised(h.hdr[s], index, category)
  <1>1. /\ LARGE \in Nat \ {0} /\ index \in 0..LARGE /\ category \in 0..LARGE /\ index < LARGE
    BY Sizes
  <1>2. /\ Pool(Lowest, g, S, P, L) /\ Inited(Lowest, h, g, s, v) /\ s - 1 \in MapEntries
    BY <1>1, LowestNodes, InitedPool
  <1>3. s \in Spans /\ h \in HeapType(Lowest) /\ g \in HeapType(Lowest)
    BY <1>2, HeldPiece DEF Pool
  <1>4. h.hdr \in [Spans -> HeaderType] /\ h.entry \in [MapEntries -> Spans \cup {NULL}]
        /\ h.max_wc \in [Area -> Nat]
    BY <1>3 DEF HeapType
  <1>5. /\ v.wear_count = h.hdr[s].wear_count /\ v.category = category
        /\ category = LARGE => v.page_num = index + 1
    <2> DEFINE u == h.hdr[s]
    <2>1. u \in HeaderType  BY <1>3, <1>4
    <2>2. v = Initialised(u, index, category)  OBVIOUS
    <2> HIDE DEF u, v
    <2>3. LET n == Initialised(u, index, category)
          IN  /\ n.wear_count = u.wear_count
              /\ n.category = (IF category # LARGE THEN index ELSE LARGE)
              /\ n.page_num = (IF category # LARGE THEN u.page_num ELSE index + 1)
      BY <1>1, <2>1, InitialisedHeader
    <2> QED  BY <1>1, <2>2, <2>3 DEF u
  <1> HIDE DEF v
  <1>6. /\ g.hdr = [h.hdr EXCEPT ![s] = v] /\ g.entry = [h.entry EXCEPT ![s - 1] = s]
        /\ g.max_wc = h.max_wc
    BY <1>2 DEF Inited
  <1> HIDE DEF s
  <1>7. /\ g.hdr[s] = v /\ g.entry[s - 1] = s
        /\ \A x \in Spans : x # s => g.hdr[x] = h.hdr[x]
    BY <1>2, <1>3, <1>4, <1>6
  <1>8. WornWithin(g)
    <2>1. ASSUME NEW x \in Spans
          PROVE  g.hdr[x].wear_count <= MaxWear /\ g.hdr[x].category \in {0, LARGE}
      BY <1>3, <1>5, <1>7 DEF WornWithin
    <2> QED  BY <1>6, <2>1 DEF WornWithin
  <1>9. ASSUME NEW k \in Holds, k.span # s, Described(h, k)
        PROVE  Described(g, k)
    <2>1. k.span \in Spans /\ k.span \in Int /\ s \in Int  BY <1>3 DEF Holds, Spans
    <2>2. k.span - 1 \in MapEntries /\ k.span - 1 # s - 1
      <3>1. AREA_NUM * AreaPages \in Nat  BY Sizes
      <3> QED  BY <1>9, <2>1, <3>1 DEF Spans, MapEntries
    <2>3. g.hdr[k.span] = h.hdr[k.span] /\ g.entry[k.span - 1] = h.entry[k.span - 1]
      BY <1>4, <1>6, <1>7, <1>9, <2>1, <2>2
    <2>4. \A a \in Area : g.max_wc[a] >= h.max_wc[a]  BY <1>4, <1>6
    <2> QED  BY <1>3, <1>9, <2>3, <2>4, StillDescribed
  <1> QED  BY <1>2, <1>5, <1>6, <1>7, <1>8, <1>9 DEF s

\* A large span acquired and initialised.
LEMMA LargeGood ==
  ASSUME NEW h, NEW H, NEW L, Good(h, H, L), NEW a \in Area,
         NEW n \in 2..LARGE, CanAcquire(h, a, n - 1),
         NEW r, r = acquire_span(h, a, n - 1),
         NEW more, more = IF r.heap.segments[a] = h.segments[a] THEN {} ELSE Left(h, a)
  PROVE  Good(span_init(r.heap, r.span, n - 1, LARGE), H \cup {Hold(r.span, n, "large")}, L \cup more)
  <1> DEFINE index == n - 1
             e == [at |-> r.span, pages |-> index + 1]
             q == Hold(r.span, n, "large")
             g == span_init(r.heap, r.span, index, LARGE)
  <1>1. LARGE \in Nat \ {0} /\ index \in 0..LARGE - 1 /\ index + 1 = n  BY Sizes
  <1>2. /\ GoodBut(r.heap, e, H, L \cup more) /\ e.at = r.span /\ r.span \in Spans
        /\ \A k \in H : Described(r.heap, k) /\ k.span # r.span
    <2>1. CanAcquire(h, a, index) /\ r = acquire_span(h, a, index) /\ e.at = r.span  OBVIOUS
    <2> HIDE DEF index, q, g
    <2>2. GoodBut(r.heap, e, H, L \cup more)  BY ZenonT(60), <1>1, <2>1, AcquiredGood
    <2> HIDE DEF e
    <2> QED  BY <2>1, <2>2 DEF GoodBut
  <1>3. /\ q \in Holds /\ q.span = r.span /\ q.use = "large" /\ q.pages = n /\ PieceOf(q) = e
        /\ e.at = r.span
    BY <1>1, <1>2, Sizes DEF Holds, Hold, Uses, PieceOf
  <1> HIDE DEF e, q, index
  <1>4. PICK S : Pool(Lowest, r.heap, S, Pieces(H) \cup {e}, L \cup more)
    BY <1>2 DEF GoodBut
  <1>5. /\ Pool(Lowest, g, S, Pieces(H) \cup {e}, L \cup more) /\ WornWithin(g)
        /\ \A k \in Holds : k.span # e.at /\ Described(r.heap, k) => Described(g, k)
        /\ g.hdr[e.at].category = LARGE
        /\ g.hdr[e.at].wear_count = r.heap.hdr[e.at].wear_count
        /\ g.hdr[e.at].page_num = index + 1
        /\ g.entry[e.at - 1] = e.at /\ g.max_wc = r.heap.max_wc
    <2> DEFINE P == Pieces(H) \cup {e}
               k == r.heap
               M == L \cup more
    <2>1. /\ Pool(Lowest, k, S, P, M) /\ e \in P /\ WornWithin(k)
          /\ g = span_init(k, e.at, index, LARGE) /\ LARGE \in {0, LARGE} /\ (LARGE = 0 => index = 0)
      BY <1>1, <1>2, <1>3, <1>4 DEF GoodBut
    <2> HIDE DEF P, k, M, g
    <2>2. /\ Pool(Lowest, g, S, P, M) /\ WornWithin(g)
          /\ \A j \in Holds : j.span # e.at /\ Described(k, j) => Described(g, j)
          /\ g.hdr[e.at].category = LARGE
          /\ g.hdr[e.at].wear_count = k.hdr[e.at].wear_count
          /\ g.hdr[e.at].page_num = index + 1
          /\ g.entry[e.at - 1] = e.at /\ g.max_wc = k.max_wc
      BY SMTT(30), <1>1, <2>1, InitedGood
    <2> QED  BY <2>2 DEF P, k, M
  <1> HIDE DEF g
  <1>6. Pieces(H \cup {q}) = Pieces(H) \cup {e}  BY <1>3 DEF Pieces
  <1>7. Described(g, q)  BY ZenonT(60), <1>1, <1>2, <1>3, <1>5 DEF Described, GoodBut
  <1>8. \A j, k \in H \cup {q} : j.span = k.span => j = k  BY <1>2, <1>3 DEF Good
  <1>9. H \cup {q} \subseteq Holds  BY <1>3 DEF Good
  <1>10. \A k \in H : Described(g, k)  BY <1>2, <1>3, <1>5, <1>9
  <1>11. Good(g, H \cup {q}, L \cup more)
    BY <1>5, <1>6, <1>7, <1>8, <1>9, <1>10 DEF Good
  <1> QED  BY <1>11 DEF g, q, index

\* A fetched page becomes a small span.
LEMMA SmallGood ==
  ASSUME NEW h, NEW H, NEW L, Good(h, H, L), NEW k \in H, k.use = "page"
  PROVE  Good(span_init(h, k.span, 0, 0), (H \ {k}) \cup {Hold(k.span, 1, "small")}, L)
  <1> DEFINE e == PieceOf(k)
             q == Hold(k.span, 1, "small")
             g == span_init(h, k.span, 0, 0)
             K == (H \ {k}) \cup {q}
  <1>1. PICK S : Pool(Lowest, h, S, Pieces(H), L)  BY DEF Good
  <1>2. k \in Holds /\ Described(h, k) /\ k.pages = 1 /\ k.span \in Spans
    BY DEF Good, Described, Holds
  <1>3. e \in Pieces(H) /\ e.at = k.span  BY DEF Pieces, PieceOf
  <1>4. q \in Holds /\ q.span = k.span /\ q.use = "small" /\ q.pages = 1 /\ PieceOf(q) = e
    BY <1>2, Sizes DEF Holds, Hold, Uses, PieceOf
  <1> HIDE DEF e, q
  <1>5. /\ Pool(Lowest, g, S, Pieces(H), L) /\ WornWithin(g)
        /\ \A j \in Holds : j.span # e.at /\ Described(h, j) => Described(g, j)
        /\ g.hdr[e.at].category = 0
        /\ g.entry[e.at - 1] = e.at
    <2>1. 0 \in 0..LARGE - 1 /\ 0 \in {0, LARGE} /\ WornWithin(h)  BY Sizes DEF Good
    <2>2. g = span_init(h, e.at, 0, 0)  BY <1>3
    <2> HIDE DEF g
    <2> QED  BY SMTT(30), <1>1, <1>3, <2>1, <2>2, InitedGood
  <1> HIDE DEF g
  <1>6. Pieces(K) = Pieces(H)
    <2>1. ASSUME NEW j \in K  PROVE PieceOf(j) \in Pieces(H)
      BY <1>3, <1>4 DEF Pieces
    <2>2. ASSUME NEW j \in H  PROVE PieceOf(j) \in Pieces(K)
      BY <1>4 DEF Pieces, e
    <2> HIDE DEF K
    <2> QED  BY <2>1, <2>2 DEF Pieces
  <1>7. K \subseteq Holds /\ \A i, j \in K : i.span = j.span => i = j
    BY <1>4 DEF Good
  <1>8. \A j \in K : Described(g, j)
    <2>1. Described(g, q)  BY <1>3, <1>4, <1>5, Sizes DEF Described
    <2>2. \A j \in H \ {k} : j.span # e.at /\ Described(h, j) /\ j \in Holds  BY <1>3 DEF Good
    <2> QED  BY <1>5, <2>1, <2>2
  <1> HIDE DEF K
  <1>9. Good(g, K, L)  BY <1>5, <1>6, <1>7, <1>8 DEF Good
  <1> QED  BY <1>9 DEF g, K, q

\* A held span goes back to the pool with wear w.
LEMMA ReturnGood ==
  ASSUME NEW h, NEW H, NEW L, Good(h, H, L), NEW k \in H, k.use # "page",
         NEW w \in Nat, w <= MaxWear,
         NEW g, g = span_back_to_centralpool(Worn(h, k.span, w), k.span)
  PROVE  Good(g, H \ {k}, L)
  <1> DEFINE e == PieceOf(k)
             s == k.span
             h1 == Worn(h, s, w)
             K == H \ {k}
  <1>1. PICK S : Pool(Lowest, h, S, Pieces(H), L)  BY DEF Good
  <1>2. k \in Holds /\ Described(h, k) /\ s \in Spans /\ k.pages \in 1..LARGE
    BY DEF Good, Holds
  <1>3. e \in Pieces(H) /\ e.at = s /\ e.pages = k.pages  BY DEF Pieces, PieceOf
  <1>4. /\ Pool(Lowest, h1, S, Pieces(H), L)
        /\ h1.hdr[s] = [h.hdr[s] EXCEPT !.wear_count = w]
        /\ \A x \in Spans : x # s => h1.hdr[x] = h.hdr[x]
        /\ h1.max_wc = h.max_wc /\ h1.entry = h.entry
    <2> HIDE DEF e, s
    <2>1. h1 = Worn(h, e.at, w)  BY <1>3
    <2> HIDE DEF h1
    <2>2. LET v == Worn(h, e.at, w)
          IN  /\ Pool(Lowest, v, S, Pieces(H), L)
              /\ v.hdr[e.at] = [h.hdr[e.at] EXCEPT !.wear_count = w]
              /\ \A x \in Spans : x # e.at => v.hdr[x] = h.hdr[x]
              /\ v.max_wc = h.max_wc /\ v.entry = h.entry /\ v.segments = h.segments
      BY <1>1, <1>3, LowestNodes, WornPool
    <2> QED  BY <1>3, <2>1, <2>2
  <1>5. h \in HeapType(Lowest) /\ h1 \in HeapType(Lowest)  BY <1>1, <1>4 DEF Pool
  <1>6. /\ h1.hdr[s].wear_count = w /\ h1.hdr[s].category = h.hdr[s].category
        /\ h1.hdr[s].page_num = h.hdr[s].page_num
    <2>1. h.hdr[s] \in HeaderType  BY <1>2, <1>5 DEF HeapType
    <2> HIDE DEF h1, s
    <2> QED  BY <1>4, <2>1 DEF HeaderType
  <1>7. g = span_back_to_centralpool(h1, e.at)  BY <1>3
  <1> HIDE DEF e, s, h1
  <1>8. e.pages = IF h1.hdr[e.at].category # LARGE THEN 1 ELSE h1.hdr[e.at].page_num
    <2>1. CASE k.use = "large"
      BY <1>2, <1>3, <1>6, <2>1 DEF Described, s
    <2>2. CASE k.use = "small"
      <3>1. LARGE # 0  BY Sizes
      <3> QED  BY <1>2, <1>3, <1>6, <2>2, <3>1 DEF Described, s
    <2> QED  BY <1>2, <2>1, <2>2 DEF Holds, Uses
  <1>9. PICK R : Pool(Lowest, g, R, Pieces(H) \ {e}, L)
    BY <1>3, <1>4, <1>7, <1>8, LowestNodes, ReturnPool
  <1>10. CameBack(Lowest, h1, g, s, e.pages)
    <2>1. CameBack(Lowest, h1, g, e.at, e.pages)
      BY <1>3, <1>4, <1>7, <1>8, LowestNodes, ReturnPool
    <2> QED  BY <1>3, <2>1
  <1>11. /\ g \in HeapType(Lowest) /\ g.hdr = [h1.hdr EXCEPT ![s] = Returned(@)]
         /\ g.entry = h.entry
         /\ g.max_wc = [h.max_wc EXCEPT ![AreaOf(s)] = IF w > h.max_wc[AreaOf(s)] THEN w
                                                       ELSE h.max_wc[AreaOf(s)]]
    BY <1>4, <1>6, <1>10 DEF CameBack
  <1>12. h1.hdr \in [Spans -> HeaderType] /\ h.max_wc \in [Area -> Nat] /\ AreaOf(s) \in Area
         /\ h1.hdr[s] \in HeaderType
    BY <1>2, <1>5, PageOfSpan DEF HeapType
  <1>13. /\ \A x \in Spans : x # s => g.hdr[x] = h.hdr[x]
         /\ g.hdr[s].wear_count = w /\ g.hdr[s].category = h.hdr[s].category
    <2>1. g.hdr[s] = Returned(h1.hdr[s])  BY <1>2, <1>11, <1>12
    <2>2. g.hdr[s].wear_count = h1.hdr[s].wear_count /\ g.hdr[s].category = h1.hdr[s].category
      BY <1>12, <2>1, ReturnedHeader
    <2> QED  BY <1>4, <1>6, <1>11, <1>12, <2>2
  <1>14. \A a \in Area : g.max_wc[a] >= h.max_wc[a] /\ (g.max_wc[a] = h.max_wc[a] \/ g.max_wc[a] = w)
    BY <1>11, <1>12
  <1>15. Pieces(K) = Pieces(H) \ {e}
    <2>1. \A j \in H : PieceOf(j) = e => j = k
      <3>1. \A j \in H : PieceOf(j).at = j.span  BY DEF PieceOf
      <3> QED  BY <1>3, <3>1 DEF Good, s
    <2> QED  BY <2>1 DEF Pieces, e
  <1>16. ASSUME NEW j \in K  PROVE Described(g, j)
    <2>1. j \in Holds /\ Described(h, j) /\ j.span # s /\ j.span \in Spans  BY DEF Good, Holds, s
    <2>2. g.hdr[j.span] = h.hdr[j.span]  BY <1>13, <2>1
    <2>3. \A a \in Area : g.max_wc[a] >= h.max_wc[a]  BY <1>14
    <2> QED  BY <1>5, <1>11, <2>1, <2>2, <2>3, StillDescribed
  <1>17. WornWithin(g)
    <2>1. WornWithin(h)  BY DEF Good
    <2>2. \A x \in Spans : g.hdr[x].wear_count <= MaxWear /\ g.hdr[x].category \in {0, LARGE}
      BY <1>2, <1>13, <2>1 DEF WornWithin
    <2>3. \A a \in Area : g.max_wc[a] <= MaxWear  BY <1>14, <2>1 DEF WornWithin
    <2> QED  BY <2>2, <2>3 DEF WornWithin
  <1>18. K \subseteq Holds /\ \A i, j \in K : i.span = j.span => i = j  BY DEF Good
  <1>19. Good(g, K, L)  BY <1>9, <1>15, <1>16, <1>17, <1>18 DEF Good
  <1> QED  BY <1>19

-----------------------------------------------------------------------------
\* Nothing held, nothing cut: the pools as central_pool_init leaves them.
LEMMA InitGood == Init => IInv
  <1> SUFFICES ASSUME Init  PROVE IInv  OBVIOUS
  <1>1. heap = HeapInit(Lowest) /\ held = {} /\ lost = {}  BY DEF Init, Lowest
  <1>2. Pool(Lowest, heap, NoneShelved, {}, {})  BY <1>1, LowestNodes, InitPool
  <1>3. Pieces({}) = {}  BY DEF Pieces
  <1>4. WornWithin(heap)
    <2>1. /\ heap.hdr = [s \in Spans |-> [bitmap |-> {}, cur_pos |-> 0, free_block_num |-> 0,
                                          wear_count |-> 0, category |-> 0, page_num |-> 0]]
          /\ heap.max_wc = [a \in Area |-> 0]
      BY <1>1 DEF HeapInit
    <2>2. \A s \in Spans : heap.hdr[s].wear_count = 0 /\ heap.hdr[s].category = 0  BY <2>1
    <2>3. \A a \in Area : heap.max_wc[a] = 0  BY <2>1
    <2>4. 0 <= MaxWear  BY PoolAssumption
    <2> QED  BY <2>2, <2>3, <2>4 DEF WornWithin
  <1> QED  BY <1>1, <1>2, <1>3, <1>4 DEF IInv, Good

\* What a growth abandons is the rest of its last segment.
LEMMA AbandonedLeft ==
  ASSUME NEW a \in Area, NEW g
  PROVE  Abandoned(a, g) = IF g.segments[a] = heap.segments[a] THEN {} ELSE Left(heap, a)
  BY DEF Abandoned, Left

\* Every step keeps the invariant.
LEMMA StepGood == IInv /\ [Next]_vars => IInv'
  <1> SUFFICES ASSUME IInv, [Next]_vars  PROVE IInv'  OBVIOUS
  <1>1. Good(heap, held, lost)  BY DEF IInv
  <1>2. ASSUME NEW a \in Area, FetchPage(a)  PROVE Good(heap', held', lost')
    <2> DEFINE r == acquire_span(heap, a, 0)
               more == Abandoned(a, r.heap)
    <2>1. /\ CanAcquire(heap, a, 0) /\ heap' = r.heap
          /\ held' = held \cup {Hold(r.span, 1, "page")} /\ lost' = lost \cup more
      BY <1>2 DEF FetchPage
    <2>2. more = IF r.heap.segments[a] = heap.segments[a] THEN {} ELSE Left(heap, a)
      BY AbandonedLeft
    <2> HIDE DEF more
    <2>3. Good(r.heap, held \cup {Hold(r.span, 1, "page")}, lost \cup more)
      BY <1>1, <2>1, <2>2, FetchGood
    <2> QED  BY <2>1, <2>3
  <1>3. ASSUME NEW a \in Area, NEW n \in 2..LARGE, AcquireLarge(a, n)
        PROVE  Good(heap', held', lost')
    <2> DEFINE r == acquire_span(heap, a, n - 1)
               more == Abandoned(a, r.heap)
    <2>1. /\ CanAcquire(heap, a, n - 1) /\ heap' = span_init(r.heap, r.span, n - 1, LARGE)
          /\ held' = held \cup {Hold(r.span, n, "large")} /\ lost' = lost \cup more
      BY <1>3 DEF AcquireLarge
    <2>2. more = IF r.heap.segments[a] = heap.segments[a] THEN {} ELSE Left(heap, a)
      BY AbandonedLeft
    <2> HIDE DEF more
    <2>3. Good(span_init(r.heap, r.span, n - 1, LARGE), held \cup {Hold(r.span, n, "large")},
               lost \cup more)
      BY <1>1, <2>1, <2>2, LargeGood
    <2> QED  BY <2>1, <2>3
  <1>4. ASSUME NEW k \in held, InitSmall(k)  PROVE Good(heap', held', lost')
    <2>1. Good(span_init(heap, k.span, 0, 0), (held \ {k}) \cup {Hold(k.span, 1, "small")}, lost)
      BY <1>1, <1>4, SmallGood DEF InitSmall
    <2> QED  BY <1>4, <2>1 DEF InitSmall
  <1>5. ASSUME NEW k \in held, ReturnSmall(k)  PROVE Good(heap', held', lost')
    <2>1. PICK w \in FIXED_THRESHOLD..MaxWear :
            heap' = span_back_to_centralpool([heap EXCEPT !.hdr[k.span].wear_count = w], k.span)
      BY <1>5 DEF ReturnSmall
    <2>2. w \in Nat /\ w <= MaxWear  BY PoolAssumption
    <2>3. heap' = span_back_to_centralpool(Worn(heap, k.span, w), k.span)  BY <2>1 DEF Worn
    <2>4. k.use # "page" /\ held' = held \ {k} /\ lost' = lost  BY <1>5 DEF ReturnSmall
    <2>5. Good(heap', held \ {k}, lost)  BY <1>1, <2>2, <2>3, <2>4, ReturnGood
    <2> QED  BY <2>4, <2>5
  <1>6. ASSUME NEW k \in held, ReturnLarge(k)  PROVE Good(heap', held', lost')
    <2> DEFINE w == heap.hdr[k.span].wear_count
    <2>1. k.span \in Spans /\ heap \in HeapType(Lowest)  BY <1>1 DEF Good, Holds, Pool
    <2>2. w \in Nat /\ w <= MaxWear
      <3>1. heap.hdr[k.span] \in HeaderType  BY <2>1 DEF HeapType
      <3> QED  BY <1>1, <2>1, <3>1 DEF HeaderType, Good, WornWithin
    <2>3. Worn(heap, k.span, w) = heap
      <3>1. heap.hdr \in [Spans -> HeaderType] /\ heap.hdr[k.span] \in HeaderType
        BY <2>1 DEF HeapType
      <3>2. [heap.hdr[k.span] EXCEPT !.wear_count = w] = heap.hdr[k.span]  BY <3>1 DEF HeaderType
      <3>3. [heap.hdr EXCEPT ![k.span].wear_count = w] = heap.hdr  BY <2>1, <3>1, <3>2
      <3> HIDE DEF w
      <3> QED  BY <2>1, <3>3 DEF Worn, HeapType
    <2> HIDE DEF w
    <2>4. heap' = span_back_to_centralpool(Worn(heap, k.span, w), k.span)
      BY <1>6, <2>3 DEF ReturnLarge
    <2>5. k.use # "page" /\ held' = held \ {k} /\ lost' = lost  BY <1>6 DEF ReturnLarge
    <2>6. Good(heap', held \ {k}, lost)  BY <1>1, <2>2, <2>4, <2>5, ReturnGood
    <2> QED  BY <2>5, <2>6
  <1>7. CASE UNCHANGED vars  BY <1>1, <1>7 DEF vars, IInv
  <1> QED  BY <1>2, <1>3, <1>4, <1>5, <1>6, <1>7 DEF Next, IInv

\* The inductive invariant holds of every behaviour.
THEOREM Invariant == Spec => []IInv
  BY InitGood, StepGood, PTL DEF Spec

-----------------------------------------------------------------------------
\* What the invariant says of the state.
LEMMA InvariantPool ==
  ASSUME IInv
  PROVE  \E S : Pool(Lowest, heap, S, Pieces(held), lost)
  BY DEF IInv, Good

\* The types, every number within its bound.
LEMMA GoodTypes == IInv => TypeOK
  <1> SUFFICES ASSUME IInv  PROVE TypeOK  OBVIOUS
  <1>1. PICK S : Pool(Lowest, heap, S, Pieces(held), lost)  BY InvariantPool
  <1>2. heap \in HeapType(Lowest) /\ Mapped(heap) /\ Divides(heap.free_start, Pieces(held) \cup Shelf(S), lost)
    BY <1>1 DEF Pool
  <1>3. ASSUME NEW s \in Spans
        PROVE  /\ heap.hdr[s].wear_count \in 0..MaxWear /\ heap.hdr[s].page_num \in 0..LARGE
               /\ heap.hdr[s].category \in {0, LARGE}
    <2>1. heap.hdr[s] \in HeaderType  BY <1>2 DEF HeapType
    <2>2. heap.hdr[s].wear_count \in Nat /\ heap.hdr[s].page_num \in 0..LARGE
      BY <2>1 DEF HeaderType
    <2> QED  BY <2>2, PoolAssumption DEF IInv, Good, WornWithin
  <1>4. heap.entry \in [MapEntries -> Spans \cup {NULL}]  BY <1>2 DEF HeapType
  <1>5. ASSUME NEW a \in Area
        PROVE  /\ heap.segments[a] \in 1..MaxSegs /\ heap.free_start[a] \in 0..FreeEnd(heap, a)
               /\ heap.max_wc[a] \in 0..MaxWear
               /\ heap.max_wear_page_index[a] \in [ListIndex -> Spans \cup {NULL}]
    <2>1. heap.segments[a] \in 1..MaxSegs /\ heap.free_start[a] \in 0..FreeEnd(heap, a)
      BY <1>2, PoolBounds
    <2>2. heap.max_wc[a] \in Nat /\ heap.max_wear_page_index[a] \in [ListIndex -> Spans \cup {NULL}]
      BY <1>2 DEF HeapType
    <2> QED  BY <2>1, <2>2, PoolAssumption DEF IInv, Good, WornWithin
  <1>6. held \subseteq [span : Spans, pages : 1..LARGE, use : Uses]  BY DEF IInv, Good, Holds
  <1>7. lost \subseteq Spans  BY <1>2 DEF Divides, CutSpans
  <1> QED  BY <1>3, <1>4, <1>5, <1>6, <1>7 DEF TypeOK

\* Type correctness.
THEOREM TypeCorrect == Spec => []TypeOK
  BY Invariant, GoodTypes, PTL

\* The free lists, walked as list_for_each does, have the spans shelved on them.
LEMMA ListedShelved ==
  ASSUME NEW h, NEW S \in Shelves, Shelved(h, S), NEW a \in Area, NEW i \in ListIndex
  PROVE  Listed(h, a, i) = S[a][i]
  <1> DEFINE bound == AREA_NUM * AreaPages
             T == S[a][i]
  <1>1. bound \in Nat /\ Spans = 1..bound  BY Sizes DEF Spans
  <1> HIDE DEF bound
  <1>2. IsFiniteSet(Spans) /\ Cardinality(Spans) = bound
    <2>1. 1 \in Int /\ bound \in Int /\ bound >= 0  BY <1>1
    <2>2. IsFiniteSet(1..bound) /\ Cardinality(1..bound) = IF 1 > bound THEN 0 ELSE bound - 1 + 1
      BY <2>1, FS_Interval
    <2> QED  BY <1>1, <2>2
  <1>3. T \subseteq Spans  BY DEF Shelves
  <1> HIDE DEF T
  <1>4. IsFiniteSet(T) /\ Cardinality(T) <= Cardinality(Spans)  BY <1>2, <1>3, FS_Subset
  <1>5. Ring(h, FreeList(a, i), T)  BY DEF Shelved, T
  <1>6. EntrySet(h, FreeList(a, i), bound) = T  BY <1>1, <1>2, <1>4, <1>5, EntriesRing
  <1> QED  BY <1>6 DEF Listed, bound, T

\* Every list head between the lowest and NULL is that of a free list.
LEMMA HeadOfList ==
  ASSUME NEW head \in FreeLists
  PROVE  \E a \in Area, i \in ListIndex : head = FreeList(a, i)
  <1> DEFINE N == LARGE_BLOCK_NUM
             m == -head - 1
             a == m \div N
             i == m % N
  <1>1. N \in Nat \ {0} /\ AREA_NUM \in Nat \ {0} /\ AREA_NUM * N \in Nat  BY Sizes
  <1>2. head \in -(AREA_NUM * N)..-1  BY DEF FreeLists
  <1> DEFINE top == AREA_NUM * N
  <1> HIDE DEF top
  <1>3. top \in Nat /\ head \in -top..-1  BY <1>1, <1>2 DEF top
  <1>4. m \in Nat /\ m < top /\ head = -(m + 1)  BY <1>3
  <1> HIDE DEF m, N
  <1>5. a \in Nat /\ i \in 0..N - 1 /\ m = a * N + i  BY <1>1, <1>4
  <1> HIDE DEF a, i
  <1>6. a < AREA_NUM
    <2>1. SUFFICES ASSUME a >= AREA_NUM  PROVE FALSE  BY <1>1, <1>5
    <2>2. a * N >= AREA_NUM * N /\ a * N \in Nat  BY <1>1, <1>5, <2>1
    <2> QED  BY <1>1, <1>3, <1>4, <1>5, <2>2 DEF top
  <1>7. a \in Area /\ i \in ListIndex  BY <1>1, <1>5, <1>6 DEF Area, ListIndex, N
  <1>8. head = FreeList(a, i)  BY <1>4, <1>5 DEF FreeList, N
  <1> QED  BY <1>7, <1>8

\* The extents that PagesPartitioned speaks of are the pages of the pieces.
LEMMA ExtentsOfPieces ==
  ASSUME NEW S, Pool(Lowest, heap, S, Pieces(held), lost)
  PROVE  /\ HeldExtents = {PagesOf(e) : e \in Pieces(held)}
         /\ ListedExtents = {PagesOf(e) : e \in Shelf(S)}
         /\ CutPages = CutSpans(heap.free_start)
  <1>1. S \in Shelves /\ Shelved(heap, S) /\ heap.free_start \in FreeStarts
    BY PoolFree DEF Pool
  <1>2. HeldExtents = {PagesOf(e) : e \in Pieces(held)}
    <2>1. \A k \in held : PagesOf(PieceOf(k)) = ExtentOf(k.span, k.pages)
      BY DEF PagesOf, PieceOf
    <2> QED  BY <2>1 DEF HeldExtents, Pieces
  <1>3. ListedExtents = {PagesOf(e) : e \in Shelf(S)}
    <2> DEFINE X(a, i) == {ExtentOf(s, i + 1) : s \in Listed(heap, a, i)}
               Y == {PagesOf(e) : e \in Shelf(S)}
    <2>1. ASSUME NEW a \in Area, NEW i \in ListIndex, NEW s \in Listed(heap, a, i)
          PROVE  ExtentOf(s, i + 1) \in Y
      <3> DEFINE e == [at |-> s, pages |-> i + 1]
      <3>1. s \in S[a][i]  BY <1>1, ListedShelved
      <3>2. e \in Shelf(S)  BY <1>1, <3>1, ShelfPieces
      <3>3. PagesOf(e) = ExtentOf(s, i + 1)  BY DEF PagesOf
      <3> HIDE DEF e
      <3> QED  BY <3>2, <3>3
    <2>2. ASSUME NEW e \in Shelf(S)
          PROVE  \E a \in Area, i \in ListIndex : PagesOf(e) \in X(a, i)
      <3> DEFINE a == AreaOf(e.at)
                 i == e.pages - 1
      <3>1. e.at \in Spans /\ e.pages \in 1..LARGE /\ e.at \in S[a][i]  BY DEF Shelf, Piece
      <3>2. a \in Area /\ i \in ListIndex /\ i + 1 = e.pages
        BY <3>1, PageOfSpan, Sizes DEF ListIndex
      <3> HIDE DEF a, i
      <3>3. e.at \in Listed(heap, a, i)  BY <1>1, <3>1, <3>2, ListedShelved
      <3>4. PagesOf(e) = ExtentOf(e.at, i + 1)  BY <3>2 DEF PagesOf
      <3> QED  BY <3>2, <3>3, <3>4
    <2>3. ListedExtents = UNION {X(a, i) : a \in Area, i \in ListIndex}  BY DEF ListedExtents
    <2>4. \A x \in ListedExtents : x \in Y  BY <2>1, <2>3
    <2>5. \A y \in Y : y \in ListedExtents
      <3> HIDE DEF X
      <3> QED  BY <2>2, <2>3
    <2> HIDE DEF Y
    <2>6. ListedExtents = Y  BY <2>4, <2>5
    <2> QED  BY <2>6 DEF Y
  <1>4. CutPages = CutSpans(heap.free_start)
    <2>1. AreaPages \in Nat /\ \A a \in Area : heap.free_start[a] \in 0..AreaPages
      BY <1>1, Sizes DEF FreeStarts
    <2>2. ASSUME NEW a \in Area, NEW k \in 0..heap.free_start[a] - 1
          PROVE  SpanAt(a, k) \in CutSpans(heap.free_start)
      <3>1. k \in 0..AreaPages - 1 /\ k < heap.free_start[a]  BY <2>1
      <3>2. SpanAt(a, k) \in Spans /\ AreaOf(SpanAt(a, k)) = a /\ PageOf(SpanAt(a, k)) = k
        BY <3>1, SpanOfPage
      <3> QED  BY <3>1, <3>2 DEF CutSpans
    <2>3. ASSUME NEW s \in CutSpans(heap.free_start)
          PROVE  \E a \in Area : \E k \in 0..heap.free_start[a] - 1 : s = SpanAt(a, k)
      <3>1. s \in Spans /\ PageOf(s) < heap.free_start[AreaOf(s)]  BY DEF CutSpans
      <3>2. AreaOf(s) \in Area /\ PageOf(s) \in 0..AreaPages - 1 /\ SpanAt(AreaOf(s), PageOf(s)) = s
        BY <3>1, PageOfSpan
      <3>3. PageOf(s) \in 0..heap.free_start[AreaOf(s)] - 1  BY <2>1, <3>1, <3>2
      <3> QED  BY <3>2, <3>3
    <2> QED  BY <2>2, <2>3 DEF CutPages
  <1> QED  BY <1>2, <1>3, <1>4

\* The pages of a piece are of one segment.
LEMMA OneSegment ==
  ASSUME NEW free \in FreeStarts, NEW e \in Piece, Fits(free, e)
  PROVE  Cardinality({PageOf(s) \div SegPages : s \in PagesOf(e)}) = 1
  <1> DEFINE p == PageOf(e.at)
             q == p \div SegPages
  <1>1. /\ e.at \in PagesOf(e) /\ e.at \in Spans /\ e.pages \in 1..LARGE
        /\ \A x \in PagesOf(e) : x - e.at \in 0..e.pages - 1 /\ PageOf(x) = p + (x - e.at)
    BY PieceSpans DEF Piece
  <1>2. p \in Nat /\ SegPages \in Nat \ {0} /\ LARGE \in Nat /\ (p % SegPages) + e.pages <= SegPages
    BY <1>1, PageOfSpan, Sizes DEF Fits
  <1> HIDE DEF p
  <1>3. ASSUME NEW x \in PagesOf(e)  PROVE PageOf(x) \div SegPages = q
    <2> DEFINE d == x - e.at
               r == p % SegPages
    <2>1. d \in 0..e.pages - 1 /\ PageOf(x) = p + d  BY <1>1
    <2>2. p = q * SegPages + r /\ q \in Nat /\ r \in 0..SegPages - 1 /\ r + e.pages <= SegPages
      BY <1>2
    <2> HIDE DEF d, q, r
    <2>3. r + d \in 0..SegPages - 1  BY <1>1, <1>2, <2>1, <2>2
    <2> DEFINE c == r + d
    <2>4. q * SegPages \in Nat  BY <1>2, <2>2
    <2>5. PageOf(x) = q * SegPages + c  BY <1>1, <1>2, <2>1, <2>2, <2>3, <2>4
    <2>6. c \in 0..SegPages - 1  BY <2>3
    <2> HIDE DEF c
    <2>7. (q * SegPages + c) \div SegPages = q  BY <1>2, <2>2, <2>6, DivMod
    <2> QED  BY <2>5, <2>7
  <1> HIDE DEF q
  <1>4. {PageOf(s) \div SegPages : s \in PagesOf(e)} = {q}  BY <1>1, <1>3
  <1> QED  BY <1>4, FS_Singleton

\* Every page cut is in one place.
LEMMA GoodPartition == IInv => PagesPartitioned
  <1> SUFFICES ASSUME IInv  PROVE PagesPartitioned  OBVIOUS
  <1>1. PICK S : Pool(Lowest, heap, S, Pieces(held), lost)  BY InvariantPool
  <1> DEFINE P == Pieces(held)
             E == P \cup Shelf(S)
             extents == HeldExtents \cup ListedExtents
  <1>2. /\ P \cap Shelf(S) = {} /\ Divides(heap.free_start, E, lost)
        /\ heap.free_start \in FreeStarts
    BY <1>1, PoolFree DEF Pool
  <1>3. /\ HeldExtents = {PagesOf(e) : e \in P} /\ ListedExtents = {PagesOf(e) : e \in Shelf(S)}
        /\ CutPages = CutSpans(heap.free_start)
    BY <1>1, ExtentsOfPieces
  <1> HIDE DEF P
  <1>4. extents = {PagesOf(e) : e \in E}  BY <1>3
  <1>5. ASSUME NEW e \in E
        PROVE  /\ e \in Piece /\ Fits(heap.free_start, e) /\ e.at \in PagesOf(e)
               /\ PagesOf(e) \subseteq CutPages /\ PagesOf(e) \cap lost = {}
    <2>1. e \in Piece /\ Fits(heap.free_start, e) /\ PagesOf(e) \cap lost = {}  BY <1>2 DEF Divides
    <2> QED  BY <1>2, <1>3, <2>1, PieceSpans
  <1>6. \A e, f \in E : e # f => PagesOf(e) \cap PagesOf(f) = {}  BY <1>2 DEF Divides
  <1>7. lost \subseteq CutPages /\ \A s \in CutPages : s \in lost \/ \E e \in E : s \in PagesOf(e)
    BY <1>2, <1>3 DEF Divides
  <1>8. HeldExtents \cap ListedExtents = {}
    <2>1. SUFFICES ASSUME NEW x \in HeldExtents, x \in ListedExtents  PROVE FALSE  OBVIOUS
    <2>2. PICK e \in P : x = PagesOf(e)  BY <1>3, <2>1
    <2>3. PICK f \in Shelf(S) : x = PagesOf(f)  BY <1>3, <2>1
    <2>4. e # f  BY <1>2
    <2>5. PagesOf(e) \cap PagesOf(f) = {}  BY <1>6, <2>4
    <2>6. e.at \in PagesOf(e)  BY <1>5
    <2> QED  BY <2>2, <2>3, <2>5, <2>6
  <1> HIDE DEF E
  <1>9. (UNION extents) \cup lost = CutPages /\ lost \cap UNION extents = {}
    <2> HIDE DEF extents
    <2> QED  BY <1>4, <1>5, <1>7
  <1>10. \A x, y \in extents : x # y => x \cap y = {}
    <2>1. \A x \in extents : \E e \in E : x = PagesOf(e)  BY <1>4
    <2> HIDE DEF extents
    <2> QED  BY <1>6, <2>1
  <1>11. \A x \in extents : Cardinality({PageOf(s) \div SegPages : s \in x}) = 1
    <2>1. TAKE x \in extents
    <2>2. PICK e \in E : x = PagesOf(e)  BY <1>4
    <2>3. Cardinality({PageOf(s) \div SegPages : s \in PagesOf(e)}) = 1
      BY <1>2, <1>5, OneSegment
    <2> QED  BY <2>2, <2>3
  <1> QED  BY <1>8, <1>9, <1>10, <1>11 DEF PagesPartitioned

\* Every page cut from a segment is held, on one free list or lost, and in no
\* two extents: no page is lost track of and none is given out twice.
THEOREM Partitioned == Spec => []PagesPartitioned
  BY Invariant, GoodPartition, PTL

\* The free lists are coherent, each with the spans of its page count.
LEMMA GoodLists == IInv => ListsIndexed
  <1> SUFFICES ASSUME IInv  PROVE ListsIndexed  OBVIOUS
  <1>1. PICK S : Pool(Lowest, heap, S, Pieces(held), lost)  BY InvariantPool
  <1>2. S \in Shelves /\ Shelved(heap, S)  BY <1>1 DEF Pool
  <1>3. LARGE \in ListIndex /\ 0..LARGE - 1 \subseteq ListIndex  BY Sizes DEF ListIndex
  <1>4. \A a \in Area, i \in ListIndex : Listed(heap, a, i) = S[a][i]  BY <1>2, ListedShelved
  <1>5. ASSUME NEW head \in FreeLists,
               NEW n \in EntrySet(heap, head, AREA_NUM * AreaPages) \cup {head}
        PROVE  Linked(heap, n)
    <2>1. PICK a \in Area, i \in ListIndex : head = FreeList(a, i)  BY HeadOfList
    <2>2. EntrySet(heap, head, AREA_NUM * AreaPages) = S[a][i]  BY <1>4, <2>1 DEF Listed
    <2>3. Ring(heap, head, S[a][i])  BY <1>2, <2>1 DEF Shelved
    <2> QED  BY <2>2, <2>3 DEF Ring
  <1>6. RingsCoherent(heap, FreeLists)
    <2>1. heap.next[NULL] = NULL /\ heap.prev[NULL] = NULL  BY <1>2 DEF Shelved
    <2> QED  BY <1>5, <2>1 DEF RingsCoherent
  <1> QED  BY <1>2, <1>3, <1>4, <1>6 DEF ListsIndexed, Shelved

\* The list a span is found on tells its page count, and the lists are coherent.
THEOREM Indexed == Spec => []ListsIndexed
  BY Invariant, GoodLists, PTL

\* max_wear_page_index never leads to a span that has been handed out.
THEOREM IndexListed == Spec => []IndexOnItsList
  <1>1. IInv => IndexOnItsList
    <2> SUFFICES ASSUME IInv  PROVE IndexOnItsList  OBVIOUS
    <2>1. PICK S : Pool(Lowest, heap, S, Pieces(held), lost)  BY InvariantPool
    <2>2. S \in Shelves /\ Shelved(heap, S)  BY <2>1 DEF Pool
    <2>3. \A a \in Area, i \in ListIndex : Listed(heap, a, i) = S[a][i]  BY <2>2, ListedShelved
    <2> QED  BY <2>2, <2>3 DEF IndexOnItsList, Shelved
  <1> QED  BY <1>1, Invariant, PTL

\* max_wc_count bounds the wear of what is in the pool or has just left it.
THEOREM WearBounded == Spec => []PoolWearBounded
  <1>1. IInv => PoolWearBounded
    <2> SUFFICES ASSUME IInv  PROVE PoolWearBounded  OBVIOUS
    <2>1. PICK S : Pool(Lowest, heap, S, Pieces(held), lost)  BY InvariantPool
    <2>2. S \in Shelves /\ Shelved(heap, S)  BY <2>1 DEF Pool
    <2>3. \A a \in Area, i \in ListIndex : Listed(heap, a, i) = S[a][i]  BY <2>2, ListedShelved
    <2>4. ASSUME NEW a \in Area, NEW s \in InCentral(heap, a)
          PROVE  heap.hdr[s].wear_count <= heap.max_wc[a]
      <3>1. PICK i \in ListIndex : s \in Listed(heap, a, i)  BY DEF InCentral
      <3> QED  BY <2>2, <2>3, <3>1 DEF Shelved
    <2>5. ASSUME NEW h \in held, h.use \in {"page", "large"}
          PROVE  heap.hdr[h.span].wear_count <= heap.max_wc[AreaOf(h.span)]
      <3>1. Described(heap, h)  BY DEF IInv, Good
      <3> QED  BY <2>5, <3>1 DEF Described
    <2> QED  BY <2>4, <2>5 DEF PoolWearBounded
  <1> QED  BY <1>1, Invariant, PTL

\* Every address a block of a held span can have leads to the span's header.
THEOREM HeaderFound == Spec => []LookupFindsHeader
  <1>1. IInv => LookupFindsHeader
    <2> SUFFICES ASSUME IInv, NEW h \in held, h.use # "page",
                        NEW x \in AddressOf(h.span)..AddressOf(h.span) + PageUnits - 1
                 PROVE  span_extract_header(heap, x) = h.span
      BY DEF LookupFindsHeader
    <2> DEFINE s == h.span
               a == AreaOf(s)
               d == x - AddressOf(s)
               n == heap.segments[a]
    <2>1. PICK S : Pool(Lowest, heap, S, Pieces(held), lost)  BY InvariantPool
    <2>2. PieceOf(h) \in Pieces(held) /\ PieceOf(h).at = s  BY DEF Pieces, PieceOf
    <2>3. s \in Spans /\ a \in Area /\ PageOf(s) < n * SegPages /\ Mapped(heap)
      BY <2>1, <2>2, HeldPiece DEF Pool
    <2>4. n \in Nat /\ heap.span_map[a] = Tables(a, n)  BY <2>3 DEF Mapped
    <2>5. heap.entry[s - 1] = s
      <3>1. Described(heap, h)  BY DEF IInv, Good
      <3> QED  BY <3>1 DEF Described
    <2>6. AddressOf(s) \in Nat /\ RAW_POOL_START(a) \in Nat
      <3>1. PageOf(s) \in Nat /\ a \in Nat /\ PageUnits \in Nat /\ AreaPages \in Nat
        BY <2>3, PageOfSpan, Sizes DEF Area
      <3>2. RAW_POOL_START(a) \in Nat  BY <3>1 DEF RAW_POOL_START
      <3> QED  BY <3>1, <3>2 DEF AddressOf
    <2> HIDE DEF s
    <2>7. d \in 0..PageUnits - 1 /\ x = AddressOf(s) + d
      <3>1. PageUnits \in Nat /\ x \in AddressOf(s)..AddressOf(s) + PageUnits - 1  BY Sizes DEF s
      <3> QED  BY <2>6, <3>1
    <2> HIDE DEF d, a, n
    <2>8. /\ AreaOfAddress(AddressOf(s) + d) = AreaOf(s)
          /\ EntryAt(Tables(AreaOf(s), n), AddressOf(s) + d - RAW_POOL_START(AreaOf(s))) = s - 1
      BY <2>3, <2>4, <2>7, MapPlace
    <2>9. AreaOfAddress(x) = a /\ EntryAt(heap.span_map[a], x - RAW_POOL_START(a)) = s - 1
      <3>1. AreaOfAddress(x) = a  BY <2>7, <2>8 DEF a
      <3>2. x - RAW_POOL_START(a) = AddressOf(s) + d - RAW_POOL_START(a)  BY <2>6, <2>7
      <3>3. EntryAt(Tables(a, n), AddressOf(s) + d - RAW_POOL_START(a)) = s - 1  BY <2>8 DEF a
      <3> QED  BY <2>4, <3>1, <3>2, <3>3
    <2>10. span_extract_header(heap, x) = s  BY <2>5, <2>9 DEF span_extract_header
    <2> QED  BY <2>10 DEF s
  <1> QED  BY <1>1, Invariant, PTL

-----------------------------------------------------------------------------
\* The pool implements the allocator of page extents.
ExtentOfHold(k) == [first |-> PageOf(k.span), pages |-> k.pages]

\* The extents of two different holds of one area have no page in common.
LEMMA HoldsApart ==
  ASSUME NEW h, NEW H, NEW L, Good(h, H, L), NEW j \in H, NEW k \in H, j # k,
         AreaOf(j.span) = AreaOf(k.span)
  PROVE  /\ ExtentOfHold(j) \in Abstract!Extent
         /\ Abstract!Pages(ExtentOfHold(j)) \cap Abstract!Pages(ExtentOfHold(k)) = {}
  <1>1. PICK S : Pool(Lowest, h, S, Pieces(H), L)  BY DEF Good
  <1>2. \A i \in H : /\ i.span \in Spans /\ i.pages \in 1..LARGE /\ PieceOf(i) \in Pieces(H)
                     /\ PieceOf(i).at = i.span /\ PieceOf(i).pages = i.pages
    BY DEF Good, Holds, Pieces, PieceOf
  <1>3. AreaPages \in Nat /\ LARGE \in Nat  BY Sizes
  <1> DEFINE a == AreaOf(j.span)
  <1>4. a \in Area /\ a \in Nat /\ a * AreaPages \in Nat
    BY <1>2, <1>3, PageOfSpan DEF Area
  <1>5. ASSUME NEW i \in H, AreaOf(i.span) = a
        PROVE  /\ i.span \in Nat /\ PageOf(i.span) \in 0..AreaPages - 1
               /\ i.span = SpanAt(a, PageOf(i.span))
    BY <1>2, <1>5, PageOfSpan DEF Spans
  <1> HIDE DEF a
  <1>6. ASSUME NEW i \in H, AreaOf(i.span) = a, NEW p \in Abstract!Pages(ExtentOfHold(i))
        PROVE  p \in Nat /\ SpanAt(a, p) \in PagesOf(PieceOf(i))
    <2>1. p \in PageOf(i.span)..PageOf(i.span) + i.pages - 1
      BY <1>6 DEF Abstract!Pages, ExtentOfHold
    <2>2. i.span \in Nat /\ PageOf(i.span) \in Nat /\ i.pages \in Nat
          /\ i.span = a * AreaPages + PageOf(i.span) + 1
      BY <1>2, <1>3, <1>5, <1>6 DEF SpanAt
    <2>3. p \in Nat /\ a * AreaPages + p + 1 \in i.span..i.span + i.pages - 1
      BY <1>4, <2>1, <2>2
    <2> QED  BY <1>2, <2>3 DEF PagesOf, ExtentOf, SpanAt
  <1>7. PagesOf(PieceOf(j)) \cap PagesOf(PieceOf(k)) = {}
    <2>1. PieceOf(j) # PieceOf(k)
      <3>1. j.span # k.span  BY DEF Good
      <3> QED  BY <1>2, <3>1
    <2> QED  BY <1>1, <1>2, <2>1 DEF Pool, Divides
  <1>8. Abstract!Pages(ExtentOfHold(j)) \cap Abstract!Pages(ExtentOfHold(k)) = {}
    <2>1. SUFFICES ASSUME NEW p \in Abstract!Pages(ExtentOfHold(j)),
                          p \in Abstract!Pages(ExtentOfHold(k))
                   PROVE  FALSE
      OBVIOUS
    <2>2. AreaOf(j.span) = a /\ AreaOf(k.span) = a  BY DEF a
    <2>3. SpanAt(a, p) \in PagesOf(PieceOf(j)) /\ SpanAt(a, p) \in PagesOf(PieceOf(k))
      BY <1>6, <2>1, <2>2
    <2> QED  BY <1>7, <2>3
  <1>9. ExtentOfHold(j) \in Abstract!Extent
    <2>1. PageOf(j.span) \in 0..AreaPages - 1  BY <1>5 DEF a
    <2> QED  BY <1>2, <2>1 DEF Abstract!Extent, ExtentOfHold
  <1> QED  BY <1>8, <1>9

\* The extent of a hold alone.
LEMMA HoldExtent ==
  ASSUME NEW h, NEW H, NEW L, Good(h, H, L), NEW k \in H
  PROVE  ExtentOfHold(k) \in Abstract!Extent
  <1>1. k.span \in Spans /\ k.pages \in 1..LARGE  BY DEF Good, Holds
  <1>2. PageOf(k.span) \in 0..AreaPages - 1  BY <1>1, PageOfSpan
  <1> QED  BY <1>1, <1>2 DEF Abstract!Extent, ExtentOfHold

\* A span more held is an acquisition of the abstract allocator, or none of its.
LEMMA AcquireStep ==
  ASSUME IInv, IInv', NEW q, held' = held \cup {q}, q \notin held
  PROVE  [Abstract!Next]_(AllocOf(TheArea))
  <1>1. /\ AllocOf(TheArea) = {ExtentOfHold(k) : k \in {g \in held : AreaOf(g.span) = TheArea}}
        /\ AllocOf(TheArea)' = {ExtentOfHold(k) : k \in {g \in held' : AreaOf(g.span) = TheArea}}
    BY DEF AllocOf, ExtentOfHold
  <1>2. Good(heap', held', lost') /\ q \in held'  BY DEF IInv
  <1>3. CASE AreaOf(q.span) # TheArea
    <2>1. AllocOf(TheArea)' = AllocOf(TheArea)  BY <1>1, <1>3
    <2> QED  BY <2>1
  <1>4. CASE AreaOf(q.span) = TheArea
    <2> DEFINE e == ExtentOfHold(q)
    <2>1. AllocOf(TheArea)' = AllocOf(TheArea) \cup {e}  BY <1>1, <1>4
    <2>2. e \in Abstract!Extent  BY <1>2, HoldExtent
    <2>3. ASSUME NEW f \in AllocOf(TheArea)  PROVE Abstract!Pages(e) \cap Abstract!Pages(f) = {}
      <3>1. PICK k \in held : AreaOf(k.span) = TheArea /\ f = ExtentOfHold(k)  BY <1>1
      <3>2. k \in held' /\ k # q  OBVIOUS
      <3> QED  BY <1>2, <1>4, <3>1, <3>2, HoldsApart
    <2> HIDE DEF e
    <2>4. Abstract!Acquire  BY <2>1, <2>2, <2>3 DEF Abstract!Acquire
    <2> QED  BY <2>4 DEF Abstract!Next
  <1> QED  BY <1>3, <1>4

\* A span given back is a release of the abstract allocator, or none of its.
LEMMA ReleaseStep ==
  ASSUME IInv, NEW k \in held, held' = held \ {k}
  PROVE  [Abstract!Next]_(AllocOf(TheArea))
  <1>1. /\ AllocOf(TheArea) = {ExtentOfHold(j) : j \in {g \in held : AreaOf(g.span) = TheArea}}
        /\ AllocOf(TheArea)' = {ExtentOfHold(j) : j \in {g \in held' : AreaOf(g.span) = TheArea}}
    BY DEF AllocOf, ExtentOfHold
  <1>2. Good(heap, held, lost)  BY DEF IInv
  <1>3. CASE AreaOf(k.span) # TheArea
    <2>1. AllocOf(TheArea)' = AllocOf(TheArea)  BY <1>1, <1>3
    <2> QED  BY <2>1
  <1>4. CASE AreaOf(k.span) = TheArea
    <2> DEFINE e == ExtentOfHold(k)
    <2>1. \A j \in held : AreaOf(j.span) = TheArea /\ ExtentOfHold(j) = e => j = k
      <3>1. SUFFICES ASSUME NEW j \in held, AreaOf(j.span) = TheArea, ExtentOfHold(j) = e
                     PROVE  j.span = k.span
        BY <1>2 DEF Good
      <3>2. PageOf(j.span) = PageOf(k.span)
        <4>1. ExtentOfHold(j).first = ExtentOfHold(k).first  BY <3>1
        <4> QED  BY <4>1 DEF ExtentOfHold
      <3>3. j.span \in Spans /\ k.span \in Spans  BY <1>2 DEF Good, Holds
      <3>4. j.span = SpanAt(TheArea, PageOf(j.span)) /\ k.span = SpanAt(TheArea, PageOf(k.span))
        BY <1>4, <3>1, <3>3, PageOfSpan
      <3> QED  BY <3>2, <3>4
    <2>2. AllocOf(TheArea)' = AllocOf(TheArea) \ {e} /\ e \in AllocOf(TheArea)
      BY <1>1, <1>4, <2>1
    <2> HIDE DEF e
    <2>3. Abstract!Release  BY <2>2 DEF Abstract!Release
    <2> QED  BY <2>3 DEF Abstract!Next
  <1> QED  BY <1>3, <1>4

\* The held spans of an area are the extents of an allocator that never hands
\* out a page in use: every step acquires an extent, releases one or neither.
THEOREM Implements == Spec => ImplementsPageExtents
  <1>1. Init => Abstract!Init  BY DEF Init, Abstract!Init, AllocOf
  <1>2. IInv /\ IInv' /\ [Next]_vars => [Abstract!Next]_(AllocOf(TheArea))
    <2> SUFFICES ASSUME IInv, IInv', [Next]_vars
                 PROVE  [Abstract!Next]_(AllocOf(TheArea))
      OBVIOUS
    <2>1. ASSUME held' = held  PROVE [Abstract!Next]_(AllocOf(TheArea))
      BY <2>1 DEF AllocOf
    <2>2. ASSUME NEW q, held' = held \cup {q}  PROVE [Abstract!Next]_(AllocOf(TheArea))
      <3>1. CASE q \in held
        <4>1. held' = held  BY <2>2, <3>1
        <4> QED  BY <2>1, <4>1
      <3>2. CASE q \notin held  BY <2>2, <3>2, AcquireStep
      <3> QED  BY <3>1, <3>2
    <2>3. ASSUME NEW k \in held, InitSmall(k)  PROVE [Abstract!Next]_(AllocOf(TheArea))
      <3> DEFINE q == Hold(k.span, 1, "small")
      <3>1. held' = (held \ {k}) \cup {q}  BY <2>3 DEF InitSmall
      <3>2. k.pages = 1
        <4>1. Described(heap, k)  BY DEF IInv, Good
        <4> QED  BY <2>3, <4>1 DEF InitSmall, Described
      <3>3. q.span = k.span /\ q.pages = 1  BY DEF Hold
      <3> HIDE DEF q
      <3>4. AllocOf(TheArea)' = AllocOf(TheArea)
        <4> DEFINE Here(H) == {g \in H : AreaOf(g.span) = TheArea}
                   x(g) == [first |-> PageOf(g.span), pages |-> g.pages]
        <4>1. x(q) = x(k) /\ AreaOf(q.span) = AreaOf(k.span)  BY <3>2, <3>3
        <4>2. \A g \in Here(held) : \E f \in Here(held') : x(g) = x(f)
          <5>1. TAKE g \in Here(held)
          <5>2. CASE g = k
            <6>1. q \in Here(held')  BY <3>1, <4>1, <5>2
            <6> QED  BY <4>1, <5>2, <6>1
          <5>3. CASE g # k
            <6>1. g \in Here(held')  BY <3>1, <5>3
            <6> QED  BY <6>1
          <5> QED  BY <5>2, <5>3
        <4>3. \A g \in Here(held') : \E f \in Here(held) : x(g) = x(f)
          <5>1. TAKE g \in Here(held')
          <5>2. CASE g = q
            <6>1. k \in Here(held)  BY <4>1, <5>2
            <6> QED  BY <4>1, <5>2, <6>1
          <5>3. CASE g # q
            <6>1. g \in Here(held)  BY <3>1, <5>3
            <6> QED  BY <6>1
          <5> QED  BY <5>2, <5>3
        <4>4. AllocOf(TheArea) = {x(g) : g \in Here(held)}
              /\ AllocOf(TheArea)' = {x(g) : g \in Here(held')}
          BY DEF AllocOf
        <4> HIDE DEF Here, x
        <4> QED  BY <4>2, <4>3, <4>4
      <3> QED  BY <3>4
    <2>4. ASSUME NEW k \in held, ReturnSmall(k) \/ ReturnLarge(k)
          PROVE  [Abstract!Next]_(AllocOf(TheArea))
      <3>1. held' = held \ {k}  BY <2>4 DEF ReturnSmall, ReturnLarge
      <3> QED  BY <3>1, ReleaseStep
    <2>5. ASSUME NEW a \in Area, FetchPage(a)  PROVE [Abstract!Next]_(AllocOf(TheArea))
      <3> DEFINE q == Hold(acquire_span(heap, a, 0).span, 1, "page")
      <3>1. held' = held \cup {q}  BY <2>5 DEF FetchPage
      <3> HIDE DEF q
      <3> QED  BY <2>2, <3>1
    <2>6. ASSUME NEW a \in Area, NEW n \in 2..LARGE, AcquireLarge(a, n)
          PROVE  [Abstract!Next]_(AllocOf(TheArea))
      <3> DEFINE q == Hold(acquire_span(heap, a, n - 1).span, n, "large")
      <3>1. held' = held \cup {q}  BY <2>6 DEF AcquireLarge
      <3> HIDE DEF q
      <3> QED  BY <2>2, <3>1
    <2>7. CASE UNCHANGED vars  BY <2>1, <2>7 DEF vars
    <2> QED  BY <2>3, <2>4, <2>5, <2>6, <2>7 DEF Next
  <1> QED  BY <1>1, <1>2, Invariant, PTL DEF Spec, ImplementsPageExtents, Abstract!Spec
=============================================================================
