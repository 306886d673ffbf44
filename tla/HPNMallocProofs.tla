--------------------------- MODULE HPNMallocProofs ---------------------------
(***************************************************************************)
(* Safety of HPNMalloc for every number of threads, areas, segments, pages  *)
(* and classes, when each thread frees the blocks it allocated and no       *)
(* list_del has strayed: no block is handed out twice, the header that a    *)
(* free finds describes the block, a span is in one place, no page is lost, *)
(* and hpnmalloc and hpnfree implement BlockAllocator.                      *)
(***************************************************************************)
EXTENDS MCHPNMalloc, SpanHeapProofs

Lowest == CacheBase(THREAD_NUM)

\* The lists of a cache, numbered as their heads are: the spare pages, then
\* the background and the unavailable list of each class.
ListNo     == 0..2 * PageUnits
HeadOf(t, j) == CacheBase(t) + j
BackNo(i)  == 1 + i
NotNo(i)   == 1 + PageUnits + i
Caches     == [ListNo -> SUBSET Spans]

\* The page of a span that is one page long, as a piece of the pool.
One(s) == [at |-> s, pages |-> 1]

\* Blocks, and calls under way.
BlockType == [span : Spans, pos : Nat, size : Nat]
CallType ==
  [pc : PCs, class : Class \cup {-1}, pages : LargeSize \cup {0}, span : Spans \cup {NULL},
   order : Orders \cup {<<>>}, nvm_index : 0..AREA_NUM, addr : BlockType \cup {<<>>}]

\* The blocks of a thread with call l and blocks bl, the one a call is about
\* to return included, and those of them in span s.
Blocks(l, bl) == bl \cup (IF l.addr = <<>> THEN {} ELSE {l.addr})
Mates(use, s) == {b \in use : b.span = s}

\* The header of a small span that serves calls agrees with its blocks in use.
Serves(h, use, s) ==
  LET v == h.hdr[s]
      n == TotalBlocks(v.category)
  IN  /\ v.category \in Class
      /\ v.bitmap = (1..n) \ {b.pos : b \in Mates(use, s)}
      /\ v.free_block_num = Cardinality(v.bitmap)
      /\ v.free_block_num = n => v.cur_pos = 0
      /\ h.entry[s - 1] = s

OnCache(c, s) == \E j \in ListNo : s \in c[j]

\* The lists of the cache of thread t are c, and hold pages of k.
ListsGood(h, t, k, c) ==
  /\ \A j \in ListNo : Ring(h, HeadOf(t, j), c[j])
  /\ \A i, j \in ListNo : i # j => c[i] \cap c[j] = {}
  /\ \A j \in ListNo : \A s \in c[j] : One(s) \in k
  /\ \A i \in 0..PageUnits - 1 :
       \A s \in c[BackNo(i)] \cup c[NotNo(i)] : h.hdr[s].category = i

\* The foreground span of a class is on no list.
ForegroundGood(h, k, c, f) ==
  \A i \in Class : f[i] # NULL => /\ One(f[i]) \in k /\ ~OnCache(c, f[i])
                                  /\ h.hdr[f[i]].category = i

\* The spans from which a cache may hand out a block: they serve, and have a
\* free block.
Reached(c, f, l, s) ==
  \/ s # NULL /\ \E i \in Class : s = f[i]
  \/ \E j \in ListNo \ {0} : s \in c[j]
  \/ l.pc = "clock" /\ s = l.span

ReachedGood(h, c, f, l, use) ==
  \A s : Reached(c, f, l, s) => Serves(h, use, s) /\ h.hdr[s].bitmap # {}

\* The span of a block is a piece of k that its header describes.
SmallGood(h, k, use, b) ==
  /\ One(b.span) \in k
  /\ b.pos \in 1..TotalBlocks(h.hdr[b.span].category)
  /\ b.size = h.hdr[b.span].category + 1
  /\ Serves(h, use, b.span)

LargeGood(h, k, b) ==
  /\ b.size \in LargeSize
  /\ [at |-> b.span, pages |-> b.size] \in k
  /\ h.hdr[b.span].category = LARGE /\ h.hdr[b.span].page_num = b.size
  /\ h.entry[b.span - 1] = b.span

BlocksGood(h, k, use) ==
  \A b \in use : IF b.pos = 0 THEN LargeGood(h, k, b) ELSE SmallGood(h, k, use, b)

\* A spare page has no block in use.
SpareGood(c, use) == \A s \in c[0] : Mates(use, s) = {}

\* The span a call has in hand.
ChosenGood(h, k, c, l) ==
  /\ l.class \in Class /\ One(l.span) \in k /\ h.hdr[l.span].category = l.class
  /\ ~OnCache(c, l.span)

GivenUpGood(h, k, c, f, l, use) ==
  /\ l.class = -1 /\ Mates(use, l.span) = {}
  /\ ~OnCache(c, l.span) /\ \A i \in Class : f[i] # l.span
  /\ [at |-> l.span, pages |-> IF h.hdr[l.span].category # LARGE THEN 1
                               ELSE h.hdr[l.span].page_num] \in k

Searching == {"acquire", "select", "trylock", "fill", "clock"}
Answering == {"account", "accounting"}
GivingUp  == {"giveback", "giving"}

CallGood(h, k, c, f, l, bl) ==
  /\ l.pc \in Searching => l.nvm_index \in 1..AREA_NUM
  /\ l.pc \in Searching /\ l.class = -1 => l.pc \notin {"acquire", "clock"} /\ l.pages \in LargeSize
  /\ l.pc \in {"trylock", "fill"} => l.order \in Orders
  /\ l.pc = "clock" => ChosenGood(h, k, c, l)
  /\ l.pc \in Answering => l.addr \in BlockType /\ l.addr \notin bl /\ l.addr.span = l.span
  /\ l.pc \notin Answering => l.addr = <<>>
  /\ l.pc \in GivingUp => GivenUpGood(h, k, c, f, l, Blocks(l, bl))

\* Thread t with cache c, foreground f, call l and blocks bl owns the pieces k.
ThreadGood(h, t, k, c, f, l, bl) ==
  /\ ListsGood(h, t, k, c)
  /\ ForegroundGood(h, k, c, f)
  /\ ReachedGood(h, c, f, l, Blocks(l, bl))
  /\ BlocksGood(h, k, Blocks(l, bl))
  /\ SpareGood(c, Blocks(l, bl))
  /\ CallGood(h, k, c, f, l, bl)

\* What every header holds.
HeaderGood(v) ==
  /\ v.category \in Class \cup {0, LARGE}
  /\ v.bitmap \subseteq 1..PageUnits
  /\ v.free_block_num \in 0..PageUnits
HeadersGood(h) == \A s \in Spans : HeaderGood(h.hdr[s])

\* Span s is within reach of its thread: in the cache, which is out of reach
\* once the thread has ended, in the hand of a call, or with a block in use.
KeptAt(c, f, l, use, s) ==
  \/ l.pc # "gone" /\ (OnCache(c, s) \/ (s # NULL /\ \E i \in Class : s = f[i]))
  \/ Mates(use, s) # {}
  \/ l.pc \in {"clock"} \cup GivingUp /\ s = l.span

\* Of its pieces k the thread has those with pages of X within reach.
Recalls(X, k, c, f, l, use) ==
  \A e \in k : PagesOf(e) \cap X # {} => KeptAt(c, f, l, use, e.at)

\* The pages X are in pieces of the pools or held.
InReach(X, h, L) == X \subseteq Retained(h.free_start, L)

\* Each thread owns the pieces of K, with the cache C, and the pools account
\* for the rest of the pages.  The pages X are to be kept: some set of pages
\* that is fixed while the state changes, and empty where it is of no concern.
Held(K) == UNION {K[t] : t \in Thread}
HeapGood(X, h, K, C, f, l, bl) ==
  /\ K \in [Thread -> SUBSET Piece] /\ C \in [Thread -> Caches]
  /\ \A t, u \in Thread : t # u => K[t] \cap K[u] = {}
  /\ \E S, L : Pool(Lowest, h, S, Held(K), L) /\ InReach(X, h, L)
  /\ HeadersGood(h)
  /\ \A t \in Thread : /\ ThreadGood(h, t, K[t], C[t], f[t], l[t], bl[t])
                       /\ Recalls(X, K[t], C[t], f[t], l[t], Blocks(l[t], bl[t]))

\* A call with a span in hand is past the search for one, and the search goes
\* on, and the clock is asked, with no other span in the foreground of the class.
Fronted(l, f) ==
  /\ l.span # NULL => l.pc \in {"clock"} \cup Answering \cup GivingUp
  /\ l.pc \in {"select", "trylock", "fill"} /\ l.class # -1 => f[l.class] = NULL
  /\ l.pc = "clock" => f[l.class] \in {NULL, l.span}

FrontsGood == \A t \in Thread : Fronted(th[t], foreground[t])

\* A thread in a critical section has the lock of its area.
Holds(l, o, t) ==
  /\ l.pc = "fill" => l.order[l.nvm_index] \in Area /\ o[l.order[l.nvm_index]] = t
  /\ l.pc \in {"accounting", "giving"} => AreaOf(l.span) \in Area /\ o[AreaOf(l.span)] = t

LocksGood == owner \in [Area -> Thread \cup {NoOne}] /\ \A t \in Thread : Holds(th[t], owner, t)

Thresholds == [Thread -> {0} \cup {w \in Nat : w >= FIXED_THRESHOLD}]

StateType ==
  /\ foreground \in [Thread -> [Class -> Spans \cup {NULL}]]
  /\ threshold \in Thresholds
  /\ th \in [Thread -> CallType]
  /\ live \in [Thread -> SUBSET BlockType]
  /\ \A t \in Thread : IsFiniteSet(live[t])
  /\ calls \in [Thread -> 0..MaxCalls]
  /\ strayed \in BOOLEAN

Good(X) == StateType /\ LocksGood /\ \E K, C : HeapGood(X, heap, K, C, foreground, th, live)

\* The inductive invariant.
IInv == strayed \/ (Good({}) /\ FrontsGood)

-----------------------------------------------------------------------------
\* The classes a thread asks for and the blocks of their spans.
LEMMA ClassBlocks ==
  ASSUME NEW c \in Class
  PROVE  /\ c \in 0..PageUnits - 1 /\ c \in 0..LARGE - 1 /\ c # LARGE
         /\ TotalBlocks(c) \in 1..PageUnits
         /\ \A p \in 1..TotalBlocks(c) : p * (c + 1) <= PageUnits /\ p * (c + 1) >= p
  <1>1. c \in 0..PageUnits - 1 /\ c < LARGE /\ LARGE \in Nat /\ PageUnits \in Nat \ {0}
    BY CallAssumption, Sizes
  <1>2. TotalBlocks(c) \in 1..PageUnits /\ TotalBlocks(c) * (c + 1) <= PageUnits
    BY <1>1 DEF TotalBlocks
  <1>3. ASSUME NEW p \in 1..TotalBlocks(c)
        PROVE  p * (c + 1) <= PageUnits /\ p * (c + 1) >= p
    <2>1. p * (c + 1) <= TotalBlocks(c) * (c + 1)  BY <1>1, <1>2
    <2>2. p * (c + 1) = p * c + p /\ p * c >= 0  BY <1>1, <1>2
    <2> QED  BY <1>1, <1>2, <2>1, <2>2
  <1> QED  BY <1>1, <1>2, <1>3

\* The heads of the cache lists lie below those of the pools, each apart.
LEMMA CacheHead ==
  ASSUME NEW t \in Thread, NEW j \in ListNo
  PROVE  /\ HeadOf(t, j) \in Heads /\ HeadOf(t, j) \in Node(Lowest)
         /\ HeadOf(t, j) \notin FreeLists /\ HeadOf(t, j) \notin Spans \cup {NULL}
         /\ \A u \in Thread, i \in ListNo : HeadOf(t, j) = HeadOf(u, i) => t = u /\ j = i
  <1> DEFINE W == 2 * PageUnits + 1
  <1>1. /\ t \in Nat \ {0} /\ t <= THREAD_NUM /\ THREAD_NUM \in Nat /\ W \in Nat \ {0}
        /\ AREA_NUM * LARGE_BLOCK_NUM \in Nat \ {0} /\ AREA_NUM * AreaPages \in Nat
        /\ j \in 0..W - 1
    BY Sizes, CallAssumption DEF Thread, ListNo
  <1>2. t * W \in Nat /\ THREAD_NUM * W \in Nat /\ t * W >= W /\ t * W <= THREAD_NUM * W
    <2> HIDE DEF W
    <2>1. t * W = (t - 1) * W + W /\ (t - 1) * W >= 0  BY <1>1
    <2>2. THREAD_NUM * W = t * W + (THREAD_NUM - t) * W /\ (THREAD_NUM - t) * W >= 0  BY <1>1
    <2> QED  BY <1>1, <2>1, <2>2
  <1>3. /\ HeadOf(t, j) = j - t * W - AREA_NUM * LARGE_BLOCK_NUM
        /\ Lowest = -(AREA_NUM * LARGE_BLOCK_NUM) - THREAD_NUM * W
    BY <1>1, <1>2 DEF HeadOf, CacheBase, CacheSize, Lowest
  <1>4. ASSUME NEW u \in Thread, NEW i \in ListNo, HeadOf(t, j) = HeadOf(u, i)
        PROVE  t = u /\ j = i
    <2>1. u \in Nat \ {0} /\ i \in 0..W - 1
      <3>1. u \in Nat \ {0}  BY CallAssumption DEF Thread
      <3>2. i \in 0..2 * PageUnits /\ PageUnits \in Nat  BY Sizes DEF ListNo
      <3> QED  BY <3>1, <3>2
    <2>2. u * W \in Nat  BY <1>1, <2>1
    <2>3. HeadOf(u, i) = i - u * W - AREA_NUM * LARGE_BLOCK_NUM
      BY <1>1, <2>1, <2>2 DEF HeadOf, CacheBase, CacheSize
    <2> HIDE DEF W
    <2>4. j - t * W = i - u * W  BY <1>1, <1>2, <1>3, <1>4, <2>1, <2>2, <2>3
    <2>5. ASSUME NEW x \in Nat, NEW y \in Nat, x < y  PROVE y * W - x * W >= W
      <3>1. y * W = x * W + (y - x - 1) * W + W /\ (y - x - 1) * W >= 0  BY <1>1, <2>5
      <3>2. x * W \in Nat /\ y * W \in Nat  BY <1>1
      <3> QED  BY <1>1, <3>1, <3>2
    <2>6. ~ (t < u) /\ ~ (u < t)  BY <1>1, <1>2, <2>1, <2>2, <2>4, <2>5
    <2> QED  BY <1>1, <1>2, <2>1, <2>4, <2>6
  <1> HIDE DEF W
  <1>5. /\ HeadOf(t, j) \in Lowest..-(AREA_NUM * LARGE_BLOCK_NUM) - 1
        /\ Lowest \in Int
    BY <1>1, <1>2, <1>3
  <1>6. HeadOf(t, j) \in Heads  BY <1>5 DEF Heads, Lowest
  <1> QED  BY <1>1, <1>4, <1>5, <1>6 DEF Node, FreeLists, Spans, NULL

\* The nodes of HPNMalloc: the list heads of pools and caches, NULL, the spans.
LEMMA LowestNodes == Lowest \in Int /\ FreeLists \subseteq Node(Lowest)
  <1>1. /\ AREA_NUM * LARGE_BLOCK_NUM \in Nat \ {0} /\ AREA_NUM * AreaPages \in Nat
        /\ THREAD_NUM * CacheSize \in Nat
    BY Sizes, CallAssumption DEF CacheSize
  <1> QED  BY <1>1 DEF Lowest, CacheBase, Node, FreeLists

\* The lists of the code by their numbers.
LEMMA ListNumbers ==
  /\ 0 \in ListNo
  /\ \A i \in 0..PageUnits - 1 : /\ BackNo(i) \in ListNo /\ NotNo(i) \in ListNo
                                 /\ BackNo(i) # 0 /\ NotNo(i) # 0
                                 /\ \A j \in 0..PageUnits - 1 :
                                      /\ BackNo(i) # NotNo(j)
                                      /\ BackNo(i) = BackNo(j) => i = j
                                      /\ NotNo(i) = NotNo(j) => i = j
  /\ \A j \in ListNo \ {0} : \E i \in 0..PageUnits - 1 : j = BackNo(i) \/ j = NotNo(i)
  /\ \A t \in Thread : /\ FreeSpans(t) = HeadOf(t, 0)
                       /\ \A i \in 0..PageUnits - 1 : /\ Background(t, i) = HeadOf(t, BackNo(i))
                                                      /\ NAvaliable(t, i) = HeadOf(t, NotNo(i))
  <1>1. PageUnits \in Nat \ {0}  BY Sizes
  <1>2. \A t \in Thread : CacheBase(t) \in Int
    <2>1. \A t \in Thread : AREA_NUM * LARGE_BLOCK_NUM \in Nat /\ t * CacheSize \in Int
      BY Sizes DEF Thread, CacheSize
    <2> QED  BY <2>1 DEF CacheBase
  <1>3. ASSUME NEW j \in ListNo \ {0}
        PROVE  \E i \in 0..PageUnits - 1 : j = BackNo(i) \/ j = NotNo(i)
    <2>1. CASE j <= PageUnits
      <3>1. j - 1 \in 0..PageUnits - 1 /\ j = 1 + (j - 1)  BY <1>1, <2>1 DEF ListNo
      <3> QED  BY <3>1 DEF BackNo
    <2>2. CASE j > PageUnits
      <3>1. j - 1 - PageUnits \in 0..PageUnits - 1 /\ j = 1 + PageUnits + (j - 1 - PageUnits)
        BY <1>1, <2>2 DEF ListNo
      <3> QED  BY <3>1 DEF NotNo
    <2> QED  BY <1>1, <2>1, <2>2 DEF ListNo
  <1>4. \A i \in 0..PageUnits - 1 :
           /\ BackNo(i) \in ListNo /\ NotNo(i) \in ListNo
           /\ BackNo(i) # 0 /\ NotNo(i) # 0
           /\ \A j \in 0..PageUnits - 1 : /\ BackNo(i) # NotNo(j)
                                          /\ BackNo(i) = BackNo(j) => i = j
                                          /\ NotNo(i) = NotNo(j) => i = j
    BY <1>1 DEF BackNo, NotNo, ListNo
  <1>5. \A t \in Thread : /\ FreeSpans(t) = HeadOf(t, 0)
                          /\ \A i \in 0..PageUnits - 1 : /\ Background(t, i) = HeadOf(t, BackNo(i))
                                                         /\ NAvaliable(t, i) = HeadOf(t, NotNo(i))
    BY <1>1, <1>2 DEF FreeSpans, Background, NAvaliable, HeadOf, BackNo, NotNo
  <1>6. 0 \in ListNo  BY <1>1 DEF ListNo
  <1> QED  BY <1>3, <1>4, <1>5, <1>6

-----------------------------------------------------------------------------
\* The nodes of the lists of a thread's cache.
Own(t, c) == {HeadOf(t, j) : j \in ListNo} \cup UNION {c[j] : j \in ListNo}

\* From h to g, thread u with cache c and pieces k sees no change: its lists
\* and the headers of its pieces are as they were.
Spared(h, g, u, k, c) ==
  /\ \A e \in k : /\ g.hdr[e.at] = h.hdr[e.at]
                  /\ h.entry[e.at - 1] = e.at => g.entry[e.at - 1] = e.at
  /\ \A n \in Own(u, c) : g.next[n] = h.next[n] /\ g.prev[n] = h.prev[n]

\* Lists stay in order when neither links nor categories of their nodes change.
LEMMA ListsFrame ==
  ASSUME NEW h, NEW g, NEW u \in Thread, NEW k, NEW c, ListsGood(h, u, k, c),
         \A n \in Own(u, c) : g.next[n] = h.next[n] /\ g.prev[n] = h.prev[n],
         \A s : OnCache(c, s) => g.hdr[s].category = h.hdr[s].category
  PROVE  ListsGood(g, u, k, c)
  <1>1. ASSUME NEW j \in ListNo  PROVE Ring(g, HeadOf(u, j), c[j])
    <2>1. Ring(h, HeadOf(u, j), c[j])  BY DEF ListsGood
    <2>2. c[j] \cup {HeadOf(u, j)} \subseteq Own(u, c)  BY DEF Own
    <2> QED  BY <2>1, <2>2, RingFrame
  <1>2. ASSUME NEW i \in 0..PageUnits - 1, NEW s \in c[BackNo(i)] \cup c[NotNo(i)]
        PROVE  g.hdr[s].category = i
    <2>1. BackNo(i) \in ListNo /\ NotNo(i) \in ListNo  BY ListNumbers
    <2>2. OnCache(c, s) /\ h.hdr[s].category = i  BY <2>1 DEF ListsGood, OnCache
    <2> QED  BY <2>2
  <1> QED  BY <1>1, <1>2 DEF ListsGood

\* Its lists are in order then.
LEMMA SparedLists ==
  ASSUME NEW h, NEW g, NEW u \in Thread, NEW k, NEW c, ListsGood(h, u, k, c),
         Spared(h, g, u, k, c)
  PROVE  ListsGood(g, u, k, c)
  <1>1. \A s : OnCache(c, s) => g.hdr[s].category = h.hdr[s].category
    <2>1. \A s : One(s).at = s  BY DEF One
    <2>2. \A s : OnCache(c, s) => One(s) \in k  BY DEF OnCache, ListsGood
    <2> QED  BY <2>1, <2>2 DEF Spared
  <1> QED  BY <1>1, ListsFrame DEF Spared

\* What a thread does not see change does not harm it.
LEMMA SparedThread ==
  ASSUME NEW h, NEW g, NEW u \in Thread, NEW k, NEW c, NEW f, NEW l, NEW bl,
         ThreadGood(h, u, k, c, f, l, bl), Spared(h, g, u, k, c)
  PROVE  ThreadGood(g, u, k, c, f, l, bl)
  <1> DEFINE use == Blocks(l, bl)
  <1>1. /\ ListsGood(h, u, k, c) /\ ForegroundGood(h, k, c, f) /\ ReachedGood(h, c, f, l, use)
        /\ BlocksGood(h, k, use) /\ SpareGood(c, use) /\ CallGood(h, k, c, f, l, bl)
    BY DEF ThreadGood
  <1>2. \A s : One(s) \in k => /\ g.hdr[s] = h.hdr[s]
                               /\ h.entry[s - 1] = s => g.entry[s - 1] = s
    <2>1. \A s : One(s).at = s  BY DEF One
    <2> QED  BY <2>1 DEF Spared
  <1>3. ASSUME NEW s, NEW x, One(s) \in k, Serves(h, x, s)  PROVE Serves(g, x, s)
    BY <1>2, <1>3 DEF Serves
  <1>4. ListsGood(g, u, k, c)  BY <1>1, SparedLists
  <1>5. ForegroundGood(g, k, c, f)  BY <1>1, <1>2 DEF ForegroundGood
  <1>6. ASSUME NEW s, Reached(c, f, l, s)  PROVE One(s) \in k
    <2>1. CASE \E i \in Class : s # NULL /\ s = f[i]  BY <1>1, <2>1 DEF ForegroundGood
    <2>2. CASE \E j \in ListNo \ {0} : s \in c[j]  BY <1>1, <2>2 DEF ListsGood
    <2>3. CASE l.pc = "clock" /\ s = l.span
      <3>1. ChosenGood(h, k, c, l)  BY <1>1, <2>3 DEF CallGood
      <3> QED  BY <2>3, <3>1 DEF ChosenGood
    <2> QED  BY <1>6, <2>1, <2>2, <2>3 DEF Reached
  <1>7. ReachedGood(g, c, f, l, use)
    <2> HIDE DEF use
    <2> QED  BY <1>1, <1>2, <1>3, <1>6 DEF ReachedGood
  <1>8. BlocksGood(g, k, use)
    <2>1. ASSUME NEW b \in use, b.pos = 0  PROVE LargeGood(g, k, b)
      <3>1. LargeGood(h, k, b)  BY <1>1, <2>1 DEF BlocksGood
      <3>2. [at |-> b.span, pages |-> b.size].at = b.span  OBVIOUS
      <3>3. /\ g.hdr[b.span] = h.hdr[b.span]
            /\ h.entry[b.span - 1] = b.span => g.entry[b.span - 1] = b.span
        BY <3>1, <3>2 DEF LargeGood, Spared
      <3> QED  BY <3>1, <3>3 DEF LargeGood
    <2>2. ASSUME NEW b \in use, b.pos # 0  PROVE SmallGood(g, k, use, b)
      <3>1. SmallGood(h, k, use, b)  BY <1>1, <2>2 DEF BlocksGood
      <3> HIDE DEF use
      <3> QED  BY <1>2, <1>3, <3>1 DEF SmallGood
    <2> HIDE DEF use
    <2> QED  BY <2>1, <2>2 DEF BlocksGood
  <1>9. CallGood(g, k, c, f, l, bl)
    <2>1. l.pc = "clock" => ChosenGood(g, k, c, l)  BY <1>1, <1>2 DEF CallGood, ChosenGood
    <2>2. ASSUME l.pc \in GivingUp  PROVE GivenUpGood(g, k, c, f, l, use)
      <3>1. GivenUpGood(h, k, c, f, l, use)  BY <1>1, <2>2 DEF CallGood
      <3>2. \A m : [at |-> l.span, pages |-> m].at = l.span  OBVIOUS
      <3>3. g.hdr[l.span] = h.hdr[l.span]  BY <3>1, <3>2 DEF GivenUpGood, Spared
      <3> QED  BY <3>1, <3>3 DEF GivenUpGood
    <2> QED  BY <1>1, <2>1, <2>2 DEF CallGood
  <1> QED  BY <1>1, <1>4, <1>5, <1>7, <1>8, <1>9 DEF ThreadGood

\* Further pieces do not harm a thread.
LEMMA MorePieces ==
  ASSUME NEW h, NEW u, NEW k, NEW m, NEW c, NEW f, NEW l, NEW bl,
         ThreadGood(h, u, k, c, f, l, bl), k \subseteq m
  PROVE  ThreadGood(h, u, m, c, f, l, bl)
  <1>1. ListsGood(h, u, m, c) /\ ForegroundGood(h, m, c, f)
    BY DEF ThreadGood, ListsGood, ForegroundGood
  <1>2. \A x : BlocksGood(h, k, x) => BlocksGood(h, m, x)
    BY DEF BlocksGood, SmallGood, LargeGood
  <1>3. CallGood(h, k, c, f, l, bl) => CallGood(h, m, c, f, l, bl)
    BY DEF CallGood, ChosenGood, GivenUpGood
  <1> QED  BY <1>1, <1>2, <1>3 DEF ThreadGood

-----------------------------------------------------------------------------
\* What is no business of thread t: the heads of the free lists, NULL, the
\* spans on the free lists S and the lists of the other threads' caches.
Others(S, C, t) ==
  {FreeList(a, i) : a \in Area, i \in ListIndex} \cup {NULL} \cup {s \in Spans : OnShelf(S, s)}
  \cup UNION {Own(u, C[u]) : u \in Thread \ {t}}

\* From h to g, thread t has changed its lists, the headers of its pieces k
\* and where the map leads for them.
Local(h, g, t, k, S, C) ==
  /\ g \in HeapType(Lowest)
  /\ g.span_map = h.span_map /\ g.free_start = h.free_start /\ g.segments = h.segments
  /\ g.max_wc = h.max_wc /\ g.max_wear_page_index = h.max_wear_page_index
  /\ \A s \in Spans : (\A e \in k : e.at # s) => g.hdr[s] = h.hdr[s]
  /\ \A x \in MapEntries : g.entry[x] \in {h.entry[x], x + 1}
  /\ \A n \in Others(S, C, t) : g.next[n] = h.next[n] /\ g.prev[n] = h.prev[n]

\* Such changes add up.
LEMMA LocalTwice ==
  ASSUME NEW h, NEW g, NEW d, NEW t, NEW k, NEW S, NEW C,
         Local(h, g, t, k, S, C), Local(g, d, t, k, S, C)
  PROVE  Local(h, d, t, k, S, C)
  <1>1. \A x \in MapEntries : d.entry[x] \in {h.entry[x], x + 1}
    <2>1. \A x \in MapEntries : /\ d.entry[x] \in {g.entry[x], x + 1}
                                /\ g.entry[x] \in {h.entry[x], x + 1}
      BY DEF Local
    <2> QED  BY <2>1
  <1>2. \A s \in Spans : (\A e \in k : e.at # s) => d.hdr[s] = h.hdr[s]  BY DEF Local
  <1>3. \A n \in Others(S, C, t) : d.next[n] = h.next[n] /\ d.prev[n] = h.prev[n]  BY DEF Local
  <1> QED  BY <1>1, <1>2, <1>3 DEF Local

\* The pools do not notice.
LEMMA LocalPool ==
  ASSUME NEW h, NEW S, NEW H, NEW lost, Pool(Lowest, h, S, H, lost),
         NEW g, NEW t, NEW k \in SUBSET H, NEW C, Local(h, g, t, k, S, C)
  PROVE  Pool(Lowest, g, S, H, lost)
  <1>1. S \in Shelves /\ Shelved(h, S) /\ Mapped(h)  BY DEF Pool
  <1>2. \A a \in Area, i \in ListIndex : \A s \in S[a][i] : OnShelf(S, s) /\ s \in Spans
    BY <1>1 DEF OnShelf, Shelves
  <1>3. ASSUME NEW s \in Spans, OnShelf(S, s)  PROVE g.hdr[s] = h.hdr[s]
    <2>1. \A e \in k : e.at # s  BY <1>3, HeldPiece
    <2> QED  BY <2>1 DEF Local
  <1>4. \A a \in Area, i \in ListIndex : Ring(g, FreeList(a, i), S[a][i])
    <2>1. TAKE a \in Area, i \in ListIndex
    <2>2. Ring(h, FreeList(a, i), S[a][i])  BY <1>1 DEF Shelved
    <2>3. FreeList(a, i) \in Others(S, C, t)  BY DEF Others
    <2>4. S[a][i] \subseteq Others(S, C, t)  BY <1>2 DEF Others
    <2>5. \A n \in S[a][i] \cup {FreeList(a, i)} : g.next[n] = h.next[n] /\ g.prev[n] = h.prev[n]
      BY <2>3, <2>4 DEF Local
    <2> QED  BY <2>2, <2>5, RingFrame
  <1>5. g.next[NULL] = NULL /\ g.prev[NULL] = NULL
    <2>1. NULL \in Others(S, C, t)  BY DEF Others
    <2>2. h.next[NULL] = NULL /\ h.prev[NULL] = NULL  BY <1>1 DEF Shelved
    <2> QED  BY <2>1, <2>2 DEF Local
  <1>6. Shelved(g, S)
    <2>1. /\ \A a \in Area : S[a][LARGE] = {}
          /\ \A a \in Area, i \in ListIndex : \A s \in S[a][i] :
               /\ g.hdr[s].page_num = i + 1 /\ AreaOf(s) = a
               /\ g.hdr[s].wear_count <= g.max_wc[a]
      BY <1>1, <1>2, <1>3 DEF Shelved, Local
    <2>2. \A a \in Area, i \in ListIndex : g.max_wear_page_index[a][i] \in S[a][i] \cup {NULL}
      BY <1>1 DEF Shelved, Local
    <2> QED  BY <1>4, <1>5, <2>1, <2>2 DEF Shelved
  <1>7. Mapped(g)
    <2>1. \A x \in MapEntries : h.entry[x] \in {NULL, x + 1} /\ g.entry[x] \in {h.entry[x], x + 1}
      BY <1>1 DEF Mapped, Local
    <2>2. \A x \in MapEntries : g.entry[x] \in {NULL, x + 1}  BY <2>1
    <2> QED  BY <1>1, <2>2 DEF Mapped, Local
  <1> QED  BY <1>6, <1>7 DEF Pool, Local

\* Nor do the other threads, whose pieces are others.
LEMMA LocalSpared ==
  ASSUME NEW h, NEW S, NEW K \in [Thread -> SUBSET Piece], NEW lost,
         Pool(Lowest, h, S, Held(K), lost), \A t, u \in Thread : t # u => K[t] \cap K[u] = {},
         NEW C, NEW t \in Thread, NEW g, Local(h, g, t, K[t], S, C),
         NEW u \in Thread \ {t}
  PROVE  Spared(h, g, u, K[u], C[u])
  <1>1. \A n \in Own(u, C[u]) : g.next[n] = h.next[n] /\ g.prev[n] = h.prev[n]
    <2>1. Own(u, C[u]) \subseteq Others(S, C, t)  BY DEF Others
    <2> QED  BY <2>1 DEF Local
  <1>2. ASSUME NEW e \in K[u]
        PROVE  /\ g.hdr[e.at] = h.hdr[e.at]
               /\ h.entry[e.at - 1] = e.at => g.entry[e.at - 1] = e.at
    <2>1. K[u] \subseteq Held(K) /\ K[t] \subseteq Held(K)  BY DEF Held
    <2>2. e.at \in Spans  BY <2>1, HeldPiece
    <2>3. \A d \in K[t] : d.at # e.at
      <3>1. ASSUME NEW d \in K[t], d.at = e.at  PROVE FALSE
        <4>1. d = e  BY <2>1, <3>1, HeldPiece
        <4> QED  BY <4>1, <1>2
      <3> QED  BY <3>1
    <2>4. g.hdr[e.at] = h.hdr[e.at]  BY <2>2, <2>3 DEF Local
    <2>5. e.at - 1 \in MapEntries /\ (e.at - 1) + 1 = e.at  BY <2>2, Sizes DEF Spans, MapEntries
    <2>6. g.entry[e.at - 1] \in {h.entry[e.at - 1], (e.at - 1) + 1}  BY <2>5 DEF Local
    <2> QED  BY <2>4, <2>5, <2>6
  <1> QED  BY <1>1, <1>2 DEF Spared

\* The headers of its blocks in particular.
LEMMA SparedBlocks ==
  ASSUME NEW h, NEW g, NEW u, NEW k, NEW c, NEW f, NEW l, NEW bl,
         ThreadGood(h, u, k, c, f, l, bl), Spared(h, g, u, k, c), NEW b \in Blocks(l, bl)
  PROVE  g.hdr[b.span] = h.hdr[b.span]
  <1>1. \A n : [at |-> b.span, pages |-> n].at = b.span /\ One(b.span).at = b.span
    BY DEF One
  <1>2. \/ One(b.span) \in k
        \/ [at |-> b.span, pages |-> b.size] \in k
    BY DEF ThreadGood, BlocksGood, SmallGood, LargeGood
  <1> QED  BY <1>1, <1>2 DEF Spared

\* From f to g, nothing but the part of thread t has changed.
Only(t, f, g) == \A u \in Thread \ {t} : g[u] = f[u]

\* What the threads but t hold.
Elses(K, t) == UNION {K[u] : u \in Thread \ {t}}

\* From h to g, the headers of the blocks of the threads but t are as they were.
Untouched(h, g, t, l, bl) ==
  \A u \in Thread \ {t} : \A b \in Blocks(l[u], bl[u]) : g.hdr[b.span] = h.hdr[b.span]

\* What the threads hold when thread t holds k2.
LEMMA HeldWith ==
  ASSUME NEW K \in [Thread -> SUBSET Piece], NEW t \in Thread, NEW k2 \in SUBSET Piece
  PROVE  /\ [K EXCEPT ![t] = k2] \in [Thread -> SUBSET Piece]
         /\ Held([K EXCEPT ![t] = k2]) = k2 \cup Elses(K, t)
         /\ Held(K) = K[t] \cup Elses(K, t)
  <1> DEFINE K2 == [K EXCEPT ![t] = k2]
  <1>1. K2 \in [Thread -> SUBSET Piece] /\ K2[t] = k2 /\ \A u \in Thread \ {t} : K2[u] = K[u]
    OBVIOUS
  <1> HIDE DEF K2
  <1>2. Held(K2) = k2 \cup Elses(K, t)  BY <1>1 DEF Held, Elses
  <1>3. Held(K) = K[t] \cup Elses(K, t)  BY DEF Held, Elses
  <1> QED  BY <1>1, <1>2, <1>3 DEF K2

\* Every span but s that was within reach of the thread still is.
Keeping(c, f, l, use, c2, f2, l2, use2, s) ==
  \A x : x # s /\ KeptAt(c, f, l, use, x) => KeptAt(c2, f2, l2, use2, x)

\* What is in its pieces is within reach then, but for the pieces at s.
LEMMA RecallsElse ==
  ASSUME NEW X, NEW k, NEW c, NEW f, NEW l, NEW use, Recalls(X, k, c, f, l, use),
         NEW c2, NEW f2, NEW l2, NEW use2, NEW s, Keeping(c, f, l, use, c2, f2, l2, use2, s),
         (\A e \in k : e.at = s => PagesOf(e) \cap X = {}) \/ KeptAt(c2, f2, l2, use2, s)
  PROVE  Recalls(X, k, c2, f2, l2, use2)
  BY DEF Recalls, Keeping

\* Where fewer pages are to be kept.
LEMMA Narrowed ==
  ASSUME NEW X, NEW Y \in SUBSET X, NEW h, NEW K, NEW C, NEW f, NEW l, NEW bl,
         HeapGood(X, h, K, C, f, l, bl)
  PROVE  HeapGood(Y, h, K, C, f, l, bl)
  <1>1. \A k, c, u, x, use : Recalls(X, k, c, u, x, use) => Recalls(Y, k, c, u, x, use)
    BY DEF Recalls
  <1>2. \A L : InReach(X, h, L) => InReach(Y, h, L)  BY DEF InReach
  <1> QED  BY <1>1, <1>2 DEF HeapGood

\* The pages of a held piece are not lost, and not those of another.
LEMMA HeldRetained ==
  ASSUME NEW h, NEW S, NEW H, NEW lost, Pool(Lowest, h, S, H, lost), NEW e \in H
  PROVE  /\ e.at \in PagesOf(e) /\ PagesOf(e) \subseteq Retained(h.free_start, lost)
         /\ \A d \in H : d # e => PagesOf(d) \cap PagesOf(e) = {}
  <1>1. Divides(h.free_start, H \cup Shelf(S), lost) /\ h.free_start \in FreeStarts
    BY PoolFree DEF Pool
  <1>2. e \in Piece /\ Fits(h.free_start, e) /\ PagesOf(e) \cap lost = {}
    BY <1>1 DEF Divides
  <1>3. e.at \in PagesOf(e) /\ PagesOf(e) \subseteq CutSpans(h.free_start)
    BY <1>1, <1>2, PieceSpans
  <1>4. \A d \in H : d # e => PagesOf(d) \cap PagesOf(e) = {}  BY <1>1 DEF Divides
  <1>5. PagesOf(e) \subseteq Retained(h.free_start, lost)  BY <1>2, <1>3 DEF Retained
  <1> QED  BY <1>3, <1>4, <1>5

\* A piece of thread t that is within its reach is kept with the others.
LEMMA Regained ==
  ASSUME NEW X, NEW h, NEW K, NEW C, NEW f, NEW l, NEW bl, NEW t \in Thread, NEW e \in K[t],
         HeapGood(X \ PagesOf(e), h, K, C, f, l, bl),
         KeptAt(C[t], f[t], l[t], Blocks(l[t], bl[t]), e.at)
  PROVE  HeapGood(X, h, K, C, f, l, bl)
  <1> DEFINE Y == X \ PagesOf(e)
             use(u) == Blocks(l[u], bl[u])
  <1>1. /\ \A u, v \in Thread : u # v => K[u] \cap K[v] = {}
        /\ \A u \in Thread : Recalls(Y, K[u], C[u], f[u], l[u], use(u))
    BY DEF HeapGood
  <1>2. PICK S, L : Pool(Lowest, h, S, Held(K), L) /\ InReach(Y, h, L)  BY DEF HeapGood
  <1>3. e \in Held(K) /\ \A u \in Thread : K[u] \subseteq Held(K)  BY DEF Held
  <1>4. PagesOf(e) \subseteq Retained(h.free_start, L)  BY <1>2, <1>3, HeldRetained
  <1>5. InReach(X, h, L)  BY <1>2, <1>4 DEF InReach
  <1>6. ASSUME NEW u \in Thread  PROVE Recalls(X, K[u], C[u], f[u], l[u], use(u))
    <2>1. SUFFICES ASSUME NEW d \in K[u], PagesOf(d) \cap X # {}
                   PROVE  KeptAt(C[u], f[u], l[u], use(u), d.at)
      BY DEF Recalls
    <2>2. CASE d = e
      <3>1. u = t  BY <1>1, <2>2
      <3> QED  BY <2>2, <3>1
    <2>3. CASE d # e
      <3>1. PagesOf(d) \cap PagesOf(e) = {}  BY <1>2, <1>3, <2>3, HeldRetained
      <3>2. PagesOf(d) \cap Y # {}  BY <2>1, <3>1
      <3> QED  BY <1>1, <3>2 DEF Recalls
    <2> QED  BY <2>2, <2>3
  <1> QED  BY <1>2, <1>5, <1>6 DEF HeapGood

\* A step of thread t that leaves the other threads alone needs a look at t only.
LEMMA OneThread ==
  ASSUME NEW X, NEW h, NEW K, NEW C, NEW f, NEW l, NEW bl, HeapGood(X, h, K, C, f, l, bl),
         NEW t \in Thread, NEW k2 \in SUBSET Piece, NEW c2 \in Caches,
         \A u \in Thread \ {t} : k2 \cap K[u] = {},
         NEW g, \E S, L : Pool(Lowest, g, S, k2 \cup Elses(K, t), L) /\ InReach(X, g, L),
         HeadersGood(g), \A u \in Thread \ {t} : Spared(h, g, u, K[u], C[u]),
         NEW f2, NEW l2, NEW bl2, Only(t, f, f2), Only(t, l, l2), Only(t, bl, bl2),
         ThreadGood(g, t, k2, c2, f2[t], l2[t], bl2[t]),
         Recalls(X, k2, c2, f2[t], l2[t], Blocks(l2[t], bl2[t]))
  PROVE  /\ HeapGood(X, g, [K EXCEPT ![t] = k2], [C EXCEPT ![t] = c2], f2, l2, bl2)
         /\ Untouched(h, g, t, l, bl)
  <1> DEFINE K2 == [K EXCEPT ![t] = k2]
             C2 == [C EXCEPT ![t] = c2]
  <1>1. /\ K \in [Thread -> SUBSET Piece] /\ C \in [Thread -> Caches]
        /\ \A u, v \in Thread : u # v => K[u] \cap K[v] = {}
        /\ \A u \in Thread : /\ ThreadGood(h, u, K[u], C[u], f[u], l[u], bl[u])
                             /\ Recalls(X, K[u], C[u], f[u], l[u], Blocks(l[u], bl[u]))
    BY DEF HeapGood
  <1>2. K2 \in [Thread -> SUBSET Piece] /\ K2[t] = k2 /\ \A u \in Thread \ {t} : K2[u] = K[u]
    BY <1>1
  <1>3. C2 \in [Thread -> Caches] /\ C2[t] = c2 /\ \A u \in Thread \ {t} : C2[u] = C[u]
    BY <1>1
  <1>4. Held(K2) = k2 \cup Elses(K, t)  BY <1>1, HeldWith
  <1> HIDE DEF K2, C2
  <1>5. \A u, v \in Thread : u # v => K2[u] \cap K2[v] = {}
    <2>1. TAKE u, v \in Thread
    <2>2. CASE u = t /\ v # t  BY <1>2, <2>2
    <2>3. CASE v = t /\ u # t
      <3>1. k2 \cap K[u] = {}  BY <2>3
      <3>2. K2[v] = k2 /\ K2[u] = K[u]  BY <1>2, <2>3
      <3> QED  BY <3>1, <3>2
    <2>4. CASE v # t /\ u # t  BY <1>1, <1>2, <2>4
    <2> QED  BY <2>2, <2>3, <2>4
  <1>6. ASSUME NEW u \in Thread
        PROVE  /\ ThreadGood(g, u, K2[u], C2[u], f2[u], l2[u], bl2[u])
               /\ Recalls(X, K2[u], C2[u], f2[u], l2[u], Blocks(l2[u], bl2[u]))
    <2>1. CASE u = t  BY <1>2, <1>3, <2>1
    <2>2. CASE u # t
      <3>1. Spared(h, g, u, K[u], C[u])  BY <2>2
      <3>2. ThreadGood(g, u, K[u], C[u], f[u], l[u], bl[u])  BY <1>1, <3>1, SparedThread
      <3>3. f2[u] = f[u] /\ l2[u] = l[u] /\ bl2[u] = bl[u]  BY <2>2 DEF Only
      <3>4. K2[u] = K[u] /\ C2[u] = C[u]  BY <1>2, <1>3, <2>2
      <3>5. Recalls(X, K[u], C[u], f[u], l[u], Blocks(l[u], bl[u]))  BY <1>1
      <3> QED  BY <3>2, <3>3, <3>4, <3>5
    <2> QED  BY <2>1, <2>2
  <1>7. \E S, L : Pool(Lowest, g, S, Held(K2), L) /\ InReach(X, g, L)  BY <1>4
  <1>8. HeapGood(X, g, K2, C2, f2, l2, bl2)
    BY <1>2, <1>3, <1>5, <1>6, <1>7 DEF HeapGood
  <1>9. Untouched(h, g, t, l, bl)  BY <1>1, SparedBlocks DEF Untouched
  <1> QED  BY <1>8, <1>9 DEF K2, C2

\* So does one that works on its lists and pieces only.
LEMMA LocalThread ==
  ASSUME NEW X, NEW h, NEW K, NEW C, NEW f, NEW l, NEW bl, HeapGood(X, h, K, C, f, l, bl),
         NEW t \in Thread, NEW c2 \in Caches,
         NEW S, NEW L, Pool(Lowest, h, S, Held(K), L), InReach(X, h, L),
         NEW g, Local(h, g, t, K[t], S, C), HeadersGood(g),
         NEW f2, NEW l2, NEW bl2, Only(t, f, f2), Only(t, l, l2), Only(t, bl, bl2),
         ThreadGood(g, t, K[t], c2, f2[t], l2[t], bl2[t]),
         Recalls(X, K[t], c2, f2[t], l2[t], Blocks(l2[t], bl2[t]))
  PROVE  /\ HeapGood(X, g, K, [C EXCEPT ![t] = c2], f2, l2, bl2)
         /\ Untouched(h, g, t, l, bl)
  <1>1. /\ K \in [Thread -> SUBSET Piece] /\ K[t] \in SUBSET Piece
        /\ \A u, v \in Thread : u # v => K[u] \cap K[v] = {}
        /\ [K EXCEPT ![t] = K[t]] = K
    BY DEF HeapGood
  <1>2. Held(K) = K[t] \cup Elses(K, t) /\ K[t] \in SUBSET Held(K)  BY <1>1, HeldWith DEF Held
  <1>3. Pool(Lowest, g, S, Held(K), L)  BY <1>2, LocalPool
  <1>4. \A u \in Thread \ {t} : Spared(h, g, u, K[u], C[u])  BY <1>1, LocalSpared
  <1>5. \E R, M : Pool(Lowest, g, R, K[t] \cup Elses(K, t), M) /\ InReach(X, g, M)
    <2>1. g.free_start = h.free_start  BY DEF Local
    <2>2. InReach(X, g, L)  BY <2>1 DEF InReach
    <2> QED  BY <1>2, <1>3, <2>2
  <1>6. \A u \in Thread \ {t} : K[t] \cap K[u] = {}  BY <1>1
  <1>7. /\ HeapGood(X, g, [K EXCEPT ![t] = K[t]], [C EXCEPT ![t] = c2], f2, l2, bl2)
        /\ Untouched(h, g, t, l, bl)
    BY <1>1, <1>4, <1>5, <1>6, OneThread
  <1> QED  BY <1>1, <1>7

-----------------------------------------------------------------------------
\* The pools, with the free lists S and the lost pages L, and the lists of all
\* threads, those of thread t being c, are as they should.
Base(X, h, K, C, S, L, t, c) ==
  /\ K \in [Thread -> SUBSET Piece] /\ C \in [Thread -> Caches] /\ c \in Caches
  /\ \A u, v \in Thread : u # v => K[u] \cap K[v] = {}
  /\ Pool(Lowest, h, S, Held(K), L) /\ InReach(X, h, L)
  /\ \A u \in Thread \ {t} : ListsGood(h, u, K[u], C[u])
  /\ ListsGood(h, t, K[t], c)

\* A heap in order gives every thread such a base.
LEMMA BaseOf ==
  ASSUME NEW X, NEW h, NEW K, NEW C, NEW f, NEW l, NEW bl, HeapGood(X, h, K, C, f, l, bl),
         NEW t \in Thread
  PROVE  \E S, L : Base(X, h, K, C, S, L, t, C[t])
  BY DEF HeapGood, ThreadGood, Base

\* The nodes of thread t: the heads of its lists and the spans it holds.
Mine(t, k) == {HeadOf(t, j) : j \in ListNo} \cup {e.at : e \in k}

\* From h to g, only nodes of N have other links.
Relinked(h, g, N) ==
  /\ g \in HeapType(Lowest) /\ SameButLinks(h, g)
  /\ \A n \in Node(Lowest) : n \notin N => g.next[n] = h.next[n] /\ g.prev[n] = h.prev[n]

\* Piece e of thread t starts at a span of its own, cut and on no free list.
Apart(h, K, S, t, e) ==
  /\ e \in Held(K) /\ e.at \in Spans /\ e.at \in Node(Lowest) /\ e.at # NULL
  /\ ~OnShelf(S, e.at)
  /\ \A d \in K[t] : d.at = e.at => d = e
  /\ \A u \in Thread \ {t} : \A d \in K[u] : d.at # e.at
  /\ PageOf(e.at) < h.segments[AreaOf(e.at)] * SegPages

\* A piece of a thread is apart from the lists of the pools, from the other
\* pieces and from the other threads.
LEMMA HeldOne ==
  ASSUME NEW X, NEW h, NEW K, NEW C, NEW S, NEW L, NEW t \in Thread, NEW c, Base(X, h, K, C, S, L, t, c),
         NEW e \in K[t]
  PROVE  Apart(h, K, S, t, e)
  <1>1. Pool(Lowest, h, S, Held(K), L) /\ \A u, v \in Thread : u # v => K[u] \cap K[v] = {}
    BY DEF Base
  <1>2. e \in Held(K) /\ \A u \in Thread : \A d \in K[u] : d \in Held(K)  BY DEF Held
  <1>3. /\ e.at \in Spans /\ ~OnShelf(S, e.at) /\ \A d \in Held(K) : d.at = e.at => d = e
        /\ PageOf(e.at) < h.segments[AreaOf(e.at)] * SegPages
    BY <1>1, <1>2, HeldPiece
  <1>4. e.at \in Node(Lowest) /\ e.at # NULL  BY <1>3, LowestNodes, NodesIn
  <1>5. ASSUME NEW u \in Thread \ {t}, NEW d \in K[u], d.at = e.at  PROVE FALSE
    <2>1. d = e  BY <1>2, <1>3, <1>5
    <2>2. K[u] \cap K[t] = {}  BY <1>1
    <2> QED  BY <2>1, <2>2
  <1> QED  BY <1>2, <1>3, <1>4, <1>5 DEF Apart

\* The nodes of a thread are no business of the others, nor of the pools.
LEMMA MineApart ==
  ASSUME NEW X, NEW h, NEW K, NEW C, NEW S, NEW L, NEW t \in Thread, NEW c, Base(X, h, K, C, S, L, t, c)
  PROVE  Mine(t, K[t]) \cap Others(S, C, t) = {}
  <1>1. \A a \in Area, i \in ListIndex : FreeList(a, i) \in FreeLists /\ FreeList(a, i) \notin Spans
    BY FreeListHead
  <1>2. \A u \in Thread, j \in ListNo : \A s \in C[u][j] : s \in Spans
    BY DEF Base, Caches
  <1>3. ASSUME NEW j \in ListNo  PROVE HeadOf(t, j) \notin Others(S, C, t)
    <2>1. \A u \in Thread \ {t}, i \in ListNo : HeadOf(t, j) # HeadOf(u, i)  BY CacheHead
    <2>2. HeadOf(t, j) \notin FreeLists \cup {NULL} \cup Spans  BY CacheHead
    <2>3. \A u \in Thread \ {t} : HeadOf(t, j) \notin Own(u, C[u])
      BY <1>2, <2>1, <2>2 DEF Own
    <2> QED  BY <1>1, <2>2, <2>3 DEF Others
  <1>4. ASSUME NEW e \in K[t]  PROVE e.at \notin Others(S, C, t)
    <2>1. /\ e.at \in Spans /\ e.at # NULL /\ ~OnShelf(S, e.at)
          /\ \A u \in Thread \ {t} : \A d \in K[u] : d.at # e.at
      <3>1. Apart(h, K, S, t, e)  BY HeldOne
      <3> QED  BY <3>1 DEF Apart
    <2>2. ASSUME NEW u \in Thread \ {t}  PROVE e.at \notin Own(u, C[u])
      <3>1. \A i \in ListNo : e.at # HeadOf(u, i)  BY <2>1, CacheHead
      <3>2. ASSUME NEW i \in ListNo, e.at \in C[u][i]  PROVE FALSE
        <4>1. One(e.at) \in K[u]  BY <3>2 DEF Base, ListsGood
        <4>2. One(e.at).at = e.at  BY DEF One
        <4> QED  BY <2>1, <4>1, <4>2
      <3> QED  BY <3>1, <3>2 DEF Own
    <2> QED  BY <1>1, <2>1, <2>2 DEF Others
  <1> QED  BY <1>3, <1>4 DEF Mine

\* What is no business of a thread are nodes of the heap.
LEMMA OthersNodes ==
  ASSUME NEW X, NEW h, NEW K, NEW C, NEW S, NEW L, NEW t \in Thread, NEW c, Base(X, h, K, C, S, L, t, c)
  PROVE  Others(S, C, t) \subseteq Node(Lowest)
  <1>1. /\ \A a \in Area, i \in ListIndex : FreeList(a, i) \in Node(Lowest)
        /\ NULL \in Node(Lowest) /\ Spans \subseteq Node(Lowest)
    BY LowestNodes, NodesIn
  <1>2. ASSUME NEW u \in Thread  PROVE Own(u, C[u]) \subseteq Node(Lowest)
    <2>1. \A j \in ListNo : HeadOf(u, j) \in Node(Lowest)  BY CacheHead
    <2>2. \A j \in ListNo : C[u][j] \subseteq Spans  BY DEF Base, Caches
    <2> QED  BY <1>1, <2>1, <2>2 DEF Own
  <1> QED  BY <1>1, <1>2 DEF Others

\* So what a thread does to its nodes is local to it.
LEMMA MineLocal ==
  ASSUME NEW X, NEW h, NEW K, NEW C, NEW S, NEW L, NEW t \in Thread, NEW c, Base(X, h, K, C, S, L, t, c),
         NEW g, Relinked(h, g, Mine(t, K[t]))
  PROVE  Local(h, g, t, K[t], S, C)
  <1>1. \A n \in Others(S, C, t) : g.next[n] = h.next[n] /\ g.prev[n] = h.prev[n]
    BY MineApart, OthersNodes DEF Relinked
  <1> QED  BY <1>1 DEF Relinked, SameButLinks, Local

\* A local change that leaves the thread's own lists in order leaves all.
LEMMA LocalBase ==
  ASSUME NEW X, NEW h, NEW K, NEW C, NEW S, NEW L, NEW t \in Thread, NEW c, Base(X, h, K, C, S, L, t, c),
         NEW g, Local(h, g, t, K[t], S, C), NEW d \in Caches, ListsGood(g, t, K[t], d)
  PROVE  Base(X, g, K, C, S, L, t, d)
  <1>1. /\ Pool(Lowest, h, S, Held(K), L) /\ K[t] \in SUBSET Held(K)
        /\ K \in [Thread -> SUBSET Piece]
        /\ \A u, v \in Thread : u # v => K[u] \cap K[v] = {}
    BY DEF Base, Held
  <1>2. Pool(Lowest, g, S, Held(K), L)  BY <1>1, LocalPool
  <1>3. ASSUME NEW u \in Thread \ {t}  PROVE ListsGood(g, u, K[u], C[u])
    <2>1. Spared(h, g, u, K[u], C[u])  BY <1>1, LocalSpared
    <2>2. ListsGood(h, u, K[u], C[u])  BY DEF Base
    <2> QED  BY <2>1, <2>2, SparedLists
  <1>4. InReach(X, g, L)
    <2>1. InReach(X, h, L) /\ g.free_start = h.free_start  BY DEF Base, Local
    <2> QED  BY <2>1 DEF InReach
  <1> QED  BY <1>2, <1>3, <1>4 DEF Base

\* A span more, or less, on list j of a cache.
With(c, j, s) == [c EXCEPT ![j] = @ \cup {s}]
Less(c, j, s) == [c EXCEPT ![j] = @ \ {s}]

\* The nodes of the lists of a thread are its own, and each list's apart.
LEMMA ListNodes ==
  ASSUME NEW X, NEW h, NEW K, NEW C, NEW S, NEW L, NEW t \in Thread, NEW c, Base(X, h, K, C, S, L, t, c),
         NEW j \in ListNo
  PROVE  /\ c[j] \cup {HeadOf(t, j)} \subseteq Mine(t, K[t])
         /\ c[j] \subseteq Spans /\ c[j] \subseteq Node(Lowest) /\ HeadOf(t, j) \in Node(Lowest)
         /\ HeadOf(t, j) \notin Spans
         /\ \A i \in ListNo : i # j => (c[j] \cup {HeadOf(t, j)}) \cap (c[i] \cup {HeadOf(t, i)}) = {}
  <1>1. ListsGood(h, t, K[t], c) /\ c \in Caches  BY DEF Base
  <1>2. c[j] \subseteq Spans /\ Spans \subseteq Node(Lowest)
    BY <1>1, LowestNodes, NodesIn DEF Caches
  <1>3. HeadOf(t, j) \in Node(Lowest) /\ HeadOf(t, j) \notin Spans  BY CacheHead
  <1>4. c[j] \cup {HeadOf(t, j)} \subseteq Mine(t, K[t])
    <2>1. \A s \in c[j] : One(s) \in K[t] /\ One(s).at = s  BY <1>1 DEF ListsGood, One
    <2> QED  BY <2>1 DEF Mine
  <1>5. ASSUME NEW i \in ListNo, i # j
        PROVE  (c[j] \cup {HeadOf(t, j)}) \cap (c[i] \cup {HeadOf(t, i)}) = {}
    <2>1. c[i] \cap c[j] = {}  BY <1>1, <1>5 DEF ListsGood
    <2>2. c[i] \subseteq Spans  BY <1>1 DEF Caches
    <2>3. HeadOf(t, i) \notin Spans /\ HeadOf(t, i) # HeadOf(t, j)  BY <1>5, CacheHead
    <2> QED  BY <1>2, <1>3, <2>1, <2>2, <2>3
  <1> QED  BY <1>2, <1>3, <1>4, <1>5

\* Span s may be on list j of a cache whose other lists are as in c.
Fitting(h, k, c, j, s) ==
  /\ One(s) \in k /\ \A i \in ListNo : i # j => s \notin c[i]
  /\ \A i \in 0..PageUnits - 1 : j \in {BackNo(i), NotNo(i)} => h.hdr[s].category = i

\* The nodes of N are none of the other lists.
Beside(N, t, c, j) == \A i \in ListNo : i # j => N \cap (c[i] \cup {HeadOf(t, i)}) = {}

\* A list that changes on its own leaves the others of the thread in order.
LEMMA OneListChanged ==
  ASSUME NEW X, NEW h, NEW K, NEW C, NEW S, NEW L, NEW t \in Thread, NEW c, Base(X, h, K, C, S, L, t, c),
         NEW j \in ListNo, NEW d \in Caches, \A i \in ListNo : i # j => d[i] = c[i],
         NEW N \in SUBSET Mine(t, K[t]), NEW g, Relinked(h, g, N),
         Beside(N, t, c, j), Ring(g, HeadOf(t, j), d[j]),
         \A s \in d[j] : Fitting(h, K[t], c, j, s)
  PROVE  /\ Base(X, g, K, C, S, L, t, d) /\ Local(h, g, t, K[t], S, C)
         /\ SameButLinks(h, g)
  <1>1. ListsGood(h, t, K[t], c)  BY DEF Base
  <1>2. \A i \in ListNo : Ring(g, HeadOf(t, i), d[i])
    <2>1. ASSUME NEW i \in ListNo, i # j  PROVE Ring(g, HeadOf(t, i), c[i])
      <3>1. Ring(h, HeadOf(t, i), c[i])  BY <1>1 DEF ListsGood
      <3>2. c[i] \cup {HeadOf(t, i)} \subseteq Node(Lowest)  BY ListNodes
      <3>3. \A n \in c[i] \cup {HeadOf(t, i)} : g.next[n] = h.next[n] /\ g.prev[n] = h.prev[n]
        BY <2>1, <3>2 DEF Relinked, Beside
      <3> QED  BY <3>1, <3>3, RingFrame
    <2> QED  BY <2>1
  <1>3. \A i, m \in ListNo : i # m => d[i] \cap d[m] = {}
    <2>1. \A i, m \in ListNo : i # m => c[i] \cap c[m] = {}  BY <1>1 DEF ListsGood
    <2>2. \A i \in ListNo : i # j => d[j] \cap c[i] = {}  BY DEF Fitting
    <2> QED  BY <2>1, <2>2
  <1>4. \A i \in ListNo : \A s \in d[i] : One(s) \in K[t]  BY <1>1 DEF ListsGood, Fitting
  <1>5. ASSUME NEW i \in 0..PageUnits - 1, NEW s \in d[BackNo(i)] \cup d[NotNo(i)]
        PROVE  g.hdr[s].category = i
    <2>1. BackNo(i) \in ListNo /\ NotNo(i) \in ListNo  BY ListNumbers
    <2>2. h.hdr[s].category = i
      <3>1. ASSUME NEW m \in {BackNo(i), NotNo(i)}, s \in d[m]  PROVE h.hdr[s].category = i
        <4>1. CASE m = j  BY <3>1, <4>1 DEF Fitting
        <4>2. CASE m # j
          <5>1. s \in c[m]  BY <2>1, <3>1, <4>2
          <5> QED  BY <1>1, <5>1 DEF ListsGood
        <4> QED  BY <4>1, <4>2
      <3> QED  BY <3>1
    <2> QED  BY <2>2 DEF Relinked, SameButLinks
  <1>6. ListsGood(g, t, K[t], d)  BY <1>2, <1>3, <1>4, <1>5 DEF ListsGood
  <1>7. Local(h, g, t, K[t], S, C)
    <2>1. Relinked(h, g, Mine(t, K[t]))  BY DEF Relinked
    <2> QED  BY <2>1, MineLocal
  <1>8. Base(X, g, K, C, S, L, t, d)  BY <1>6, <1>7, LocalBase
  <1> QED  BY <1>7, <1>8 DEF Relinked

\* list_add_tail of a span on no list to a list of the cache.
LEMMA PutStep ==
  ASSUME NEW X, NEW h, NEW K, NEW C, NEW S, NEW L, NEW t \in Thread, NEW c, Base(X, h, K, C, S, L, t, c),
         NEW j \in ListNo, NEW s, One(s) \in K[t], ~OnCache(c, s),
         \A i \in 0..PageUnits - 1 : j \in {BackNo(i), NotNo(i)} => h.hdr[s].category = i,
         NEW g, g = list_add_tail(h, s, HeadOf(t, j))
  PROVE  /\ Base(X, g, K, C, S, L, t, With(c, j, s)) /\ Local(h, g, t, K[t], S, C)
         /\ SameButLinks(h, g)
  <1> DEFINE head == HeadOf(t, j)
             N    == c[j] \cup {head, s}
             d    == With(c, j, s)
  <1>1. /\ ListsGood(h, t, K[t], c) /\ c \in Caches /\ h \in HeapType(Lowest)
        /\ Ring(h, head, c[j])
    BY DEF Base, Pool, ListsGood
  <1>2. s \in Spans /\ s \in Node(Lowest) /\ s \in Mine(t, K[t])
    <2>1. One(s).at = s  BY DEF One
    <2>2. Apart(h, K, S, t, One(s))  BY HeldOne
    <2>3. s \in Mine(t, K[t])  BY <2>1 DEF Mine
    <2> QED  BY <2>1, <2>2, <2>3 DEF Apart
  <1>3. /\ c[j] \cup {head} \subseteq Mine(t, K[t]) /\ c[j] \in SUBSET Node(Lowest)
        /\ head \in Node(Lowest) /\ head \notin Spans
        /\ \A i \in ListNo : i # j => (c[j] \cup {head}) \cap (c[i] \cup {HeadOf(t, i)}) = {}
    BY ZenonT(60), ListNodes
  <1>4. \A i \in ListNo : s \notin c[i] /\ s # HeadOf(t, i)
    <2>1. \A i \in ListNo : HeadOf(t, i) \notin Spans  BY CacheHead
    <2> QED  BY <1>2, <2>1 DEF OnCache
  <1>5. d \in Caches /\ d[j] = c[j] \cup {s} /\ \A i \in ListNo : i # j => d[i] = c[i]
    BY <1>1, <1>2 DEF With, Caches
  <1> HIDE DEF d
  <1>6. Ring(g, head, d[j])  BY <1>1, <1>2, <1>3, <1>4, <1>5, RingAddTail
  <1>7. h.prev[head] \in c[j] \cup {head}  BY <1>1 DEF Ring
  <1>8. Relinked(h, g, N)
    <2> DEFINE p == h.prev[head]
    <2>1. g = Link(h, s, p, head)  BY DEF list_add_tail
    <2>2. p \in Node(Lowest) /\ p \in N  BY <1>3, <1>7
    <2> HIDE DEF p, head
    <2>3. /\ g \in HeapType(Lowest) /\ SameButLinks(h, g)
          /\ \A n \in Node(Lowest) :
               /\ g.next[n] = IF n = p THEN s ELSE IF n = s THEN head ELSE h.next[n]
               /\ g.prev[n] = IF n = s THEN p ELSE IF n = head THEN s ELSE h.prev[n]
      <3>1. h \in HeapType(Lowest) /\ s \in Node(Lowest) /\ head \in Node(Lowest)
        BY <1>1, <1>2, <1>3
      <3>2. LET k == Link(h, s, p, head)
            IN  /\ k \in HeapType(Lowest) /\ SameButLinks(h, k)
                /\ \A n \in Node(Lowest) :
                     /\ k.next[n] = IF n = p THEN s ELSE IF n = s THEN head ELSE h.next[n]
                     /\ k.prev[n] = IF n = s THEN p ELSE IF n = head THEN s ELSE h.prev[n]
        BY <2>2, <3>1, LinkEffect
      <3> QED  BY <2>1, <3>2
    <2> QED  BY <2>2, <2>3 DEF Relinked
  <1>9. N \in SUBSET Mine(t, K[t])  BY <1>2, <1>3
  <1>10. Beside(N, t, c, j)  BY <1>3, <1>4 DEF Beside
  <1>11. \A x \in d[j] : Fitting(h, K[t], c, j, x)
    <2>1. \A x \in c[j] : Fitting(h, K[t], c, j, x)  BY <1>1, <1>3 DEF ListsGood, Fitting
    <2>2. Fitting(h, K[t], c, j, s)  BY <1>4 DEF Fitting
    <2> QED  BY <1>5, <2>1, <2>2
  <1> HIDE DEF N
  <1> QED  BY <1>5, <1>6, <1>8, <1>9, <1>10, <1>11, OneListChanged DEF d

\* list_del of a span on a list of the cache.
LEMMA TakeStep ==
  ASSUME NEW X, NEW h, NEW K, NEW C, NEW S, NEW L, NEW t \in Thread, NEW c, Base(X, h, K, C, S, L, t, c),
         NEW j \in ListNo, NEW s \in c[j], NEW g, g = list_del(h, s)
  PROVE  /\ Base(X, g, K, C, S, L, t, Less(c, j, s)) /\ Local(h, g, t, K[t], S, C)
         /\ SameButLinks(h, g)
  <1> DEFINE head == HeadOf(t, j)
             N    == c[j] \cup {head}
             d    == Less(c, j, s)
  <1>1. /\ ListsGood(h, t, K[t], c) /\ c \in Caches /\ h \in HeapType(Lowest)
        /\ Ring(h, head, c[j])
    BY DEF Base, Pool, ListsGood
  <1>2. /\ N \in SUBSET Mine(t, K[t]) /\ c[j] \in SUBSET Node(Lowest) /\ head \in Node(Lowest)
        /\ Beside(N, t, c, j)
    BY ZenonT(60), ListNodes DEF Beside
  <1>3. d \in Caches /\ d[j] = c[j] \ {s} /\ \A i \in ListNo : i # j => d[i] = c[i]
    BY <1>1 DEF Less, Caches
  <1> HIDE DEF d
  <1>4. Ring(g, head, d[j])  BY <1>1, <1>2, <1>3, RingDel
  <1>5. h.prev[s] \in N /\ h.next[s] \in N  BY <1>1 DEF Ring
  <1>6. Relinked(h, g, N)
    <2>1. s \in Node(Lowest)  BY <1>2
    <2>2. /\ g \in HeapType(Lowest) /\ SameButLinks(h, g)
          /\ \A n \in Node(Lowest) :
               /\ g.next[n] = IF n = h.prev[s] THEN h.next[s] ELSE h.next[n]
               /\ g.prev[n] = IF n = h.next[s] THEN h.prev[s] ELSE h.prev[n]
      BY <1>1, <2>1, DelEffect
    <2> QED  BY <1>5, <2>2 DEF Relinked
  <1>7. \A x \in d[j] : Fitting(h, K[t], c, j, x)
    <2>1. \A x \in c[j], i \in ListNo : i # j => x \notin c[i]  BY <1>1 DEF ListsGood
    <2>2. \A x \in d[j] : x \in c[j]  BY <1>3
    <2> QED  BY <1>1, <2>1, <2>2 DEF ListsGood, Fitting
  <1> HIDE DEF N
  <1> QED  BY <1>2, <1>3, <1>4, <1>6, <1>7, OneListChanged DEF d

\* The nodes of the lists of a thread, its caches the way Base has them.
LEMMA OwnNodes ==
  ASSUME NEW X, NEW h, NEW K, NEW C, NEW S, NEW L, NEW t \in Thread, NEW c, Base(X, h, K, C, S, L, t, c)
  PROVE  /\ Own(t, c) \subseteq Node(Lowest)
         /\ \A s \in Spans : ~OnCache(c, s) => s \notin Own(t, c)
         /\ \A n \in Own(t, c) : h.next[n] \in Own(t, c) /\ h.prev[n] \in Own(t, c)
  <1>1. \A j \in ListNo : /\ c[j] \subseteq Node(Lowest) /\ HeadOf(t, j) \in Node(Lowest)
                          /\ HeadOf(t, j) \notin Spans
    BY ListNodes
  <1>2. Own(t, c) \subseteq Node(Lowest)  BY <1>1 DEF Own
  <1>3. \A s \in Spans : ~OnCache(c, s) => s \notin Own(t, c)  BY <1>1 DEF Own, OnCache
  <1>4. ASSUME NEW n \in Own(t, c)  PROVE h.next[n] \in Own(t, c) /\ h.prev[n] \in Own(t, c)
    <2>1. PICK j \in ListNo : n \in c[j] \cup {HeadOf(t, j)}  BY DEF Own
    <2>2. Ring(h, HeadOf(t, j), c[j])  BY DEF Base, ListsGood
    <2>3. /\ h.next[n] \in c[j] \cup {HeadOf(t, j)}
          /\ h.prev[n] \in c[j] \cup {HeadOf(t, j)}
      BY <2>1, <2>2 DEF Ring
    <2>4. c[j] \cup {HeadOf(t, j)} \subseteq Own(t, c)  BY DEF Own
    <2> QED  BY <2>3, <2>4
  <1> QED  BY <1>2, <1>3, <1>4

\* Following the links of a node that is no business of thread t leads to such.
LEMMA OthersClosed ==
  ASSUME NEW X, NEW h, NEW K, NEW C, NEW S, NEW L, NEW t \in Thread, NEW c, Base(X, h, K, C, S, L, t, c),
         NEW n \in Others(S, C, t)
  PROVE  h.next[n] \in Others(S, C, t) /\ h.prev[n] \in Others(S, C, t)
  <1>1. Shelved(h, S) /\ S \in Shelves  BY DEF Base, Pool
  <1>2. ASSUME NEW a \in Area, NEW i \in ListIndex, n \in S[a][i] \cup {FreeList(a, i)}
        PROVE  h.next[n] \in Others(S, C, t) /\ h.prev[n] \in Others(S, C, t)
    <2>1. Ring(h, FreeList(a, i), S[a][i])  BY <1>1 DEF Shelved
    <2>2. /\ h.next[n] \in S[a][i] \cup {FreeList(a, i)}
          /\ h.prev[n] \in S[a][i] \cup {FreeList(a, i)}
      BY <1>2, <2>1 DEF Ring
    <2>3. \A s \in S[a][i] : s \in Spans /\ OnShelf(S, s)  BY <1>1 DEF Shelves, OnShelf
    <2>4. S[a][i] \cup {FreeList(a, i)} \subseteq Others(S, C, t)  BY <2>3 DEF Others
    <2> QED  BY <2>2, <2>4
  <1>3. ASSUME NEW u \in Thread \ {t}, n \in Own(u, C[u])
        PROVE  h.next[n] \in Others(S, C, t) /\ h.prev[n] \in Others(S, C, t)
    <2>1. PICK j \in ListNo : n \in C[u][j] \cup {HeadOf(u, j)}  BY <1>3 DEF Own
    <2>2. Ring(h, HeadOf(u, j), C[u][j])  BY DEF Base, ListsGood
    <2>3. /\ h.next[n] \in C[u][j] \cup {HeadOf(u, j)}
          /\ h.prev[n] \in C[u][j] \cup {HeadOf(u, j)}
      BY <2>1, <2>2 DEF Ring
    <2>4. C[u][j] \cup {HeadOf(u, j)} \subseteq Own(u, C[u])  BY DEF Own
    <2>5. Own(u, C[u]) \subseteq Others(S, C, t)  BY DEF Others
    <2> QED  BY <2>3, <2>4, <2>5
  <1>4. CASE n = NULL
    <2>1. h.next[n] = NULL /\ h.prev[n] = NULL  BY <1>1, <1>4 DEF Shelved
    <2> QED  BY <2>1 DEF Others
  <1>5. CASE n \in {FreeList(a, i) : a \in Area, i \in ListIndex}  BY <1>2, <1>5
  <1>6. CASE n \in {s \in Spans : OnShelf(S, s)}  BY <1>2, <1>6 DEF OnShelf
  <1>7. CASE n \in UNION {Own(u, C[u]) : u \in Thread \ {t}}  BY <1>3, <1>7
  <1> QED  BY <1>4, <1>5, <1>6, <1>7 DEF Others

\* A list_del of an entry that is on no list changes no links but those of
\* nodes that lead to the entry, unless it strays.
LEMMA DelOff ==
  ASSUME NEW h \in HeapType(Lowest), NEW s \in Node(Lowest), ~Strays(h, s),
         NEW n \in Node(Lowest), h.next[n] # s, h.prev[n] # s
  PROVE  list_del(h, s).next[n] = h.next[n] /\ list_del(h, s).prev[n] = h.prev[n]
  <1> DEFINE g == list_del(h, s)
  <1>1. /\ g.next[n] = IF n = h.prev[s] THEN h.next[s] ELSE h.next[n]
        /\ g.prev[n] = IF n = h.next[s] THEN h.prev[s] ELSE h.prev[n]
    BY DelEffect
  <1>2. CASE Linked(h, s)  BY <1>1, <1>2 DEF Linked
  <1>3. CASE ~Linked(h, s)
    <2>1. h.next[h.prev[s]] = h.next[s] /\ h.prev[h.next[s]] = h.prev[s]
      BY <1>3 DEF Strays
    <2> QED  BY <1>1, <2>1
  <1> QED  BY <1>2, <1>3

\* list_del of a span that is on none of the lists and whose links are not
\* stale changes nothing that a list of anybody goes through.
LEMMA OffStep ==
  ASSUME NEW X, NEW h, NEW K, NEW C, NEW S, NEW L, NEW t \in Thread, NEW c, Base(X, h, K, C, S, L, t, c),
         NEW e \in K[t], NEW s, s = e.at, ~OnCache(c, s), ~Strays(h, s),
         NEW g, g = list_del(h, s)
  PROVE  /\ Base(X, g, K, C, S, L, t, c) /\ Local(h, g, t, K[t], S, C)
         /\ SameButLinks(h, g)
  <1>1. h \in HeapType(Lowest) /\ ListsGood(h, t, K[t], c) /\ c \in Caches  BY DEF Base, Pool
  <1>2. Apart(h, K, S, t, e)  BY HeldOne
  <1>3. s \in Node(Lowest) /\ s \in Spans  BY <1>2 DEF Apart
  <1>4. g \in HeapType(Lowest) /\ SameButLinks(h, g)  BY <1>1, <1>3, DelEffect
  <1>5. ASSUME NEW N \in SUBSET Node(Lowest), s \notin N,
               \A n \in N : h.next[n] \in N /\ h.prev[n] \in N
        PROVE  \A n \in N : g.next[n] = h.next[n] /\ g.prev[n] = h.prev[n]
    <2>1. ASSUME NEW n \in N  PROVE g.next[n] = h.next[n] /\ g.prev[n] = h.prev[n]
      <3>1. n \in Node(Lowest) /\ h.next[n] # s /\ h.prev[n] # s  BY <1>5, <2>1
      <3> QED  BY <1>1, <1>3, <3>1, DelOff
    <2> QED  BY <2>1
  <1>6. \A n \in Others(S, C, t) : g.next[n] = h.next[n] /\ g.prev[n] = h.prev[n]
    <2>1. s \notin Others(S, C, t)
      <3>1. s \in Mine(t, K[t])  BY DEF Mine
      <3> QED  BY <3>1, MineApart
    <2>2. Others(S, C, t) \subseteq Node(Lowest)  BY OthersNodes
    <2>3. \A n \in Others(S, C, t) :
            h.next[n] \in Others(S, C, t) /\ h.prev[n] \in Others(S, C, t)
      BY OthersClosed
    <2> QED  BY <1>5, <2>1, <2>2, <2>3
  <1>7. \A n \in Own(t, c) : g.next[n] = h.next[n] /\ g.prev[n] = h.prev[n]
    <2>1. /\ Own(t, c) \subseteq Node(Lowest) /\ s \notin Own(t, c)
          /\ \A n \in Own(t, c) : h.next[n] \in Own(t, c) /\ h.prev[n] \in Own(t, c)
      BY <1>3, OwnNodes
    <2> QED  BY <1>5, <2>1
  <1>8. ListsGood(g, t, K[t], c)
    <2>1. g.hdr = h.hdr  BY <1>4 DEF SameButLinks
    <2> QED  BY <1>1, <1>7, <2>1, ListsFrame
  <1>9. Local(h, g, t, K[t], S, C)  BY <1>4, <1>6 DEF SameButLinks, Local
  <1> QED  BY <1>1, <1>4, <1>8, <1>9, LocalBase

\* From h to g, the header of s has become v and nothing else has changed.
Headed(h, g, s, v) ==
  /\ g.next = h.next /\ g.prev = h.prev /\ g.entry = h.entry
  /\ g.hdr[s] = v /\ \A x \in Spans : x # s => g.hdr[x] = h.hdr[x]

\* The header of s is made v, which keeps the category of a listed span.
Sets(h, g, s, v)  == g = [h EXCEPT !.hdr[s] = v]
Keeps(h, c, s, v) == OnCache(c, s) => v.category = h.hdr[s].category

\* A new header for a span of the thread, of the same category if it is listed.
LEMMA HdrStep ==
  ASSUME NEW X, NEW h, NEW K, NEW C, NEW S, NEW L, NEW t \in Thread, NEW c, Base(X, h, K, C, S, L, t, c),
         NEW s, One(s) \in K[t], NEW v, v \in HeaderType, Keeps(h, c, s, v),
         NEW g, Sets(h, g, s, v)
  PROVE  /\ Base(X, g, K, C, S, L, t, c) /\ Local(h, g, t, K[t], S, C)
         /\ Headed(h, g, s, v)
  <1>1. PICK e \in K[t] : e.at = s  BY DEF One
  <1>2. h \in HeapType(Lowest) /\ ListsGood(h, t, K[t], c) /\ c \in Caches  BY DEF Base, Pool
  <1>3. s \in Spans
    <2>1. Apart(h, K, S, t, e)  BY HeldOne
    <2> QED  BY <1>1, <2>1 DEF Apart
  <1>4. /\ g.hdr = [h.hdr EXCEPT ![s] = v]
        /\ g.next = h.next /\ g.prev = h.prev /\ g.entry = h.entry
        /\ g.span_map = h.span_map /\ g.free_start = h.free_start /\ g.segments = h.segments
        /\ g.max_wc = h.max_wc /\ g.max_wear_page_index = h.max_wear_page_index
    BY <1>2 DEF HeapType, Sets
  <1>5. g \in HeapType(Lowest)
    <2>1. [h.hdr EXCEPT ![s] = v] \in [Spans -> HeaderType]  BY <1>2 DEF HeapType
    <2> QED  BY <1>2, <2>1 DEF HeapType, Sets
  <1>6. g.hdr[s] = v /\ \A x \in Spans : x # s => g.hdr[x] = h.hdr[x]
    <2>1. h.hdr \in [Spans -> HeaderType]  BY <1>2 DEF HeapType
    <2> QED  BY <1>3, <1>4, <2>1
  <1>7. Local(h, g, t, K[t], S, C)
    <2>1. \A x \in Spans : (\A d \in K[t] : d.at # x) => g.hdr[x] = h.hdr[x]
      BY <1>1, <1>6
    <2> QED  BY <1>4, <1>5, <2>1 DEF Local
  <1>8. ListsGood(g, t, K[t], c)
    <2>1. \A x : OnCache(c, x) => x \in Spans  BY <1>2 DEF OnCache, Caches
    <2>2. \A x : OnCache(c, x) => g.hdr[x].category = h.hdr[x].category
      BY <1>6, <2>1 DEF Keeps
    <2> QED  BY <1>2, <1>4, <2>2, ListsFrame
  <1>9. Base(X, g, K, C, S, L, t, c)  BY <1>2, <1>7, <1>8, LocalBase
  <1> QED  BY <1>4, <1>6, <1>7, <1>9 DEF Headed

\* The map leads to s besides.
Renewed(h, g, s, v) ==
  /\ g.hdr[s] = v /\ \A x \in Spans : x # s => g.hdr[x] = h.hdr[x]
  /\ g.entry[s - 1] = s /\ \A x \in MapEntries : g.entry[x] = x + 1 \/ g.entry[x] = h.entry[x]

\* span_init of a span of the thread that is on no list.
LEMMA InitStep ==
  ASSUME NEW X, NEW h, NEW K, NEW C, NEW S, NEW L, NEW t \in Thread, NEW c, Base(X, h, K, C, S, L, t, c),
         NEW e \in K[t], ~OnCache(c, e.at),
         NEW index \in 0..LARGE, NEW category \in 0..LARGE, category = LARGE => index < LARGE,
         NEW g, g = span_init(h, e.at, index, category)
  PROVE  /\ Base(X, g, K, C, S, L, t, c) /\ Local(h, g, t, K[t], S, C)
         /\ Renewed(h, g, e.at, Initialised(h.hdr[e.at], index, category))
  <1> DEFINE s == e.at
             v == Initialised(h.hdr[s], index, category)
  <1>1. h \in HeapType(Lowest) /\ ListsGood(h, t, K[t], c) /\ c \in Caches  BY DEF Base, Pool
  <1>2. e.at \in Spans /\ s \in Node(Lowest) /\ e \in Held(K)
    <2>1. Apart(h, K, S, t, e)  BY HeldOne
    <2> QED  BY <2>1 DEF Apart
  <1>3. Inited(Lowest, h, g, s, v) /\ s - 1 \in MapEntries
    <2>1. Pool(Lowest, h, S, Held(K), L)  BY DEF Base
    <2> QED  BY <1>2, <2>1, LowestNodes, InitedPool
  <1> HIDE DEF s, v
  <1>4. g.hdr[s] = v /\ \A x \in Spans : x # s => g.hdr[x] = h.hdr[x]
    <2>1. h.hdr \in [Spans -> HeaderType]  BY <1>1 DEF HeapType
    <2> QED  BY <1>2, <1>3, <2>1 DEF Inited, s
  <1>5. g.entry[s - 1] = s /\ \A x \in MapEntries : g.entry[x] = x + 1 \/ g.entry[x] = h.entry[x]
    <2>1. h.entry \in [MapEntries -> Spans \cup {NULL}]  BY <1>1 DEF HeapType
    <2>2. g.entry = [h.entry EXCEPT ![s - 1] = s]  BY <1>3 DEF Inited
    <2>3. \A x \in MapEntries : x = s - 1 => x + 1 = s  BY <1>2, Sizes DEF s, Spans, MapEntries
    <2> QED  BY <1>3, <2>1, <2>2, <2>3
  <1>6. \A n \in Node(Lowest) : n # s => g.next[n] = h.next[n] /\ g.prev[n] = h.prev[n]
    <2>1. h.next \in [Node(Lowest) -> Node(Lowest)] /\ h.prev \in [Node(Lowest) -> Node(Lowest)]
      BY <1>1 DEF HeapType
    <2> QED  BY <1>3, <2>1 DEF Inited
  <1>7. Local(h, g, t, K[t], S, C)
    <2>1. \A x \in Spans : (\A d \in K[t] : d.at # x) => g.hdr[x] = h.hdr[x]  BY <1>4 DEF s
    <2>2. \A n \in Others(S, C, t) : g.next[n] = h.next[n] /\ g.prev[n] = h.prev[n]
      <3>1. s \notin Others(S, C, t)
        <4>1. s \in Mine(t, K[t])  BY DEF Mine, s
        <4> QED  BY <4>1, MineApart
      <3> QED  BY <1>6, <3>1, OthersNodes
    <2> QED  BY <1>3, <1>5, <2>1, <2>2 DEF Local, Inited
  <1>8. ListsGood(g, t, K[t], c)
    <2>1. \A x : OnCache(c, x) => x \in Spans /\ x # s  BY <1>1 DEF OnCache, Caches, s
    <2>2. \A x : OnCache(c, x) => g.hdr[x].category = h.hdr[x].category  BY <1>4, <2>1
    <2>3. s \notin Own(t, c) /\ Own(t, c) \subseteq Node(Lowest)  BY <1>2, OwnNodes DEF s
    <2>4. \A n \in Own(t, c) : g.next[n] = h.next[n] /\ g.prev[n] = h.prev[n]
      BY <1>6, <2>3
    <2> QED  BY <1>1, <2>2, <2>4, ListsFrame
  <1>9. Base(X, g, K, C, S, L, t, c)  BY <1>1, <1>7, <1>8, LocalBase
  <1> QED  BY <1>4, <1>5, <1>7, <1>9 DEF s, v, Renewed

-----------------------------------------------------------------------------
\* From h to g, no header but that of s has changed, and the map has forgotten
\* nothing.
Alters(h, g, s) ==
  /\ \A x \in Spans : x # s => g.hdr[x] = h.hdr[x]
  /\ \A x \in MapEntries : g.entry[x] = x + 1 \/ g.entry[x] = h.entry[x]

\* A block is where it should be.
BlockGood(h, k, use, b) == IF b.pos = 0 THEN LargeGood(h, k, b) ELSE SmallGood(h, k, use, b)

\* Beyond span s, a step of a thread brings no span into play: the cache, the
\* foreground spans, the call and the blocks were c, f, l and use.
Beyond(c, f, l, use, c2, f2, l2, use2, s) ==
  /\ \A b \in use2 : b.span # s => b \in use
  /\ \A x : x # s => Mates(use2, x) = Mates(use, x)
  /\ \A x : x # s => /\ Reached(c2, f2, l2, x) => Reached(c, f, l, x)
                     /\ OnCache(c2, x) => OnCache(c, x)
                     /\ x \in c2[0] => x \in c[0]
  /\ \A i \in Class : f2[i] # s => f2[i] \in {f[i], NULL}

\* Span s is in order after the step.
Settled(g, k, c2, f2, l2, use2, s) ==
  /\ \A i \in Class : f2[i] = s => One(s) \in k /\ ~OnCache(c2, s) /\ g.hdr[s].category = i
  /\ Reached(c2, f2, l2, s) => Serves(g, use2, s) /\ g.hdr[s].bitmap # {}
  /\ \A b \in use2 : b.span = s => BlockGood(g, k, use2, b)
  /\ s \in c2[0] => Mates(use2, s) = {}

\* What the header of a span says of its blocks does not change with others.
LEMMA ServesFrame ==
  ASSUME NEW h, NEW g, NEW x \in Spans, NEW s, x # s, Alters(h, g, s),
         NEW use, NEW use2, Mates(use2, x) = Mates(use, x), Serves(h, use, x)
  PROVE  Serves(g, use2, x)
  <1>1. x - 1 \in MapEntries /\ (x - 1) + 1 = x  BY Sizes DEF Spans, MapEntries
  <1>2. g.entry[x - 1] = (x - 1) + 1 \/ g.entry[x - 1] = h.entry[x - 1]
    BY <1>1 DEF Alters
  <1>3. g.hdr[x] = h.hdr[x]  BY DEF Alters
  <1>4. h.entry[x - 1] = x  BY DEF Serves
  <1>5. g.entry[x - 1] = x  BY <1>1, <1>2, <1>4
  <1> QED  BY <1>3, <1>5 DEF Serves

\* A step that is about span s needs a look at s and the call only.
LEMMA ThreadElse ==
  ASSUME NEW h, NEW g, NEW t \in Thread, NEW k \in SUBSET Piece, NEW c, NEW f, NEW l, NEW bl,
         ThreadGood(h, t, k, c, f, l, bl),
         NEW s, Alters(h, g, s), NEW c2, NEW f2, NEW l2, NEW bl2,
         Beyond(c, f, l, Blocks(l, bl), c2, f2, l2, Blocks(l2, bl2), s),
         Settled(g, k, c2, f2, l2, Blocks(l2, bl2), s),
         ListsGood(g, t, k, c2), CallGood(g, k, c2, f2, l2, bl2)
  PROVE  ThreadGood(g, t, k, c2, f2, l2, bl2)
  <1> DEFINE use  == Blocks(l, bl)
             use2 == Blocks(l2, bl2)
  <1>1. /\ ListsGood(h, t, k, c) /\ ForegroundGood(h, k, c, f) /\ ReachedGood(h, c, f, l, use)
        /\ BlocksGood(h, k, use) /\ SpareGood(c, use) /\ CallGood(h, k, c, f, l, bl)
    BY DEF ThreadGood
  <1>2. Beyond(c, f, l, use, c2, f2, l2, use2, s) /\ Settled(g, k, c2, f2, l2, use2, s)
    OBVIOUS
  <1> HIDE DEF use, use2
  <1>3. \A x : One(x) \in k => x \in Spans
    <2>1. \A x : One(x).at = x  BY DEF One
    <2> QED  BY <2>1 DEF Piece
  <1>4. \A x : Reached(c, f, l, x) => x \in Spans
    <2>1. ASSUME NEW x, Reached(c, f, l, x)  PROVE One(x) \in k
      <3>1. CASE \E i \in Class : x # NULL /\ x = f[i]  BY <1>1, <3>1 DEF ForegroundGood
      <3>2. CASE \E j \in ListNo \ {0} : x \in c[j]  BY <1>1, <3>2 DEF ListsGood
      <3>3. CASE l.pc = "clock" /\ x = l.span
        <4>1. ChosenGood(h, k, c, l)  BY <1>1, <3>3 DEF CallGood
        <4> QED  BY <3>3, <4>1 DEF ChosenGood
      <3> QED  BY <2>1, <3>1, <3>2, <3>3 DEF Reached
    <2> QED  BY <1>3, <2>1
  <1>5. ForegroundGood(g, k, c2, f2)
    <2>1. ASSUME NEW i \in Class, f2[i] # NULL, f2[i] # s
          PROVE  /\ One(f2[i]) \in k /\ ~OnCache(c2, f2[i])
                 /\ g.hdr[f2[i]].category = i
      <3>1. f2[i] = f[i]  BY <1>2, <2>1 DEF Beyond
      <3>2. One(f[i]) \in k /\ ~OnCache(c, f[i]) /\ h.hdr[f[i]].category = i
        BY <1>1, <2>1, <3>1 DEF ForegroundGood
      <3>3. ~OnCache(c2, f[i])  BY <1>2, <2>1, <3>1, <3>2 DEF Beyond
      <3>4. g.hdr[f[i]] = h.hdr[f[i]]  BY <1>3, <2>1, <3>1, <3>2 DEF Alters
      <3> QED  BY <3>1, <3>2, <3>3, <3>4
    <2>2. ASSUME NEW i \in Class, f2[i] = s
          PROVE  /\ One(f2[i]) \in k /\ ~OnCache(c2, f2[i])
                 /\ g.hdr[f2[i]].category = i
      BY <1>2, <2>2 DEF Settled
    <2> QED  BY <2>1, <2>2 DEF ForegroundGood
  <1>6. ReachedGood(g, c2, f2, l2, use2)
    <2>1. ASSUME NEW x, Reached(c2, f2, l2, x), x # s
          PROVE  Serves(g, use2, x) /\ g.hdr[x].bitmap # {}
      <3>1. Reached(c, f, l, x) /\ Mates(use2, x) = Mates(use, x)  BY <1>2, <2>1 DEF Beyond
      <3>2. x \in Spans  BY <1>4, <3>1
      <3>3. Serves(h, use, x) /\ h.hdr[x].bitmap # {}  BY <1>1, <3>1 DEF ReachedGood
      <3>4. Serves(g, use2, x)  BY <2>1, <3>1, <3>2, <3>3, ServesFrame
      <3> QED  BY <2>1, <3>2, <3>3, <3>4 DEF Alters
    <2>2. Reached(c2, f2, l2, s) => Serves(g, use2, s) /\ g.hdr[s].bitmap # {}
      BY <1>2 DEF Settled
    <2> QED  BY <2>1, <2>2 DEF ReachedGood
  <1>7. BlocksGood(g, k, use2)
    <2>1. ASSUME NEW b \in use2, b.span # s  PROVE BlockGood(g, k, use2, b)
      <3>1. b \in use /\ Mates(use2, b.span) = Mates(use, b.span)  BY <1>2, <2>1 DEF Beyond
      <3>2. CASE b.pos = 0
        <4>1. LargeGood(h, k, b)  BY <1>1, <3>1, <3>2 DEF BlocksGood
        <4>2. b.span \in Spans
          <5>1. [at |-> b.span, pages |-> b.size].at = b.span  OBVIOUS
          <5> QED  BY <4>1, <5>1 DEF LargeGood, Piece
        <4>3. b.span - 1 \in MapEntries /\ (b.span - 1) + 1 = b.span
          BY <4>2, Sizes DEF Spans, MapEntries
        <4>4. \/ g.entry[b.span - 1] = (b.span - 1) + 1
              \/ g.entry[b.span - 1] = h.entry[b.span - 1]
          BY <4>3 DEF Alters
        <4>5. h.entry[b.span - 1] = b.span  BY <4>1 DEF LargeGood
        <4>6. g.entry[b.span - 1] = b.span  BY <4>3, <4>4, <4>5
        <4>7. g.hdr[b.span] = h.hdr[b.span]  BY <2>1, <4>2 DEF Alters
        <4> QED  BY <3>2, <4>1, <4>6, <4>7 DEF LargeGood, BlockGood
      <3>3. CASE b.pos # 0
        <4>1. SmallGood(h, k, use, b)  BY <1>1, <3>1, <3>3 DEF BlocksGood
        <4>2. b.span \in Spans /\ Serves(h, use, b.span)  BY <1>3, <4>1 DEF SmallGood
        <4>3. Serves(g, use2, b.span)  BY <2>1, <3>1, <4>2, ServesFrame
        <4>4. g.hdr[b.span] = h.hdr[b.span]  BY <2>1, <4>2 DEF Alters
        <4> QED  BY <3>3, <4>1, <4>3, <4>4 DEF SmallGood, BlockGood
      <3> QED  BY <3>2, <3>3
    <2>2. \A b \in use2 : b.span = s => BlockGood(g, k, use2, b)  BY <1>2 DEF Settled
    <2>3. \A b \in use2 : BlockGood(g, k, use2, b)  BY <2>1, <2>2
    <2> QED  BY <2>3 DEF BlocksGood, BlockGood
  <1>8. SpareGood(c2, use2)
    <2>1. ASSUME NEW x \in c2[0]  PROVE Mates(use2, x) = {}
      <3>1. CASE x = s  BY <1>2, <2>1, <3>1 DEF Settled
      <3>2. CASE x # s
        <4>1. x \in c[0] /\ Mates(use2, x) = Mates(use, x)  BY <1>2, <2>1, <3>2 DEF Beyond
        <4> QED  BY <1>1, <4>1 DEF SpareGood
      <3> QED  BY <3>1, <3>2
    <2> QED  BY <2>1 DEF SpareGood
  <1> QED  BY <1>5, <1>6, <1>7, <1>8 DEF ThreadGood, use2

\* A local step that is about span s, with the lists, the header of s, its
\* blocks and the call in order, leaves the whole heap in order.
LEMMA LocalElse ==
  ASSUME NEW X, NEW h, NEW K, NEW C, NEW f, NEW l, NEW bl, HeapGood(X, h, K, C, f, l, bl),
         NEW t \in Thread, NEW S, NEW L, Base(X, h, K, C, S, L, t, C[t]),
         NEW g, Local(h, g, t, K[t], S, C), NEW c2, Base(X, g, K, C, S, L, t, c2),
         NEW s, Alters(h, g, s), s \in Spans => HeaderGood(g.hdr[s]),
         NEW f2, NEW l2, NEW bl2, Only(t, f, f2), Only(t, l, l2), Only(t, bl, bl2),
         Beyond(C[t], f[t], l[t], Blocks(l[t], bl[t]), c2, f2[t], l2[t], Blocks(l2[t], bl2[t]), s),
         Settled(g, K[t], c2, f2[t], l2[t], Blocks(l2[t], bl2[t]), s),
         CallGood(g, K[t], c2, f2[t], l2[t], bl2[t]),
         Recalls(X, K[t], c2, f2[t], l2[t], Blocks(l2[t], bl2[t]))
  PROVE  /\ HeapGood(X, g, K, [C EXCEPT ![t] = c2], f2, l2, bl2)
         /\ Untouched(h, g, t, l, bl)
  <1>1. /\ K[t] \in SUBSET Piece /\ c2 \in Caches /\ ListsGood(g, t, K[t], c2)
        /\ Pool(Lowest, h, S, Held(K), L) /\ InReach(X, h, L)
    BY DEF Base
  <1>2. ThreadGood(h, t, K[t], C[t], f[t], l[t], bl[t])  BY DEF HeapGood
  <1>3. ThreadGood(g, t, K[t], c2, f2[t], l2[t], bl2[t])  BY <1>1, <1>2, ThreadElse
  <1>4. HeadersGood(g)
    <2>1. ASSUME NEW x \in Spans  PROVE HeaderGood(g.hdr[x])
      <3>1. CASE x = s  BY <3>1
      <3>2. CASE x # s
        <4>1. HeaderGood(h.hdr[x])  BY DEF HeapGood, HeadersGood
        <4> QED  BY <3>2, <4>1 DEF Alters
      <3> QED  BY <3>1, <3>2
    <2> QED  BY <2>1 DEF HeadersGood
  <1> QED  BY <1>1, <1>3, <1>4, LocalThread

\* A step that changes no heap and is about the call only.
LEMMA SameHeap ==
  ASSUME NEW X, NEW h, NEW K, NEW C, NEW f, NEW l, NEW bl, HeapGood(X, h, K, C, f, l, bl),
         NEW t \in Thread, NEW l2, NEW bl2, Only(t, l, l2), Only(t, bl, bl2),
         ThreadGood(h, t, K[t], C[t], f[t], l2[t], bl2[t]),
         Recalls(X, K[t], C[t], f[t], l2[t], Blocks(l2[t], bl2[t]))
  PROVE  HeapGood(X, h, K, C, f, l2, bl2) /\ Untouched(h, h, t, l, bl)
  <1>1. ASSUME NEW u \in Thread
        PROVE  /\ ThreadGood(h, u, K[u], C[u], f[u], l2[u], bl2[u])
               /\ Recalls(X, K[u], C[u], f[u], l2[u], Blocks(l2[u], bl2[u]))
    <2>1. CASE u = t  BY <2>1
    <2>2. CASE u # t
      <3>1. l2[u] = l[u] /\ bl2[u] = bl[u]  BY <2>2 DEF Only
      <3> QED  BY <3>1 DEF HeapGood
    <2> QED  BY <2>1, <2>2
  <1> QED  BY <1>1 DEF HeapGood, Untouched

\* A call that moves on, with the same blocks and not to the clock.
LEMMA MovesOn ==
  ASSUME NEW h, NEW t, NEW k, NEW c, NEW f, NEW l, NEW bl, ThreadGood(h, t, k, c, f, l, bl),
         NEW l2, NEW bl2, Blocks(l2, bl2) = Blocks(l, bl), l2.pc # "clock",
         CallGood(h, k, c, f, l2, bl2)
  PROVE  ThreadGood(h, t, k, c, f, l2, bl2)
  <1>1. \A x : Reached(c, f, l2, x) => Reached(c, f, l, x)  BY DEF Reached
  <1>2. ReachedGood(h, c, f, l2, Blocks(l2, bl2))  BY <1>1 DEF ThreadGood, ReachedGood
  <1> QED  BY <1>2 DEF ThreadGood

-----------------------------------------------------------------------------
\* The program counters and the locks.
LEMMA GotoEffect ==
  ASSUME NEW t \in Thread, NEW r \in CallType, th \in [Thread -> CallType], Goto(t, r)
  PROVE  th' \in [Thread -> CallType] /\ th'[t] = r /\ Only(t, th, th')
  BY DEF Goto, Only

\* A thread without a call.
LEMMA IdleType == Idle \in CallType
  <1>1. AREA_NUM \in Nat  BY Sizes
  <1>2. "idle" \in PCs  BY DEF PCs
  <1> QED  BY <1>1, <1>2 DEF Idle, CallType

\* No step of one thread takes a lock from another.
LEMMA LocksKept ==
  ASSUME LocksGood, NEW t \in Thread, Only(t, th, th'), UNCHANGED owner,
         th'[t].pc \notin {"fill", "accounting", "giving"}
  PROVE  LocksGood'
  <1>1. Holds(th'[t], owner, t)  BY DEF Holds
  <1>2. \A u \in Thread \ {t} : th'[u] = th[u]  BY DEF Only
  <1>3. \A u \in Thread : Holds(th'[u], owner, u)
    <2>1. \A u \in Thread \ {t} : Holds(th[u], owner, u)  BY DEF LocksGood
    <2> QED  BY <1>1, <1>2, <2>1
  <1>4. owner' \in [Area -> Thread \cup {NoOne}]  BY DEF LocksGood
  <1>5. \A u \in Thread : Holds(th'[u], owner', u)  BY <1>3
  <1>6. (\A u \in Thread : Holds(th[u], owner, u))' <=> \A u \in Thread : Holds(th'[u], owner', u)
    BY DEF Holds
  <1> QED  BY <1>4, <1>5, <1>6 DEF LocksGood

\* A thread that takes a free lock has it for the section it enters.
LEMMA LocksTaken ==
  ASSUME LocksGood, NEW t \in Thread, Only(t, th, th'), NEW a \in Area, owner[a] = NoOne,
         owner' = Lock(a, t),
         th'[t].pc = "fill" => th'[t].order[th'[t].nvm_index] = a,
         th'[t].pc \in {"accounting", "giving"} => AreaOf(th'[t].span) = a
  PROVE  LocksGood'
  <1>1. NoOne \notin Thread  BY DEF NoOne, Thread
  <1>2. /\ owner' \in [Area -> Thread \cup {NoOne}] /\ owner'[a] = t
        /\ \A x \in Area : x # a => owner'[x] = owner[x]
    BY DEF LocksGood, Lock
  <1>3. ASSUME NEW u \in Thread, u # t, Holds(th[u], owner, u)  PROVE Holds(th'[u], owner', u)
    <2>1. th'[u] = th[u]  BY <1>3 DEF Only
    <2>2. \A x \in Area : owner[x] = u => owner'[x] = u  BY <1>1, <1>2
    <2> QED  BY <1>3, <2>1, <2>2 DEF Holds
  <1>4. Holds(th'[t], owner', t)  BY <1>2 DEF Holds
  <1>5. \A u \in Thread : Holds(th'[u], owner', u)  BY <1>3, <1>4 DEF LocksGood
  <1>6. (\A u \in Thread : Holds(th[u], owner, u))' <=> \A u \in Thread : Holds(th'[u], owner', u)
    BY DEF Holds
  <1> QED  BY <1>2, <1>5, <1>6 DEF LocksGood

\* A thread that frees its lock leaves its section.
LEMMA LocksFreed ==
  ASSUME LocksGood, NEW t \in Thread, Only(t, th, th'), NEW a \in Area, owner[a] = t,
         owner' = Unlock(a), th'[t].pc \notin {"fill", "accounting", "giving"}
  PROVE  LocksGood'
  <1>1. /\ owner' \in [Area -> Thread \cup {NoOne}]
        /\ \A x \in Area : x # a => owner'[x] = owner[x]
    BY DEF LocksGood, Unlock
  <1>2. ASSUME NEW u \in Thread, u # t, Holds(th[u], owner, u)  PROVE Holds(th'[u], owner', u)
    <2>1. th'[u] = th[u]  BY <1>2 DEF Only
    <2>2. \A x \in Area : owner[x] = u => owner'[x] = u  BY <1>1, <1>2
    <2> QED  BY <1>2, <2>1, <2>2 DEF Holds
  <1>3. Holds(th'[t], owner', t)  BY DEF Holds
  <1>4. \A u \in Thread : Holds(th'[u], owner', u)  BY <1>2, <1>3 DEF LocksGood
  <1>5. (\A u \in Thread : Holds(th[u], owner, u))' <=> \A u \in Thread : Holds(th'[u], owner', u)
    BY DEF Holds
  <1> QED  BY <1>1, <1>4, <1>5 DEF LocksGood

-----------------------------------------------------------------------------
\* What every step of thread t leaves, as long as no list_del has strayed.
After(X, t) == Good(X)' /\ Untouched(heap, heap', t, th, live)

\* What a step must be shown to do.
LEMMA AfterOf ==
  ASSUME NEW X, NEW t, StateType', LocksGood',
         NEW K, NEW C, HeapGood(X, heap', K, C, foreground', th', live'),
         Untouched(heap, heap', t, th, live)
  PROVE  After(X, t)
  BY DEF After, Good

\* From call l to r, the span in hand stays there, and the thread does not end
\* while pages are to be kept.
Stays(X, l, r) ==
  /\ r.pc = "gone" => X = {}
  /\ l.pc \in {"clock"} \cup GivingUp => r.pc \in GivingUp /\ r.span = l.span

\* Such a thread has within reach what it had.
LEMMA Staying ==
  ASSUME NEW X, NEW k, NEW c, NEW f, NEW l, NEW use, Recalls(X, k, c, f, l, use),
         NEW r, Stays(X, l, r)
  PROVE  Recalls(X, k, c, f, r, use)
  <1>1. CASE X = {}  BY <1>1 DEF Recalls
  <1>2. CASE r.pc # "gone"
    <2>1. \A x : KeptAt(c, f, l, use, x) => KeptAt(c, f, r, use, x)
      BY <1>2 DEF KeptAt, Stays
    <2> QED  BY <2>1 DEF Recalls
  <1> QED  BY <1>1, <1>2 DEF Stays

\* A step of a call that leaves the heap and the blocks of its thread alone.
LEMMA CallStep ==
  ASSUME NEW X, Good(X), NEW t \in Thread, NEW r \in CallType, Goto(t, r), r.pc # "clock",
         Stays(X, th[t], r),
         UNCHANGED <<heap, foreground, threshold, strayed>>,
         calls' \in [Thread -> 0..MaxCalls],
         live' \in [Thread -> SUBSET BlockType], IsFiniteSet(live'[t]), Only(t, live, live'),
         Blocks(r, live'[t]) = Blocks(th[t], live[t]),
         \A k, c : CallGood(heap, k, c, foreground[t], th[t], live[t])
                     => CallGood(heap, k, c, foreground[t], r, live'[t]),
         LocksGood'
  PROVE  After(X, t)
  <1>1. StateType /\ th \in [Thread -> CallType]  BY DEF Good, StateType
  <1>2. PICK K, C : HeapGood(X, heap, K, C, foreground, th, live)  BY DEF Good
  <1>3. ThreadGood(heap, t, K[t], C[t], foreground[t], th[t], live[t])  BY <1>2 DEF HeapGood
  <1>4. th' \in [Thread -> CallType] /\ th'[t] = r /\ Only(t, th, th')  BY <1>1, GotoEffect
  <1>5. CallGood(heap, K[t], C[t], foreground[t], r, live'[t])  BY <1>3 DEF ThreadGood
  <1>6. ThreadGood(heap, t, K[t], C[t], foreground[t], th'[t], live'[t])
    BY <1>3, <1>4, <1>5, MovesOn
  <1>7. Recalls(X, K[t], C[t], foreground[t], th'[t], Blocks(th'[t], live'[t]))
    <2>1. Recalls(X, K[t], C[t], foreground[t], th[t], Blocks(th[t], live[t]))
      BY <1>2 DEF HeapGood
    <2> QED  BY <1>4, <2>1, Staying
  <1>8. HeapGood(X, heap, K, C, foreground, th', live') /\ Untouched(heap, heap, t, th, live)
    BY <1>2, <1>4, <1>6, <1>7, SameHeap
  <1>9. HeapGood(X, heap', K, C, foreground', th', live') /\ Untouched(heap, heap', t, th, live)
    BY <1>8
  <1>10. StateType'
    <2>1. \A u \in Thread : IsFiniteSet(live'[u])  BY <1>1 DEF StateType, Only
    <2> QED  BY <1>1, <1>4, <2>1 DEF StateType
  <1> QED  BY <1>9, <1>10, AfterOf

\* The step of an action of a thread that takes or frees no lock.
LEMMA QuietStep ==
  ASSUME NEW X, Good(X), NEW t \in Thread, NEW r \in CallType, Goto(t, r),
         r.pc \notin {"clock", "fill", "accounting", "giving"}, r.addr = th[t].addr,
         Stays(X, th[t], r),
         UNCHANGED <<heap, foreground, threshold, owner, live, strayed>>,
         calls' \in [Thread -> 0..MaxCalls],
         \A k, c : CallGood(heap, k, c, foreground[t], th[t], live[t])
                     => CallGood(heap, k, c, foreground[t], r, live[t])
  PROVE  After(X, t)
  <1>1. th \in [Thread -> CallType] /\ LocksGood /\ live \in [Thread -> SUBSET BlockType]
        /\ IsFiniteSet(live[t])
    BY DEF Good, StateType
  <1>2. th'[t] = r /\ Only(t, th, th')  BY <1>1, GotoEffect
  <1>3. LocksGood'  BY <1>1, <1>2, LocksKept
  <1>4. Blocks(r, live'[t]) = Blocks(th[t], live[t]) /\ Only(t, live, live')
    BY DEF Blocks, Only
  <1> QED  BY <1>1, <1>3, <1>4, CallStep

\* What is known of the call of thread t.
LEMMA CallOf ==
  ASSUME NEW X, Good(X), NEW t \in Thread
  PROVE  /\ th[t] \in CallType /\ th \in [Thread -> CallType]
         /\ calls \in [Thread -> 0..MaxCalls] /\ LocksGood
         /\ live \in [Thread -> SUBSET BlockType] /\ IsFiniteSet(live[t])
         /\ \E k, c : k \in SUBSET Piece /\ CallGood(heap, k, c, foreground[t], th[t], live[t])
  <1>1. PICK K, C : HeapGood(X, heap, K, C, foreground, th, live)  BY DEF Good
  <1>2. CallGood(heap, K[t], C[t], foreground[t], th[t], live[t])
    BY <1>1 DEF HeapGood, ThreadGood
  <1>3. K[t] \in SUBSET Piece  BY <1>1 DEF HeapGood
  <1> QED  BY <1>2, <1>3 DEF Good, StateType

\* Of a call in any state but these there is less to know.
LEMMA Searches ==
  ASSUME NEW h, NEW k, NEW c, NEW f, NEW l, NEW bl, NEW r,
         r.pc \in {"acquire", "select", "trylock", "fill"}, r.addr = <<>>,
         r.nvm_index \in 1..AREA_NUM,
         r.class = -1 => r.pc # "acquire" /\ r.pages \in LargeSize,
         r.pc \in {"trylock", "fill"} => r.order \in Orders
  PROVE  CallGood(h, k, c, f, r, bl)
  BY DEF CallGood, Searching, Answering, GivingUp

\* hpnmalloc of a small block starts.
LEMMA CallSmallGood ==
  ASSUME NEW X, Good(X), NEW t \in Thread, NEW i \in Class, CallSmall(t, i)
  PROVE  After(X, t)
  <1> DEFINE r == [Idle EXCEPT !.pc = "acquire", !.class = i, !.nvm_index = AREA_NUM]
  <1>1. /\ th[t].pc = "idle" /\ calls[t] < MaxCalls /\ Goto(t, r)
        /\ calls' = [calls EXCEPT ![t] = @ + 1]
        /\ UNCHANGED <<heap, foreground, threshold, owner, live, strayed>>
    BY DEF CallSmall, At
  <1>2. /\ r.pc = "acquire" /\ r.class = i /\ r.nvm_index = AREA_NUM /\ r.addr = <<>>
        /\ r.order = <<>> /\ r.pages = 0 /\ r.span = NULL
    BY DEF Idle
  <1>3. r \in CallType
    <2>1. AREA_NUM \in 0..AREA_NUM /\ "acquire" \in PCs  BY Sizes DEF PCs
    <2> QED  BY <2>1 DEF Idle, CallType
  <1>4. th[t].addr = <<>>
    <2>1. PICK k, c : CallGood(heap, k, c, foreground[t], th[t], live[t])  BY CallOf
    <2> QED  BY <1>1, <2>1 DEF CallGood, Answering
  <1>5. i # -1 /\ AREA_NUM \in 1..AREA_NUM  BY ClassBlocks, Sizes
  <1> HIDE DEF r
  <1>6. \A k, c : CallGood(heap, k, c, foreground[t], r, live[t])
    BY <1>2, <1>5, Searches
  <1>7. calls' \in [Thread -> 0..MaxCalls]
    <2>1. calls \in [Thread -> 0..MaxCalls] /\ MaxCalls \in Nat  BY CallOf, CallAssumption
    <2> QED  BY <1>1, <2>1
  <1>8. Stays(X, th[t], r)  BY <1>1, <1>2 DEF Stays, GivingUp
  <1> QED  BY <1>1, <1>2, <1>3, <1>4, <1>6, <1>7, <1>8, QuietStep

\* hpnmalloc of a large block starts.
LEMMA CallLargeGood ==
  ASSUME NEW X, Good(X), NEW t \in Thread, NEW n \in LargeSize, CallLarge(t, n)
  PROVE  After(X, t)
  <1> DEFINE r == [Idle EXCEPT !.pc = "select", !.pages = n, !.nvm_index = AREA_NUM]
  <1>1. /\ th[t].pc = "idle" /\ calls[t] < MaxCalls /\ Goto(t, r)
        /\ calls' = [calls EXCEPT ![t] = @ + 1]
        /\ UNCHANGED <<heap, foreground, threshold, owner, live, strayed>>
    BY DEF CallLarge, At
  <1>2. /\ r.pc = "select" /\ r.class = -1 /\ r.nvm_index = AREA_NUM /\ r.addr = <<>>
        /\ r.order = <<>> /\ r.pages = n /\ r.span = NULL
    BY DEF Idle
  <1>3. r \in CallType
    <2>1. AREA_NUM \in 0..AREA_NUM /\ "select" \in PCs  BY Sizes DEF PCs
    <2> QED  BY <2>1 DEF Idle, CallType
  <1>4. th[t].addr = <<>>
    <2>1. PICK k, c : CallGood(heap, k, c, foreground[t], th[t], live[t])  BY CallOf
    <2> QED  BY <1>1, <2>1 DEF CallGood, Answering
  <1>5. AREA_NUM \in 1..AREA_NUM  BY Sizes
  <1> HIDE DEF r
  <1>6. \A k, c : CallGood(heap, k, c, foreground[t], r, live[t])
    BY <1>2, <1>5, Searches
  <1>7. calls' \in [Thread -> 0..MaxCalls]
    <2>1. calls \in [Thread -> 0..MaxCalls] /\ MaxCalls \in Nat  BY CallOf, CallAssumption
    <2> QED  BY <1>1, <2>1
  <1>8. Stays(X, th[t], r)  BY <1>1, <1>2 DEF Stays, GivingUp
  <1> QED  BY <1>1, <1>2, <1>3, <1>4, <1>6, <1>7, <1>8, QuietStep

\* The areas in order of priority.
LEMMA SelectGood ==
  ASSUME NEW X, Good(X), NEW t \in Thread, Select(t)
  PROVE  After(X, t)
  <1>1. PICK o \in Orders : Goto(t, [th[t] EXCEPT !.pc = "trylock", !.order = o])
    BY DEF Select
  <1> DEFINE r == [th[t] EXCEPT !.pc = "trylock", !.order = o]
  <1>2. /\ th[t].pc = "select" /\ calls' = calls
        /\ UNCHANGED <<heap, foreground, threshold, owner, live, strayed>>
    BY DEF Select, At
  <1>3. th[t] \in CallType /\ calls \in [Thread -> 0..MaxCalls]  BY CallOf
  <1>4. /\ r.pc = "trylock" /\ r.class = th[t].class /\ r.nvm_index = th[t].nvm_index
        /\ r.addr = th[t].addr /\ r.order = o /\ r.pages = th[t].pages /\ r.span = th[t].span
    BY <1>3 DEF CallType
  <1>5. r \in CallType
    <2>1. "trylock" \in PCs  BY DEF PCs
    <2> QED  BY <1>3, <2>1 DEF CallType
  <1> HIDE DEF r
  <1>6. \A k, c : CallGood(heap, k, c, foreground[t], th[t], live[t])
                    => CallGood(heap, k, c, foreground[t], r, live[t])
    <2>1. TAKE k, c
    <2>2. HAVE CallGood(heap, k, c, foreground[t], th[t], live[t])
    <2>3. /\ th[t].addr = <<>> /\ th[t].nvm_index \in 1..AREA_NUM
          /\ th[t].class = -1 => th[t].pages \in LargeSize
      BY <1>2, <2>2 DEF CallGood, Searching, Answering
    <2> QED  BY <1>4, <2>3, Searches
  <1>7. Stays(X, th[t], r)  BY <1>2, <1>4 DEF Stays, GivingUp
  <1> QED  BY <1>1, <1>2, <1>3, <1>4, <1>5, <1>6, <1>7, QuietStep DEF r

\* A trylock gets the lock and its thread enters the section of the area, or
\* the next area is tried.
LEMMA TryLockGood ==
  ASSUME NEW X, Good(X), NEW t \in Thread, TryLock(t)
  PROVE  After(X, t)
  <1> DEFINE a == th[t].order[th[t].nvm_index]
             r == [th[t] EXCEPT !.pc = "fill"]
             n == [th[t] EXCEPT !.nvm_index = IF @ = 1 THEN AREA_NUM ELSE @ - 1]
  <1>1. /\ th[t].pc = "trylock" /\ calls' = calls
        /\ UNCHANGED <<heap, foreground, threshold, live, strayed>>
    BY DEF TryLock, At
  <1>2. /\ th[t] \in CallType /\ th \in [Thread -> CallType] /\ calls \in [Thread -> 0..MaxCalls]
        /\ LocksGood /\ live \in [Thread -> SUBSET BlockType] /\ IsFiniteSet(live[t])
    BY CallOf
  <1>3. PICK k, c : k \in SUBSET Piece /\ CallGood(heap, k, c, foreground[t], th[t], live[t])
    BY CallOf
  <1>4. /\ th[t].addr = <<>> /\ th[t].nvm_index \in 1..AREA_NUM /\ th[t].order \in Orders
        /\ th[t].class = -1 => th[t].pages \in LargeSize
    BY <1>1, <1>3 DEF CallGood, Searching, Answering
  <1>5. a \in Area  BY <1>4 DEF Orders
  <1>6. CASE owner[a] = NoOne /\ owner' = Lock(a, t) /\ Goto(t, r)
    <2>1. /\ r.pc = "fill" /\ r.class = th[t].class /\ r.nvm_index = th[t].nvm_index
          /\ r.addr = th[t].addr /\ r.order = th[t].order /\ r.pages = th[t].pages
          /\ r.span = th[t].span
      BY <1>2 DEF CallType
    <2>2. r \in CallType
      <3>1. "fill" \in PCs  BY DEF PCs
      <3> QED  BY <1>2, <3>1 DEF CallType
    <2> HIDE DEF r
    <2>3. th'[t] = r /\ Only(t, th, th')  BY <1>2, <1>6, <2>2, GotoEffect
    <2>4. LocksGood'  BY <1>2, <1>5, <1>6, <2>1, <2>3, LocksTaken
    <2>5. \A x, y : CallGood(heap, x, y, foreground[t], r, live[t])
      BY <1>4, <2>1, Searches
    <2>6. live' \in [Thread -> SUBSET BlockType] /\ IsFiniteSet(live'[t]) /\ Only(t, live, live')
          /\ Blocks(r, live'[t]) = Blocks(th[t], live[t]) /\ calls' \in [Thread -> 0..MaxCalls]
          /\ live' = live
      BY <1>1, <1>2, <2>1 DEF Only, Blocks
    <2>7. Stays(X, th[t], r)  BY <1>1, <2>1 DEF Stays, GivingUp
    <2> QED  BY <1>1, <1>6, <2>1, <2>2, <2>4, <2>5, <2>6, <2>7, CallStep
  <1>7. CASE owner' = owner /\ Goto(t, n)
    <2>1. /\ n.pc = "trylock" /\ n.class = th[t].class /\ n.nvm_index \in 1..AREA_NUM
          /\ n.addr = th[t].addr /\ n.order = th[t].order /\ n.pages = th[t].pages
          /\ n.span = th[t].span
      BY SMTT(30), <1>1, <1>2, <1>4, Sizes DEF CallType
    <2>2. n \in CallType
      <3>1. (IF th[t].nvm_index = 1 THEN AREA_NUM ELSE th[t].nvm_index - 1) \in 0..AREA_NUM
        BY SMTT(30), <1>4, Sizes
      <3> QED  BY <1>2, <3>1 DEF CallType
    <2> HIDE DEF n
    <2>3. \A x, y : CallGood(heap, x, y, foreground[t], n, live[t])
      BY <1>4, <2>1, Searches
    <2>4. Stays(X, th[t], n)  BY <1>1, <2>1 DEF Stays, GivingUp
    <2> QED  BY <1>1, <1>2, <1>7, <2>1, <2>2, <2>3, <2>4, QuietStep
  <1> QED  BY <1>6, <1>7 DEF TryLock

\* The area of a span a call has in hand.
LEMMA InHand ==
  ASSUME NEW h, NEW k \in SUBSET Piece, NEW c, NEW f, NEW l, NEW bl, CallGood(h, k, c, f, l, bl),
         l.pc \in Answering \cup GivingUp
  PROVE  l.span \in Spans /\ AreaOf(l.span) \in Area
  <1>1. CASE l.pc \in Answering
    <2>1. l.span \in Spans  BY <1>1 DEF CallGood, BlockType
    <2> QED  BY <2>1, PageOfSpan
  <1>2. CASE l.pc \in GivingUp
    <2>1. GivenUpGood(h, k, c, f, l, Blocks(l, bl))  BY <1>2 DEF CallGood
    <2>2. PICK n : [at |-> l.span, pages |-> n] \in k  BY <2>1 DEF GivenUpGood
    <2>3. [at |-> l.span, pages |-> n].at = l.span  OBVIOUS
    <2>4. l.span \in Spans  BY <2>2, <2>3 DEF Piece
    <2> QED  BY <2>4, PageOfSpan
  <1> QED  BY <1>1, <1>2

\* The lock for the account of a call on its area.
LEMMA LockAccountGood ==
  ASSUME NEW X, Good(X), NEW t \in Thread, LockAccount(t)
  PROVE  After(X, t)
  <1> DEFINE a == AreaOf(th[t].span)
             r == [th[t] EXCEPT !.pc = "accounting"]
  <1>1. /\ th[t].pc = "account" /\ calls' = calls /\ owner[a] = NoOne /\ owner' = Lock(a, t)
        /\ UNCHANGED <<heap, foreground, threshold, live, strayed>> /\ Goto(t, r)
    BY DEF LockAccount, At
  <1>2. /\ th[t] \in CallType /\ th \in [Thread -> CallType] /\ calls \in [Thread -> 0..MaxCalls]
        /\ LocksGood /\ live \in [Thread -> SUBSET BlockType] /\ IsFiniteSet(live[t])
    BY CallOf
  <1>3. PICK k, c : k \in SUBSET Piece /\ CallGood(heap, k, c, foreground[t], th[t], live[t])
    BY CallOf
  <1>4. a \in Area  BY <1>1, <1>3, InHand DEF Answering
  <1>5. /\ r.pc = "accounting" /\ r.class = th[t].class /\ r.nvm_index = th[t].nvm_index
        /\ r.addr = th[t].addr /\ r.order = th[t].order /\ r.pages = th[t].pages
        /\ r.span = th[t].span
    BY <1>2 DEF CallType
  <1>6. r \in CallType
    <2>1. "accounting" \in PCs  BY DEF PCs
    <2> QED  BY <1>2, <2>1 DEF CallType
  <1> HIDE DEF r
  <1>7. th'[t] = r /\ Only(t, th, th')  BY <1>1, <1>2, <1>6, GotoEffect
  <1>8. LocksGood'  BY <1>1, <1>2, <1>4, <1>5, <1>7, LocksTaken
  <1>9. \A x, y : CallGood(heap, x, y, foreground[t], th[t], live[t])
                    => CallGood(heap, x, y, foreground[t], r, live[t])
    BY <1>1, <1>5 DEF CallGood, Searching, Answering, GivingUp
  <1>10. live' \in [Thread -> SUBSET BlockType] /\ IsFiniteSet(live'[t]) /\ Only(t, live, live')
         /\ Blocks(r, live'[t]) = Blocks(th[t], live[t]) /\ calls' \in [Thread -> 0..MaxCalls]
         /\ live' = live
    BY <1>1, <1>2, <1>5 DEF Only, Blocks
  <1>11. Stays(X, th[t], r)  BY <1>1, <1>5 DEF Stays, GivingUp
  <1> QED  BY <1>1, <1>5, <1>6, <1>8, <1>9, <1>10, <1>11, CallStep

\* The lock for a give-back.
LEMMA LockGiveBackGood ==
  ASSUME NEW X, Good(X), NEW t \in Thread, LockGiveBack(t)
  PROVE  After(X, t)
  <1> DEFINE a == AreaOf(th[t].span)
             r == [th[t] EXCEPT !.pc = "giving"]
  <1>1. /\ th[t].pc = "giveback" /\ calls' = calls /\ owner[a] = NoOne /\ owner' = Lock(a, t)
        /\ UNCHANGED <<heap, foreground, threshold, live, strayed>> /\ Goto(t, r)
    BY DEF LockGiveBack, At
  <1>2. /\ th[t] \in CallType /\ th \in [Thread -> CallType] /\ calls \in [Thread -> 0..MaxCalls]
        /\ LocksGood /\ live \in [Thread -> SUBSET BlockType] /\ IsFiniteSet(live[t])
    BY CallOf
  <1>3. PICK k, c : k \in SUBSET Piece /\ CallGood(heap, k, c, foreground[t], th[t], live[t])
    BY CallOf
  <1>4. a \in Area  BY <1>1, <1>3, InHand DEF GivingUp
  <1>5. /\ r.pc = "giving" /\ r.class = th[t].class /\ r.nvm_index = th[t].nvm_index
        /\ r.addr = th[t].addr /\ r.order = th[t].order /\ r.pages = th[t].pages
        /\ r.span = th[t].span
    BY <1>2 DEF CallType
  <1>6. r \in CallType
    <2>1. "giving" \in PCs  BY DEF PCs
    <2> QED  BY <1>2, <2>1 DEF CallType
  <1> HIDE DEF r
  <1>7. th'[t] = r /\ Only(t, th, th')  BY <1>1, <1>2, <1>6, GotoEffect
  <1>8. LocksGood'  BY <1>1, <1>2, <1>4, <1>5, <1>7, LocksTaken
  <1>9. \A x, y : CallGood(heap, x, y, foreground[t], th[t], live[t])
                    => CallGood(heap, x, y, foreground[t], r, live[t])
    <2>1. Blocks(r, live[t]) = Blocks(th[t], live[t])  BY <1>5 DEF Blocks
    <2>2. \A x, y : GivenUpGood(heap, x, y, foreground[t], th[t], Blocks(th[t], live[t]))
                      => GivenUpGood(heap, x, y, foreground[t], r, Blocks(r, live[t]))
      BY <1>5, <2>1 DEF GivenUpGood
    <2> QED  BY <1>1, <1>5, <2>2 DEF CallGood, Searching, Answering, GivingUp
  <1>10. live' \in [Thread -> SUBSET BlockType] /\ IsFiniteSet(live'[t]) /\ Only(t, live, live')
         /\ Blocks(r, live'[t]) = Blocks(th[t], live[t]) /\ calls' \in [Thread -> 0..MaxCalls]
         /\ live' = live
    BY <1>1, <1>2, <1>5 DEF Only, Blocks
  <1>11. Stays(X, th[t], r)  BY <1>1, <1>5 DEF Stays, GivingUp
  <1> QED  BY <1>1, <1>5, <1>6, <1>8, <1>9, <1>10, <1>11, CallStep

\* A block is not the absence of one.
LEMMA BlockThere ==
  ASSUME NEW b \in BlockType
  PROVE  b # <<>>
  <1>1. b = [span |-> b.span, pos |-> b.pos, size |-> b.size]  BY DEF BlockType
  <1>2. [span |-> b.span, pos |-> b.pos, size |-> b.size] # <<>>  OBVIOUS
  <1> QED  BY <1>1, <1>2

\* hpnmalloc returns: the block in hand is now one of the thread's.
LEMMA ReturnGood ==
  ASSUME NEW X, Good(X), NEW t \in Thread, Return(t)
  PROVE  After(X, t)
  <1> DEFINE a == AreaOf(th[t].span)
  <1>1. /\ th[t].pc = "accounting" /\ calls' = calls /\ owner' = Unlock(a)
        /\ live' = [live EXCEPT ![t] = @ \cup {th[t].addr}]
        /\ UNCHANGED <<heap, foreground, threshold, strayed>> /\ Goto(t, Idle)
    BY DEF Return, At
  <1>2. /\ th[t] \in CallType /\ th \in [Thread -> CallType] /\ calls \in [Thread -> 0..MaxCalls]
        /\ LocksGood /\ live \in [Thread -> SUBSET BlockType] /\ IsFiniteSet(live[t])
    BY CallOf
  <1>3. PICK k, c : k \in SUBSET Piece /\ CallGood(heap, k, c, foreground[t], th[t], live[t])
    BY CallOf
  <1>4. th[t].addr \in BlockType /\ th[t].addr # <<>>
    <2>1. th[t].addr \in BlockType  BY <1>1, <1>3 DEF CallGood, Answering
    <2> QED  BY <2>1, BlockThere
  <1>5. /\ Idle.pc = "idle" /\ Idle.class = -1 /\ Idle.addr = <<>> /\ Idle \in CallType
    BY IdleType DEF Idle
  <1>6. th'[t] = Idle /\ Only(t, th, th')  BY <1>1, <1>2, <1>5, GotoEffect
  <1>7. LocksGood'
    <2>1. a \in Area /\ owner[a] = t  BY <1>1, <1>2 DEF LocksGood, Holds
    <2> QED  BY <1>1, <1>2, <1>5, <1>6, <2>1, LocksFreed
  <1>8. /\ live' \in [Thread -> SUBSET BlockType] /\ Only(t, live, live')
        /\ live'[t] = live[t] \cup {th[t].addr}
    BY <1>1, <1>2, <1>4 DEF Only
  <1>9. IsFiniteSet(live'[t])  BY SMTT(30), <1>2, <1>8, FS_AddElement
  <1>10. Blocks(Idle, live'[t]) = Blocks(th[t], live[t])  BY <1>4, <1>5, <1>8 DEF Blocks
  <1>11. \A x, y : CallGood(heap, x, y, foreground[t], Idle, live'[t])
    BY <1>5 DEF CallGood, Searching, Answering, GivingUp
  <1>12. calls' \in [Thread -> 0..MaxCalls] /\ Idle.pc # "clock"  BY <1>1, <1>2, <1>5
  <1>13. Stays(X, th[t], Idle)  BY <1>1, <1>5 DEF Stays, GivingUp
  <1> QED  BY <1>1, <1>5, <1>7, <1>8, <1>9, <1>10, <1>11, <1>12, <1>13, CallStep

\* A thread ends.
LEMMA ExitGood ==
  ASSUME Good({}), NEW t \in Thread, Exit(t)
  PROVE  After({}, t)
  <1> DEFINE r == [Idle EXCEPT !.pc = "gone"]
  <1>1. /\ th[t].pc = "idle" /\ calls' = calls /\ Goto(t, r)
        /\ UNCHANGED <<heap, foreground, threshold, owner, live, strayed>>
    BY DEF Exit, At
  <1>2. th[t] \in CallType /\ calls \in [Thread -> 0..MaxCalls]  BY CallOf
  <1>3. PICK k, c : k \in SUBSET Piece /\ CallGood(heap, k, c, foreground[t], th[t], live[t])
    BY CallOf
  <1>4. r.pc = "gone" /\ r.addr = <<>> /\ r \in CallType
    <2>1. "gone" \in PCs  BY DEF PCs
    <2> QED  BY <2>1, IdleType DEF Idle, CallType
  <1>5. th[t].addr = <<>>  BY <1>1, <1>3 DEF CallGood, Answering
  <1> HIDE DEF r
  <1>6. \A x, y : CallGood(heap, x, y, foreground[t], r, live[t])
    BY <1>4 DEF CallGood, Searching, Answering, GivingUp
  <1>7. Stays({}, th[t], r)  BY <1>1 DEF Stays, GivingUp
  <1> QED  BY <1>1, <1>2, <1>4, <1>5, <1>6, <1>7, QuietStep

-----------------------------------------------------------------------------
\* A call that has found a span of the cache with a free block goes on to
\* the clock with it.
LEMMA Chosen ==
  ASSUME NEW h, NEW t, NEW k, NEW c, NEW f, NEW l, NEW bl, ThreadGood(h, t, k, c, f, l, bl),
         l.pc \in {"acquire", "fill"}, l.class \in Class,
         NEW s, One(s) \in k, ~OnCache(c, s), h.hdr[s].category = l.class,
         Serves(h, Blocks(l, bl), s), h.hdr[s].bitmap # {},
         NEW r, r.pc = "clock", r.span = s, r.class = l.class, r.nvm_index = l.nvm_index,
         r.addr = l.addr
  PROVE  ThreadGood(h, t, k, c, f, r, bl)
  <1>1. Blocks(r, bl) = Blocks(l, bl)  BY DEF Blocks
  <1>2. \A x : Reached(c, f, r, x) => x = s \/ Reached(c, f, l, x)  BY DEF Reached
  <1>3. ReachedGood(h, c, f, r, Blocks(r, bl))  BY <1>1, <1>2 DEF ThreadGood, ReachedGood
  <1>4. CallGood(h, k, c, f, r, bl)
    <2>1. l.nvm_index \in 1..AREA_NUM /\ l.addr = <<>>
      BY DEF ThreadGood, CallGood, Searching, Answering
    <2>2. ChosenGood(h, k, c, r)  BY DEF ChosenGood
    <2>3. r.class # -1  BY ClassBlocks
    <2> QED  BY <2>1, <2>2, <2>3 DEF CallGood, Searching, Answering, GivingUp
  <1> QED  BY <1>1, <1>3, <1>4 DEF ThreadGood

-----------------------------------------------------------------------------
\* A running thread that is not at the clock and gives up no span.
Free(l) == l.pc \notin {"clock", "gone"} \cup GivingUp

\* Leaving the headers of the others alone twice.
LEMMA UntouchedTwice ==
  ASSUME NEW h, NEW g, NEW d, NEW t, NEW l, NEW bl,
         Untouched(h, g, t, l, bl), Untouched(g, d, t, l, bl)
  PROVE  Untouched(h, d, t, l, bl)
  BY DEF Untouched

\* What such a call says does not depend on the cache.
LEMMA FreeCall ==
  ASSUME NEW h, NEW k, NEW c, NEW f, NEW l, NEW bl, CallGood(h, k, c, f, l, bl), Free(l),
         NEW g, NEW c2, NEW f2
  PROVE  CallGood(g, k, c2, f2, l, bl)
  BY DEF Free, CallGood

\* Changes of links alter no header.
LEMMA LinksAlter ==
  ASSUME NEW h, NEW g, SameButLinks(h, g), NEW s
  PROVE  Alters(h, g, s)
  BY DEF SameButLinks, Alters

\* Span s is neither listed nor a foreground span; a list for its class.
Off(c, f, s) == ~OnCache(c, s) /\ \A i \in Class : f[i] # s
Suits(h, j, s) ==
  \A i \in 0..PageUnits - 1 : j \in {BackNo(i), NotNo(i)} => h.hdr[s].category = i

\* The page of a small span is the only one of the pieces at it.
Sole(k, s) == /\ PagesOf(One(s)) = {s} /\ One(s).at = s
              /\ \A e \in k : e.at = s => e = One(s)

\* A thread that holds the page of a span holds no other piece at it.
LEMMA OnlyPage ==
  ASSUME NEW X, NEW h, NEW K, NEW C, NEW S, NEW L, NEW t \in Thread, NEW c,
         Base(X, h, K, C, S, L, t, c), NEW s, One(s) \in K[t]
  PROVE  Sole(K[t], s)
  <1>1. One(s).at = s /\ One(s).pages = 1  BY DEF One
  <1>2. Apart(h, K, S, t, One(s))  BY HeldOne
  <1>3. s \in Nat  BY <1>1, <1>2, Sizes DEF Apart, Spans
  <1>4. PagesOf(One(s)) = {s}  BY <1>1, <1>3 DEF PagesOf, ExtentOf
  <1>5. \A e \in K[t] : e.at = s => e = One(s)  BY <1>1, <1>2 DEF Apart
  <1> QED  BY <1>1, <1>4, <1>5 DEF Sole

\* Span s aside, the pieces of the thread stay within its reach.
LEMMA RecallsBut ==
  ASSUME NEW X, NEW h, NEW K, NEW C, NEW S, NEW L, NEW t \in Thread, NEW c,
         Base(X, h, K, C, S, L, t, c), NEW s, One(s) \in K[t],
         NEW Y, NEW f, NEW l, NEW use, Recalls(Y \ {s}, K[t], c, f, l, use),
         NEW c2, NEW f2, NEW l2, NEW use2, Keeping(c, f, l, use, c2, f2, l2, use2, s)
  PROVE  Recalls(Y \ {s}, K[t], c2, f2, l2, use2)
  <1>1. Sole(K[t], s)  BY OnlyPage
  <1>2. \A e \in K[t] : e.at = s => PagesOf(e) \cap (Y \ {s}) = {}  BY <1>1 DEF Sole
  <1> QED  BY <1>2, RecallsElse

\* A small span of thread t that is within its reach is kept with the others.
LEMMA RegainedOne ==
  ASSUME NEW X, NEW h, NEW K, NEW C, NEW f, NEW l, NEW bl, NEW t \in Thread,
         NEW s, One(s) \in K[t], HeapGood(X \ {s}, h, K, C, f, l, bl),
         KeptAt(C[t], f[t], l[t], Blocks(l[t], bl[t]), s)
  PROVE  HeapGood(X, h, K, C, f, l, bl)
  <1>1. PICK Y, c : Y = X \ {s} /\ c = C[t]  OBVIOUS
  <1>2. PagesOf(One(s)) = {s} /\ One(s).at = s
    <2>1. HeapGood(Y, h, K, C, f, l, bl)  BY <1>1
    <2>2. PICK S, L : Base(Y, h, K, C, S, L, t, c)  BY <1>1, <2>1, BaseOf
    <2>3. Sole(K[t], s)  BY <2>2, OnlyPage
    <2> QED  BY <2>3 DEF Sole
  <1>3. HeapGood(X \ PagesOf(One(s)), h, K, C, f, l, bl)  BY <1>2
  <1>4. KeptAt(C[t], f[t], l[t], Blocks(l[t], bl[t]), One(s).at)  BY <1>2
  <1> QED  BY <1>3, <1>4, Regained

\* Nothing in the heap of a thread is about a span on its lists but the lists.
LEMMA TakeHeap ==
  ASSUME NEW X, NEW h, NEW K, NEW C, NEW f, NEW l, NEW bl, HeapGood(X, h, K, C, f, l, bl),
         NEW t \in Thread, Free(l[t]), NEW j \in ListNo, NEW s \in C[t][j],
         NEW g, g = list_del(h, s)
  PROVE  /\ HeapGood(X \ {s}, g, K, [C EXCEPT ![t] = Less(C[t], j, s)], f, l, bl)
         /\ Untouched(h, g, t, l, bl) /\ SameButLinks(h, g)
         /\ One(s) \in K[t] /\ Off(Less(C[t], j, s), f[t], s) /\ s \in Spans
  <1> DEFINE c   == C[t]
             c2  == Less(c, j, s)
             use == Blocks(l[t], bl[t])
             Y   == X \ {s}
  <1>1. HeapGood(Y, h, K, C, f, l, bl)  BY Narrowed
  <1>2. PICK S, L : Base(Y, h, K, C, S, L, t, C[t])  BY <1>1, BaseOf
  <1>3. Base(Y, g, K, C, S, L, t, c2) /\ Local(h, g, t, K[t], S, C) /\ SameButLinks(h, g)
    BY <1>2, TakeStep
  <1>4. /\ c \in Caches /\ ThreadGood(h, t, K[t], c, f[t], l[t], bl[t]) /\ HeadersGood(h)
    BY <1>2 DEF Base, HeapGood
  <1>5. c2 \in Caches /\ c2[j] = c[j] \ {s} /\ \A i \in ListNo : i # j => c2[i] = c[i]
    BY <1>4 DEF Less, Caches
  <1>6. s \in Spans /\ OnCache(c, s) /\ One(s) \in K[t] /\ \A i \in ListNo : i # j => s \notin c[i]
    BY <1>4 DEF Caches, OnCache, ThreadGood, ListsGood
  <1> HIDE DEF c2
  <1>7. ~OnCache(c2, s)  BY <1>5, <1>6 DEF OnCache
  <1>8. \A i \in Class : f[t][i] # s
    <2>1. s # NULL  BY <1>6, LowestNodes, NodesIn
    <2> QED  BY <1>4, <1>6, <2>1 DEF ThreadGood, ForegroundGood
  <1>9. Alters(h, g, s) /\ HeaderGood(g.hdr[s])
    <2>1. Alters(h, g, s)  BY <1>3, LinksAlter
    <2> QED  BY <1>3, <1>4, <1>6, <2>1 DEF HeadersGood, SameButLinks
  <1> HIDE DEF use
  <1>10. Beyond(c, f[t], l[t], use, c2, f[t], l[t], use, s)
    <2>1. \A i \in ListNo : c2[i] \subseteq c[i]  BY <1>5
    <2>2. \A x : OnCache(c2, x) => OnCache(c, x)  BY <2>1 DEF OnCache
    <2>3. \A x : Reached(c2, f[t], l[t], x) => Reached(c, f[t], l[t], x)  BY <2>1 DEF Reached
    <2>4. c2[0] \subseteq c[0]  BY <2>1, ListNumbers
    <2> QED  BY <2>2, <2>3, <2>4 DEF Beyond
  <1>11. Settled(g, K[t], c2, f[t], l[t], use, s)
    <2>1. ~Reached(c2, f[t], l[t], s)  BY <1>7, <1>8 DEF Reached, OnCache, Free
    <2>2. \A b \in use : b.span = s => BlockGood(g, K[t], use, b)
      <3>1. ASSUME NEW b \in use, b.span = s  PROVE BlockGood(g, K[t], use, b)
        <4>1. BlockGood(h, K[t], use, b)
          BY <1>4, <3>1 DEF ThreadGood, BlocksGood, BlockGood, use
        <4>2. g.hdr = h.hdr /\ g.entry = h.entry  BY <1>3 DEF SameButLinks
        <4> QED  BY <4>1, <4>2 DEF BlockGood, LargeGood, SmallGood, Serves
      <3> QED  BY <3>1
    <2>3. s \notin c2[0]  BY <1>7, ListNumbers DEF OnCache
    <2> QED  BY <1>8, <2>1, <2>2, <2>3 DEF Settled
  <1>12. CallGood(g, K[t], c2, f[t], l[t], bl[t])
    <2>1. CallGood(h, K[t], c, f[t], l[t], bl[t])  BY <1>4 DEF ThreadGood
    <2> QED  BY <2>1, FreeCall
  <1>13. Only(t, f, f) /\ Only(t, l, l) /\ Only(t, bl, bl)  BY DEF Only
  <1>14. Recalls(Y, K[t], c2, f[t], l[t], use)
    <2>1. Recalls(Y, K[t], c, f[t], l[t], use)  BY <1>1 DEF HeapGood, use
    <2>2. \A x : x # s /\ OnCache(c, x) => OnCache(c2, x)  BY <1>5 DEF OnCache
    <2>3. Keeping(c, f[t], l[t], use, c2, f[t], l[t], use, s)  BY <2>2 DEF Keeping, KeptAt
    <2> QED  BY <1>2, <1>6, <2>1, <2>3, RecallsBut
  <1> HIDE DEF Y
  <1>15. HeapGood(Y, g, K, [C EXCEPT ![t] = c2], f, l, bl) /\ Untouched(h, g, t, l, bl)
    BY <1>1, <1>2, <1>3, <1>9, <1>10, <1>11, <1>12, <1>13, <1>14, LocalElse DEF use
  <1> QED  BY <1>3, <1>6, <1>7, <1>8, <1>15 DEF c2, Off, Y

\* A span off the lists and not in the foreground may go to the end of a list,
\* to the spare pages without blocks, to another if it has a free block.
LEMMA PutHeap ==
  ASSUME NEW X, NEW h, NEW K, NEW C, NEW f, NEW l, NEW bl, NEW s, HeapGood(X \ {s}, h, K, C, f, l, bl),
         NEW t \in Thread, Free(l[t]), NEW j \in ListNo, One(s) \in K[t],
         Off(C[t], f[t], s), Suits(h, j, s),
         j = 0 => Mates(Blocks(l[t], bl[t]), s) = {},
         j # 0 => Serves(h, Blocks(l[t], bl[t]), s) /\ h.hdr[s].bitmap # {},
         NEW g, g = list_add_tail(h, s, HeadOf(t, j))
  PROVE  /\ HeapGood(X, g, K, [C EXCEPT ![t] = With(C[t], j, s)], f, l, bl)
         /\ Untouched(h, g, t, l, bl) /\ SameButLinks(h, g)
  <1>1. /\ ~OnCache(C[t], s) /\ \A i \in Class : f[t][i] # s
        /\ \A i \in 0..PageUnits - 1 : j \in {BackNo(i), NotNo(i)} => h.hdr[s].category = i
    BY DEF Off, Suits
  <1> DEFINE c   == C[t]
             c2  == With(c, j, s)
             use == Blocks(l[t], bl[t])
             Y   == X \ {s}
  <1>2. PICK S, L : Base(Y, h, K, C, S, L, t, C[t])  BY BaseOf
  <1>3. Base(Y, g, K, C, S, L, t, c2) /\ Local(h, g, t, K[t], S, C) /\ SameButLinks(h, g)
    BY <1>1, <1>2, PutStep
  <1>4. /\ c \in Caches /\ ThreadGood(h, t, K[t], c, f[t], l[t], bl[t]) /\ HeadersGood(h)
        /\ K[t] \in SUBSET Piece
    BY <1>2 DEF Base, HeapGood
  <1>5. s \in Spans
    <2>1. One(s).at = s  BY DEF One
    <2> QED  BY <1>4, <2>1 DEF Piece
  <1>6. c2[j] = c[j] \cup {s} /\ \A i \in ListNo : i # j => c2[i] = c[i]
    BY <1>4 DEF With, Caches
  <1>7. g.hdr = h.hdr /\ g.entry = h.entry  BY <1>3 DEF SameButLinks
  <1> HIDE DEF c2, use
  <1>8. Alters(h, g, s) /\ HeaderGood(g.hdr[s])
    <2>1. Alters(h, g, s)  BY <1>3, LinksAlter
    <2> QED  BY <1>4, <1>5, <1>7, <2>1 DEF HeadersGood
  <1>9. Beyond(c, f[t], l[t], use, c2, f[t], l[t], use, s)
    <2>1. \A i \in ListNo : c2[i] \subseteq c[i] \cup {s}  BY <1>6
    <2>2. \A x : x # s => (OnCache(c2, x) => OnCache(c, x))  BY <2>1 DEF OnCache
    <2>3. \A x : x # s => (Reached(c2, f[t], l[t], x) => Reached(c, f[t], l[t], x))
      BY <2>1 DEF Reached
    <2>4. c2[0] \subseteq c[0] \cup {s}  BY <2>1, ListNumbers
    <2> QED  BY <2>2, <2>3, <2>4 DEF Beyond
  <1>10. Settled(g, K[t], c2, f[t], l[t], use, s)
    <2>1. ASSUME Reached(c2, f[t], l[t], s)  PROVE Serves(g, use, s) /\ g.hdr[s].bitmap # {}
      <3>1. j # 0
        <4>1. ASSUME NEW i \in ListNo \ {0}, s \in c2[i]  PROVE i = j
          <5>1. s \notin c[i]  BY <1>1 DEF OnCache
          <5> QED  BY <1>6, <4>1, <5>1
        <4>2. \E i \in ListNo \ {0} : s \in c2[i]  BY <1>1, <2>1 DEF Reached, Free
        <4> QED  BY <4>1, <4>2
      <3> QED  BY <1>7, <3>1 DEF Serves, use
    <2>2. ASSUME NEW b \in use, b.span = s  PROVE BlockGood(g, K[t], use, b)
      <3>1. BlockGood(h, K[t], use, b)
        BY <1>4, <2>2 DEF ThreadGood, BlocksGood, BlockGood, use
      <3> QED  BY <1>7, <3>1 DEF BlockGood, LargeGood, SmallGood, Serves
    <2>3. s \in c2[0] => Mates(use, s) = {}
      <3>1. ASSUME s \in c2[0]  PROVE j = 0
        <4>1. s \notin c[0]  BY <1>1, ListNumbers DEF OnCache
        <4> QED  BY <1>6, <3>1, <4>1, ListNumbers
      <3> QED  BY <3>1 DEF use
    <2> QED  BY <1>1, <2>1, <2>2, <2>3 DEF Settled
  <1>11. CallGood(g, K[t], c2, f[t], l[t], bl[t])
    <2>1. CallGood(h, K[t], c, f[t], l[t], bl[t])  BY <1>4 DEF ThreadGood
    <2> QED  BY <2>1, FreeCall
  <1>12. Only(t, f, f) /\ Only(t, l, l) /\ Only(t, bl, bl)  BY DEF Only
  <1>13. Recalls(Y, K[t], c2, f[t], l[t], use)
    <2>1. Recalls(Y, K[t], c, f[t], l[t], use)  BY DEF HeapGood, use
    <2>2. \A i \in ListNo : c[i] \subseteq c2[i]  BY <1>6
    <2>3. \A x : OnCache(c, x) => OnCache(c2, x)  BY <2>2 DEF OnCache
    <2> QED  BY <2>1, <2>3 DEF Recalls, KeptAt
  <1> DEFINE C2 == [C EXCEPT ![t] = c2]
  <1>14. HeapGood(Y, g, K, C2, f, l, bl) /\ Untouched(h, g, t, l, bl)
    <2> HIDE DEF Y
    <2>1. HeapGood(Y, h, K, C, f, l, bl)  BY DEF Y
    <2> QED  BY <1>2, <1>3, <1>8, <1>9, <1>10, <1>11, <1>12, <1>13, <2>1, LocalElse DEF use
  <1>15. C2[t] = c2  BY DEF HeapGood
  <1>16. KeptAt(C2[t], f[t], l[t], Blocks(l[t], bl[t]), s)
    <2>1. OnCache(c2, s)  BY <1>6 DEF OnCache
    <2> QED  BY <1>15, <2>1 DEF KeptAt, Free
  <1> HIDE DEF C2
  <1>17. HeapGood(X, g, K, C2, f, l, bl)  BY <1>14, <1>16, RegainedOne
  <1> QED  BY <1>3, <1>14, <1>17 DEF c2, C2

\* A small span that has been initialised has all its blocks to give.
LEMMA Fresh ==
  ASSUME NEW v \in HeaderType, NEW i \in Class
  PROVE  LET n == Initialised(v, i, i)
         IN  /\ HeaderGood(n) /\ n.category = i /\ n.cur_pos = 0 /\ n.bitmap # {}
             /\ n.bitmap = 1..TotalBlocks(i) /\ n.free_block_num = TotalBlocks(i)
  <1> DEFINE n == Initialised(v, i, i)
  <1>1. /\ i \in 0..LARGE - 1 /\ i # LARGE /\ TotalBlocks(i) \in 1..PageUnits
        /\ LARGE \in Nat /\ PageUnits \in Nat
    BY ClassBlocks, Sizes
  <1>2. i \in 0..LARGE  BY <1>1
  <1>3. n.category = i  BY <1>1, <1>2, InitialisedHeader
  <1>4. n.bitmap = 1..TotalBlocks(i) /\ n.free_block_num = TotalBlocks(i) /\ n.cur_pos = 0
    BY <1>1, <1>2, InitialisedBlocks
  <1> HIDE DEF n
  <1>5. HeaderGood(n) /\ n.bitmap # {}  BY <1>1, <1>3, <1>4 DEF HeaderGood
  <1> QED  BY <1>3, <1>4, <1>5 DEF n

\* Span s is a page of the thread that nothing refers to, ...
Unused(k, c, f, use, s) ==
  One(s) \in k /\ Off(c, f, s) /\ Mates(use, s) = {}

\* ... and initialised for class i.
Ready(h, use, s, i) == h.hdr[s].category = i /\ Serves(h, use, s) /\ h.hdr[s].bitmap # {}

\* span_init of an unused page makes it ready for its class.
LEMMA InitHeap ==
  ASSUME NEW X, NEW h, NEW K, NEW C, NEW f, NEW l, NEW bl, HeapGood(X, h, K, C, f, l, bl),
         NEW t \in Thread, Free(l[t]), NEW s,
         Unused(K[t], C[t], f[t], Blocks(l[t], bl[t]), s),
         NEW i \in Class, NEW g, g = span_init(h, s, i, i)
  PROVE  /\ HeapGood(X, g, K, C, f, l, bl) /\ Untouched(h, g, t, l, bl)
         /\ Ready(g, Blocks(l[t], bl[t]), s, i)
  <1> DEFINE c   == C[t]
             use == Blocks(l[t], bl[t])
             e   == One(s)
  <1>1. PICK S, L : Base(X, h, K, C, S, L, t, C[t])  BY BaseOf
  <1>2. /\ c \in Caches /\ ThreadGood(h, t, K[t], c, f[t], l[t], bl[t]) /\ HeadersGood(h)
        /\ K[t] \in SUBSET Piece /\ h \in HeapType(Lowest) /\ [C EXCEPT ![t] = C[t]] = C
    BY <1>1 DEF Base, HeapGood, Pool
  <1>3. e \in K[t] /\ e.at = s /\ s \in Spans /\ ~OnCache(c, s)
    <2>1. One(s).at = s  BY DEF One
    <2> QED  BY <1>2, <2>1 DEF Piece, Unused, Off
  <1> HIDE DEF e
  <1>4. i \in 0..LARGE /\ (i = LARGE => i < LARGE) /\ TotalBlocks(i) \in 1..PageUnits
        /\ i # LARGE
    <2>1. i \in 0..LARGE - 1 /\ i # LARGE /\ TotalBlocks(i) \in 1..PageUnits /\ LARGE \in Nat
      BY ClassBlocks, Sizes
    <2> QED  BY <2>1
  <1>5. /\ Base(X, g, K, C, S, L, t, c) /\ Local(h, g, t, K[t], S, C)
        /\ Renewed(h, g, s, Initialised(h.hdr[s], i, i))
    BY ZenonT(60), <1>1, <1>3, <1>4, InitStep
  <1>6. /\ HeaderGood(g.hdr[s]) /\ g.hdr[s].category = i /\ g.hdr[s].cur_pos = 0
        /\ g.hdr[s].bitmap # {} /\ g.hdr[s].bitmap = 1..TotalBlocks(i)
        /\ g.hdr[s].free_block_num = TotalBlocks(i)
    <2>1. h.hdr[s] \in HeaderType  BY <1>2, <1>3 DEF HeapType
    <2> QED  BY <1>5, <2>1, Fresh DEF Renewed
  <1>7. Alters(h, g, s) /\ g.entry[s - 1] = s  BY <1>5 DEF Renewed, Alters
  <1> HIDE DEF use
  <1>8. Mates(use, s) = {} /\ \A j \in Class : f[t][j] # s  BY DEF Unused, Off, use
  <1>9. Serves(g, use, s)
    <2>1. Cardinality(1..TotalBlocks(i)) = TotalBlocks(i)
      <3>1. PICK m \in Nat : m = TotalBlocks(i)  BY <1>4, Sizes
      <3>2. Cardinality(1..m) = IF 1 > m THEN 0 ELSE m - 1 + 1
        <4>1. 1 \in Int /\ m \in Int  OBVIOUS
        <4> QED  BY <4>1, FS_Interval, Zenon
      <3> QED  BY <3>1, <3>2
    <2>2. {b.pos : b \in Mates(use, s)} = {}  BY <1>8
    <2> QED  BY <1>6, <1>7, <2>1, <2>2 DEF Serves
  <1>10. Beyond(c, f[t], l[t], use, c, f[t], l[t], use, s)  BY DEF Beyond
  <1>11. Settled(g, K[t], c, f[t], l[t], use, s)
    <2>1. \A b \in use : b.span # s  BY <1>8 DEF Mates
    <2> QED  BY <1>6, <1>8, <1>9, <2>1 DEF Settled
  <1>12. CallGood(g, K[t], c, f[t], l[t], bl[t])
    <2>1. CallGood(h, K[t], c, f[t], l[t], bl[t])  BY <1>2 DEF ThreadGood
    <2> QED  BY <2>1, FreeCall
  <1>13. Only(t, f, f) /\ Only(t, l, l) /\ Only(t, bl, bl)  BY DEF Only
  <1>14. Recalls(X, K[t], c, f[t], l[t], use)  BY DEF HeapGood, use
  <1>15. HeapGood(X, g, K, [C EXCEPT ![t] = c], f, l, bl) /\ Untouched(h, g, t, l, bl)
    BY <1>1, <1>5, <1>6, <1>7, <1>10, <1>11, <1>12, <1>13, <1>14, LocalElse DEF use
  <1>16. HeapGood(X, g, K, C, f, l, bl)  BY <1>2, <1>15
  <1> QED  BY <1>6, <1>9, <1>15, <1>16 DEF Ready, use

\* A span stays ready for a call when links change.
LEMMA ReadyLinks ==
  ASSUME NEW h, NEW g, SameButLinks(h, g), NEW use, NEW s, NEW i, Ready(h, use, s, i)
  PROVE  Ready(g, use, s, i)
  BY DEF SameButLinks, Ready, Serves

\* Thread t leaves the locks alone or frees one it holds.
Unlocks(t) == UNCHANGED owner \/ \E a \in Area : owner[a] = t /\ owner' = Unlock(a)

\* The call of thread t goes to the clock with span s.
Picks(t, s) == Goto(t, [th[t] EXCEPT !.pc = "clock", !.span = s])

\* A call goes to the clock with a span of its thread that is ready for it.
LEMMA ChooseStep ==
  ASSUME NEW X, Good(X), NEW t \in Thread, NEW K, NEW C, NEW s,
         HeapGood(X \ {s}, heap', K, C, foreground, th, live),
         Untouched(heap, heap', t, th, live), th[t].pc \in {"acquire", "fill"},
         th[t].class \in Class, One(s) \in K[t], ~OnCache(C[t], s),
         Ready(heap', Blocks(th[t], live[t]), s, th[t].class),
         Picks(t, s),
         UNCHANGED <<foreground, live, calls, strayed>>,
         threshold' \in Thresholds,
         Unlocks(t)
  PROVE  After(X, t)
  <1> DEFINE r == [th[t] EXCEPT !.pc = "clock", !.span = s]
  <1>1. /\ th[t] \in CallType /\ th \in [Thread -> CallType] /\ LocksGood /\ StateType
    BY CallOf DEF Good
  <1>2. s \in Spans
    <2>1. One(s).at = s /\ K[t] \in SUBSET Piece  BY DEF One, HeapGood
    <2> QED  BY <2>1 DEF Piece
  <1>3. /\ r.pc = "clock" /\ r.span = s /\ r.class = th[t].class /\ r.nvm_index = th[t].nvm_index
        /\ r.addr = th[t].addr /\ r.order = th[t].order /\ r.pages = th[t].pages
    BY <1>1 DEF CallType
  <1>4. r \in CallType
    <2>1. "clock" \in PCs  BY DEF PCs
    <2> QED  BY <1>1, <1>2, <2>1 DEF CallType
  <1> HIDE DEF r
  <1>5. th'[t] = r /\ Only(t, th, th') /\ th' \in [Thread -> CallType]
    BY <1>1, <1>4, GotoEffect DEF r, Picks
  <1>6. ThreadGood(heap', t, K[t], C[t], foreground[t], r, live[t])
    <2>1. ThreadGood(heap', t, K[t], C[t], foreground[t], th[t], live[t])  BY DEF HeapGood
    <2>2. /\ heap'.hdr[s].category = th[t].class /\ heap'.hdr[s].bitmap # {}
          /\ Serves(heap', Blocks(th[t], live[t]), s)
      BY DEF Ready
    <2> QED  BY <1>3, <2>1, <2>2, Chosen
  <1>7. HeapGood(X, heap', K, C, foreground, th', live)
    <2> DEFINE Y == X \ {s}
    <2>1. Only(t, live, live)  BY DEF Only
    <2>2. Recalls(Y, K[t], C[t], foreground[t], th'[t], Blocks(th'[t], live[t]))
      <3>1. Recalls(Y, K[t], C[t], foreground[t], th[t], Blocks(th[t], live[t]))
        BY DEF HeapGood
      <3>2. Stays(Y, th[t], th'[t])  BY <1>3, <1>5 DEF Stays, GivingUp
      <3>3. Blocks(th'[t], live[t]) = Blocks(th[t], live[t])  BY <1>3, <1>5 DEF Blocks
      <3> HIDE DEF Y
      <3> QED  BY <3>1, <3>2, <3>3, Staying
    <2>3. HeapGood(Y, heap', K, C, foreground, th', live)
      <3> HIDE DEF Y
      <3>1. HeapGood(Y, heap', K, C, foreground, th, live)  BY DEF Y
      <3> QED  BY <1>5, <1>6, <2>1, <2>2, <3>1, SameHeap
    <2>4. KeptAt(C[t], foreground[t], th'[t], Blocks(th'[t], live[t]), s)
      BY <1>3, <1>5 DEF KeptAt
    <2> QED  BY <2>3, <2>4, RegainedOne
  <1>8. HeapGood(X, heap', K, C, foreground', th', live')  BY <1>7
  <1>9. LocksGood'
    <2>1. th'[t].pc \notin {"fill", "accounting", "giving"}  BY <1>3, <1>5
    <2>2. CASE UNCHANGED owner  BY <1>1, <1>5, <2>1, <2>2, LocksKept
    <2>3. CASE \E a \in Area : owner[a] = t /\ owner' = Unlock(a)
      BY <1>1, <1>5, <2>1, <2>3, LocksFreed
    <2> QED  BY <2>2, <2>3 DEF Unlocks
  <1>10. StateType'  BY <1>1, <1>5 DEF StateType
  <1> QED  BY <1>8, <1>9, <1>10, AfterOf

\* acquire_span_from_localcache: whichever span of the cache the call takes,
\* it is off its list and has a free block of the class.
LEMMA AcquireLocalGood ==
  ASSUME NEW X, Good(X), NEW t \in Thread, AcquireLocal(t)
  PROVE  After(X, t)
  <1> DEFINE i    == th[t].class
             bg   == Background(t, i)
             free == FreeSpans(t)
             use  == Blocks(th[t], live[t])
  <1>1. /\ th[t].pc = "acquire"
        /\ UNCHANGED <<foreground, threshold, owner, live, calls, strayed>>
    BY DEF AcquireLocal, At
  <1>2. /\ th[t] \in CallType /\ th \in [Thread -> CallType] /\ StateType
        /\ threshold \in Thresholds
    BY CallOf DEF Good, StateType
  <1>3. PICK K, C : HeapGood(X, heap, K, C, foreground, th, live)  BY DEF Good
  <1>4. /\ ThreadGood(heap, t, K[t], C[t], foreground[t], th[t], live[t])
        /\ C \in [Thread -> Caches] /\ C[t] \in Caches
        /\ CallGood(heap, K[t], C[t], foreground[t], th[t], live[t])
        /\ ListsGood(heap, t, K[t], C[t]) /\ SpareGood(C[t], use)
        /\ ForegroundGood(heap, K[t], C[t], foreground[t])
        /\ ReachedGood(heap, C[t], foreground[t], th[t], use)
    BY <1>3 DEF HeapGood, ThreadGood
  <1>5. i \in Class /\ i \in 0..PageUnits - 1 /\ th[t].nvm_index \in 1..AREA_NUM
        /\ th[t].addr = <<>>
    <2>1. i # -1 /\ th[t].nvm_index \in 1..AREA_NUM /\ th[t].addr = <<>>
      BY <1>1, <1>4 DEF CallGood, Searching, Answering
    <2> QED  BY <1>2, <2>1, ClassBlocks DEF CallType
  <1>6. /\ bg = HeadOf(t, BackNo(i)) /\ free = HeadOf(t, 0)
        /\ BackNo(i) \in ListNo /\ BackNo(i) # 0 /\ 0 \in ListNo
    BY <1>5, ListNumbers
  <1>7. /\ Free(th[t]) /\ th[t].pc \in {"acquire", "fill"}
        /\ UNCHANGED <<foreground, live, calls, strayed>>
        /\ threshold' \in Thresholds
        /\ Unlocks(t)
    BY <1>1, <1>2 DEF Free, GivingUp, Unlocks
  <1> HIDE DEF i, bg, free, use
  <1>8. CASE foreground[t][i] # NULL /\ Picks(t, foreground[t][i]) /\ UNCHANGED heap
    <2>1. PICK s : s = foreground[t][i]  OBVIOUS
    <2>2. /\ One(s) \in K[t] /\ ~OnCache(C[t], s) /\ heap.hdr[s].category = i
      BY <1>4, <1>5, <1>8, <2>1 DEF ForegroundGood
    <2>3. Reached(C[t], foreground[t], th[t], s)  BY <1>5, <1>8, <2>1 DEF Reached
    <2>4. Ready(heap, use, s, i)  BY <1>4, <2>2, <2>3 DEF ReachedGood, Ready
    <2>5. Untouched(heap, heap', t, th, live)  BY <1>8 DEF Untouched
    <2>6. HeapGood(X \ {s}, heap', K, C, foreground, th, live) /\ Ready(heap', use, s, i)
      BY <1>3, <1>8, <2>4, Narrowed
    <2>7. Picks(t, s)  BY <1>8, <2>1
    <2> QED  BY <1>5, <1>7, <2>2, <2>5, <2>6, <2>7, ChooseStep DEF i, use
  <1>9. CASE /\ ~list_empty(heap, bg) /\ Picks(t, heap.next[bg])
             /\ heap' = list_del(heap, heap.next[bg])
    <2>1. PICK s, j : s = heap.next[bg] /\ j = BackNo(i)  OBVIOUS
    <2>2. s \in C[t][j]
      <3>1. Ring(heap, bg, C[t][j])  BY <1>4, <1>6, <2>1 DEF ListsGood
      <3> QED  BY <1>9, <2>1, <3>1, RingEmpty
    <2>3. /\ HeapGood(X \ {s}, heap', K, [C EXCEPT ![t] = Less(C[t], j, s)], foreground, th, live)
          /\ Untouched(heap, heap', t, th, live) /\ SameButLinks(heap, heap')
          /\ One(s) \in K[t] /\ Off(Less(C[t], j, s), foreground[t], s)
      BY <1>3, <1>6, <1>7, <1>9, <2>1, <2>2, TakeHeap
    <2>4. Reached(C[t], foreground[t], th[t], s)  BY <1>6, <2>1, <2>2 DEF Reached
    <2>5. heap.hdr[s].category = i  BY <1>4, <1>5, <2>1, <2>2 DEF ListsGood
    <2>6. Ready(heap', use, s, i)
      <3>1. Ready(heap, use, s, i)  BY <1>4, <2>4, <2>5 DEF ReachedGood, Ready
      <3> QED  BY <2>3, <3>1, ReadyLinks
    <2>7. Picks(t, s)  BY <1>9, <2>1
    <2> DEFINE C2 == [C EXCEPT ![t] = Less(C[t], j, s)]
    <2>8. ~OnCache(C2[t], s)  BY <1>4, <2>3 DEF Off
    <2>9. HeapGood(X \ {s}, heap', K, C2, foreground, th, live)  BY <2>3
    <2> HIDE DEF C2
    <2> QED  BY <1>5, <1>7, <2>3, <2>6, <2>7, <2>8, <2>9, ChooseStep DEF i, use
  <1>10. CASE /\ ~list_empty(heap, free) /\ Picks(t, heap.next[free])
              /\ heap' = span_init(list_del(heap, heap.next[free]), heap.next[free], i, i)
    <2>1. PICK s : s = heap.next[free]  OBVIOUS
    <2> DEFINE C2 == [C EXCEPT ![t] = Less(C[t], 0, s)]
               g  == list_del(heap, s)
    <2>2. s \in C[t][0]
      <3>1. Ring(heap, free, C[t][0])  BY <1>4, <1>6 DEF ListsGood
      <3> QED  BY <1>10, <2>1, <3>1, RingEmpty
    <2>3. C2[t] = Less(C[t], 0, s)  BY <1>4
    <2>4. heap' = span_init(g, s, i, i) /\ Picks(t, s)  BY <1>10, <2>1
    <2> HIDE DEF g
    <2>5. /\ HeapGood(X \ {s}, g, K, C2, foreground, th, live)
          /\ Untouched(heap, g, t, th, live)
          /\ One(s) \in K[t] /\ Off(Less(C[t], 0, s), foreground[t], s)
      BY <1>3, <1>6, <1>7, <2>2, TakeHeap DEF g
    <2> HIDE DEF C2
    <2>6. Unused(K[t], C2[t], foreground[t], use, s)
      <3>1. Mates(use, s) = {}  BY <1>4, <2>2 DEF SpareGood
      <3> QED  BY <2>3, <2>5, <3>1 DEF Unused
    <2>7. /\ HeapGood(X \ {s}, heap', K, C2, foreground, th, live) /\ Untouched(g, heap', t, th, live)
          /\ Ready(heap', use, s, i)
      BY <1>5, <1>7, <2>4, <2>5, <2>6, InitHeap DEF use
    <2>8. Untouched(heap, heap', t, th, live)  BY <2>5, <2>7, UntouchedTwice
    <2>9. ~OnCache(C2[t], s)  BY <2>3, <2>5 DEF Off
    <2> QED  BY <1>5, <1>7, <2>4, <2>5, <2>7, <2>8, <2>9, ChooseStep DEF i, use
  <1>11. CASE Goto(t, [th[t] EXCEPT !.pc = "select"]) /\ UNCHANGED heap
    <2> DEFINE r == [th[t] EXCEPT !.pc = "select"]
    <2>1. /\ r.pc = "select" /\ r.class = th[t].class /\ r.nvm_index = th[t].nvm_index
          /\ r.addr = th[t].addr
      BY <1>2 DEF CallType
    <2>2. r \in CallType
      <3>1. "select" \in PCs  BY DEF PCs
      <3> QED  BY <1>2, <3>1 DEF CallType
    <2> HIDE DEF r
    <2>3. r.class # -1  BY <1>5, <2>1, ClassBlocks DEF i
    <2>4. \A x, y : CallGood(heap, x, y, foreground[t], r, live[t])
      BY <1>5, <2>1, <2>3, Searches
    <2>5. calls' \in [Thread -> 0..MaxCalls]  BY <1>1, <1>2 DEF StateType
    <2>6. Stays(X, th[t], r)  BY <1>1, <2>1 DEF Stays, GivingUp
    <2> QED  BY <1>1, <1>11, <2>1, <2>2, <2>4, <2>5, <2>6, QuietStep DEF r
  <1> QED  BY <1>8, <1>9, <1>10, <1>11 DEF AcquireLocal, Picks, i, bg, free

-----------------------------------------------------------------------------
\* Nobody holds a piece that starts at s.
Unheld(K, s) == \A u \in Thread : \A d \in K[u] : d.at # s

\* acquire_span by thread t: it gains a piece that nobody holds, and nobody
\* sees a change.
LEMMA AcquireHeap ==
  ASSUME NEW X, NEW h, NEW K, NEW C, NEW f, NEW l, NEW bl, HeapGood(X, h, K, C, f, l, bl),
         NEW t \in Thread, NEW a \in Area, NEW index \in 0..LARGE - 1, CanAcquire(h, a, index),
         NEW r, r = acquire_span(h, a, index), NEW g, g = r.heap,
         NEW e, e = [at |-> r.span, pages |-> index + 1]
  PROVE  /\ HeapGood(X \ PagesOf(e), g, [K EXCEPT ![t] = K[t] \cup {e}], C, f, l, bl)
         /\ Untouched(h, g, t, l, bl) /\ Spared(h, g, t, K[t], C[t])
         /\ e \in Piece /\ Unheld(K, e.at)
         /\ g.max_wc = h.max_wc /\ g.hdr[r.span].wear_count <= h.max_wc[a]
  <1> DEFINE H == Held(K)
             Y == X \ PagesOf(e)
  <1>1. PICK S, L : Pool(Lowest, h, S, H, L) /\ InReach(X, h, L)  BY DEF HeapGood
  <1>2. /\ K \in [Thread -> SUBSET Piece] /\ C \in [Thread -> Caches] /\ HeadersGood(h)
        /\ \A u, v \in Thread : u # v => K[u] \cap K[v] = {}
        /\ \A u \in Thread : ThreadGood(h, u, K[u], C[u], f[u], l[u], bl[u])
        /\ Recalls(X, K[t], C[t], f[t], l[t], Blocks(l[t], bl[t]))
    BY DEF HeapGood
  <1>3. \A u \in Thread : K[u] \subseteq H  BY DEF Held
  <1> HIDE DEF H
  <1>4. Acquired(Lowest, h, r, a, e, H, L)  BY <1>1, LowestNodes, AcquirePool
  <1>5. PICK R, M : Pool(Lowest, g, R, H \cup {e}, M) /\ InReach(Y, g, M)
    <2>1. PICK R, M : /\ Pool(Lowest, g, R, H \cup {e}, M)
                      /\ Retained(h.free_start, L) \subseteq Retained(g.free_start, M)
      BY <1>4 DEF Acquired
    <2>2. InReach(Y, g, M)  BY <1>1, <2>1 DEF InReach
    <2> QED  BY <2>1, <2>2
  <1>6. e \in Piece /\ e \notin H /\ Taken(h, g, H, a, e.at) /\ Outside(Lowest, h, g, H)
    BY <1>4 DEF Acquired
  <1>7. \A d \in H : d.at # e.at
    <2>1. \A d \in H \cup {e} : d.at = e.at => d = e  BY <1>5, HeldPiece
    <2> QED  BY <1>6, <2>1
  <1>8. ASSUME NEW u \in Thread  PROVE Spared(h, g, u, K[u], C[u])
    <2>1. ASSUME NEW d \in K[u]
          PROVE  /\ g.hdr[d.at] = h.hdr[d.at]
                 /\ h.entry[d.at - 1] = d.at => g.entry[d.at - 1] = d.at
      <3>1. d \in H /\ d.at \in Spans  BY <1>2, <1>3 DEF Piece
      <3>2. d.at - 1 \in MapEntries /\ (d.at - 1) + 1 = d.at  BY <3>1, Sizes DEF Spans, MapEntries
      <3> QED  BY <1>6, <3>1, <3>2 DEF Taken
    <2>2. ASSUME NEW n \in Own(u, C[u])  PROVE g.next[n] = h.next[n] /\ g.prev[n] = h.prev[n]
      <3>1. CASE \E j \in ListNo : n = HeadOf(u, j)
        <4>1. n \in Node(Lowest) /\ n \notin FreeLists \cup Spans  BY <3>1, CacheHead
        <4> QED  BY <1>6, <4>1 DEF Outside
      <3>2. CASE \E j \in ListNo : n \in C[u][j]
        <4>1. n \in Spans /\ One(n) \in K[u]
          BY <1>2, <3>2 DEF ThreadGood, ListsGood, Caches
        <4>2. n \in Node(Lowest)  BY <4>1, LowestNodes, NodesIn
        <4>3. One(n) \in H /\ n = One(n).at  BY <1>3, <4>1 DEF One
        <4> QED  BY <1>6, <4>2, <4>3 DEF Outside
      <3> QED  BY <3>1, <3>2 DEF Own
    <2> QED  BY SMTT(30), <2>1, <2>2 DEF Spared
  <1>9. HeadersGood(g)
    <2>1. \A s \in Spans : /\ g.hdr[s].category \in {h.hdr[s].category, LARGE}
                           /\ g.hdr[s].bitmap = h.hdr[s].bitmap
                           /\ g.hdr[s].free_block_num = h.hdr[s].free_block_num
      BY <1>6 DEF Taken
    <2> QED  BY SMTT(30), <1>2, <2>1 DEF HeadersGood, HeaderGood
  <1> DEFINE k2 == K[t] \cup {e}
  <1>10. ThreadGood(g, t, k2, C[t], f[t], l[t], bl[t])
    <2>1. ThreadGood(g, t, K[t], C[t], f[t], l[t], bl[t])  BY <1>2, <1>8, SparedThread
    <2> QED  BY <2>1, MorePieces
  <1>11. k2 \in SUBSET Piece /\ \A u \in Thread \ {t} : k2 \cap K[u] = {}
    BY <1>2, <1>3, <1>6
  <1>12. \E Q, N : Pool(Lowest, g, Q, k2 \cup Elses(K, t), N) /\ InReach(Y, g, N)
    <2>1. H = K[t] \cup Elses(K, t)  BY <1>2, HeldWith DEF H
    <2>2. H \cup {e} = k2 \cup Elses(K, t)  BY <2>1
    <2> QED  BY <1>5, <2>2
  <1>13. C[t] \in Caches /\ Only(t, f, f) /\ Only(t, l, l) /\ Only(t, bl, bl)
    BY <1>2 DEF Only
  <1>14. Recalls(Y, k2, C[t], f[t], l[t], Blocks(l[t], bl[t]))  BY <1>2 DEF Recalls
  <1>15. HeapGood(Y, h, K, C, f, l, bl)  BY Narrowed
  <1> HIDE DEF k2, Y
  <1>16. /\ HeapGood(Y, g, [K EXCEPT ![t] = k2], [C EXCEPT ![t] = C[t]], f, l, bl)
         /\ Untouched(h, g, t, l, bl)
    BY <1>8, <1>9, <1>10, <1>11, <1>12, <1>13, <1>14, <1>15, OneThread
  <1>17. [C EXCEPT ![t] = C[t]] = C  BY <1>2
  <1>18. g.max_wc = h.max_wc /\ g.hdr[r.span].wear_count <= h.max_wc[a]  BY <1>6 DEF Taken
  <1> QED  BY <1>3, <1>6, <1>7, <1>8, <1>16, <1>17, <1>18 DEF k2, Y, Unheld

\* Of the cache c, the foreground f and the blocks, none refers to span s.
Clear(c, f, use, s) == Off(c, f, s) /\ Mates(use, s) = {}
NoneAt(k, s)        == \A d \in k : d.at # s

\* What a thread has in its cache or in use starts with a piece of its own.
LEMMA NotReferred ==
  ASSUME NEW h, NEW t, NEW k, NEW c, NEW f, NEW l, NEW bl,
         ThreadGood(h, t, k, c, f, l, bl), NEW s \in Spans, NoneAt(k, s)
  PROVE  Clear(c, f, Blocks(l, bl), s)
  <1>1. \A d \in k : d.at # s  BY DEF NoneAt
  <1>2. One(s) \notin k
    <2>1. One(s).at = s  BY DEF One
    <2> QED  BY <1>1, <2>1
  <1>3. ~OnCache(c, s)  BY <1>2 DEF ThreadGood, ListsGood, OnCache
  <1>4. \A i \in Class : f[i] # s
    <2>1. s # NULL  BY LowestNodes, NodesIn
    <2> QED  BY <1>2, <2>1 DEF ThreadGood, ForegroundGood
  <1>5. ASSUME NEW b \in Blocks(l, bl), b.span = s  PROVE FALSE
    <2>1. [at |-> s, pages |-> b.size].at = s  OBVIOUS
    <2>2. [at |-> s, pages |-> b.size] \notin k  BY <1>1, <2>1
    <2>3. CASE b.pos = 0
      <3>1. LargeGood(h, k, b)  BY <2>3 DEF ThreadGood, BlocksGood
      <3> QED  BY <1>5, <2>2, <3>1 DEF LargeGood
    <2>4. CASE b.pos # 0
      <3>1. SmallGood(h, k, Blocks(l, bl), b)  BY <2>4 DEF ThreadGood, BlocksGood
      <3> QED  BY <1>2, <1>5, <3>1 DEF SmallGood
    <2> QED  BY <2>3, <2>4
  <1> QED  BY <1>3, <1>4, <1>5 DEF Mates, Off, Clear

\* A fill of the cache of thread t has come from heap h to g: nothing refers to
\* the span s of its first page, which is ready for the call.
Filling(X, h, g, K, C, f, l, bl, t, s) ==
  /\ HeapGood(X, g, K, C, f, l, bl) /\ Untouched(h, g, t, l, bl)
  /\ Unused(K[t], C[t], f[t], Blocks(l[t], bl[t]), s)
  /\ Ready(g, Blocks(l[t], bl[t]), s, l[t].class)

\* One page more for the spare pages.
LEMMA BatchStep ==
  ASSUME NEW X, NEW h, NEW g, NEW K, NEW C, NEW f, NEW l, NEW bl, NEW t \in Thread, NEW s,
         Filling(X, h, g, K, C, f, l, bl, t, s), Free(l[t]),
         NEW a \in Area, CanAcquire(g, a, 0), NEW r, r = acquire_span(g, a, 0),
         NEW d, d = list_add_tail(r.heap, r.span, FreeSpans(t))
  PROVE  /\ \E K2, C2 : Filling(X, h, d, K2, C2, f, l, bl, t, s)
         /\ r.heap.hdr[r.span].wear_count \in Nat
         /\ d.max_wc = g.max_wc /\ r.heap.hdr[r.span].wear_count <= g.max_wc[a]
  <1>1. PICK p, q : p = r.span /\ q = r.heap  OBVIOUS
  <1> DEFINE e   == [at |-> p, pages |-> 1]
             K2  == [K EXCEPT ![t] = K[t] \cup {e}]
             C2  == [C EXCEPT ![t] = With(C[t], 0, p)]
             use == Blocks(l[t], bl[t])
  <1>2. /\ K \in [Thread -> SUBSET Piece] /\ C \in [Thread -> Caches] /\ C[t] \in Caches
        /\ ThreadGood(g, t, K[t], C[t], f[t], l[t], bl[t])
        /\ HeapGood(X, g, K, C, f, l, bl) /\ Untouched(h, g, t, l, bl)
        /\ Unused(K[t], C[t], f[t], use, s) /\ Ready(g, use, s, l[t].class)
    BY DEF Filling, HeapGood
  <1>3. PICK n \in 0..LARGE - 1 : n = 0 /\ e = [at |-> p, pages |-> n + 1]
    BY Sizes
  <1>4. /\ HeapGood(X \ PagesOf(e), q, K2, C, f, l, bl) /\ Untouched(g, q, t, l, bl)
        /\ Spared(g, q, t, K[t], C[t])
        /\ e \in Piece /\ Unheld(K, e.at)
        /\ q.max_wc = g.max_wc /\ q.hdr[p].wear_count <= g.max_wc[a]
    <2> HIDE DEF e
    <2>1. CanAcquire(g, a, n) /\ r = acquire_span(g, a, n)  BY <1>3
    <2>2. e = [at |-> r.span, pages |-> n + 1]  BY <1>1, <1>3
    <2>3. HeapGood(X, g, K, C, f, l, bl)  BY <1>2
    <2>4. q = r.heap /\ p = r.span  BY <1>1
    <2> HIDE DEF C2, use, K2
    <2>5. HeapGood(X \ PagesOf(e), r.heap, [K EXCEPT ![t] = K[t] \cup {e}], C, f, l, bl)
      BY <2>1, <2>2, <2>3, AcquireHeap
    <2>6. Untouched(g, r.heap, t, l, bl) /\ Spared(g, r.heap, t, K[t], C[t])
      BY <2>1, <2>2, <2>3, <2>5, AcquireHeap
    <2>7. e \in Piece /\ Unheld(K, e.at)  BY <2>1, <2>2, <2>3, <2>5, AcquireHeap
    <2>8. r.heap.max_wc = g.max_wc /\ r.heap.hdr[r.span].wear_count <= g.max_wc[a]
      BY <2>1, <2>2, <2>3, <2>5, AcquireHeap
    <2> QED  BY <2>4, <2>5, <2>6, <2>7, <2>8 DEF K2
  <1>5. e.at = p /\ e = One(p) /\ p \in Spans /\ PagesOf(e) = {p}
    <2>1. e.at = p /\ e.pages = 1 /\ e = One(p) /\ p \in Spans  BY <1>4 DEF One, Piece
    <2>2. p \in Nat  BY <2>1, Sizes DEF Spans
    <2> HIDE DEF e
    <2> QED  BY <2>1, <2>2 DEF PagesOf, ExtentOf
  <1> HIDE DEF e, use
  <1>6. K2[t] = K[t] \cup {e}  BY <1>2
  <1>7. Off(C[t], f[t], p) /\ Mates(use, p) = {}
    <2>1. NoneAt(K[t], p)  BY <1>4, <1>5 DEF Unheld, NoneAt
    <2>2. Clear(C[t], f[t], Blocks(l[t], bl[t]), p)  BY <1>2, <1>5, <2>1, NotReferred
    <2> QED  BY <2>2 DEF Clear, use
  <1>8. s # p
    <2>1. One(s) \in K[t] /\ One(s).at = s  BY <1>2 DEF Unused, One
    <2> QED  BY <1>4, <1>5, <2>1 DEF Unheld
  <1> HIDE DEF K2, C2
  <1>9. /\ HeapGood(X, d, K2, C2, f, l, bl) /\ Untouched(q, d, t, l, bl) /\ SameButLinks(q, d)
    <2>1. PICK j \in ListNo : j = 0  BY ListNumbers
    <2>2. d = list_add_tail(q, p, HeadOf(t, j))  BY <2>1, <1>1, ListNumbers
    <2>3. Suits(q, j, p)  BY <2>1, ListNumbers DEF Suits
    <2>4. One(p) \in K2[t]  BY <1>5, <1>6
    <2>5. C2 = [C EXCEPT ![t] = With(C[t], j, p)]  BY <2>1 DEF C2
    <2>6. j = 0 => Mates(use, p) = {}  BY <1>7
    <2>7. j # 0 => Serves(q, use, p) /\ q.hdr[p].bitmap # {}  BY <2>1
    <2>8. HeapGood(X \ {p}, q, K2, C, f, l, bl)  BY <1>4, <1>5
    <2> QED  BY <1>7, <2>2, <2>3, <2>4, <2>5, <2>6, <2>7, <2>8, PutHeap DEF use
  <1>10. Untouched(h, d, t, l, bl)  BY <1>2, <1>4, <1>9, UntouchedTwice
  <1>11. Unused(K2[t], C2[t], f[t], use, s)
    <2>1. C2[t] = With(C[t], 0, p)  BY <1>2 DEF C2
    <2>2. ~OnCache(With(C[t], 0, p), s)
      BY <1>2, <1>8, ListNumbers DEF Unused, Off, OnCache, With, Caches
    <2> QED  BY <1>2, <1>6, <2>1, <2>2 DEF Unused, Off
  <1>12. Ready(d, use, s, l[t].class)
    <2>1. One(s) \in K[t] /\ One(s).at = s  BY <1>2 DEF Unused, One
    <2>2. q.hdr[s] = g.hdr[s] /\ (g.entry[s - 1] = s => q.entry[s - 1] = s)
      BY <1>4, <2>1 DEF Spared
    <2>3. Ready(q, use, s, l[t].class)  BY <1>2, <2>2 DEF Ready, Serves
    <2> QED  BY <1>9, <2>3, ReadyLinks
  <1>13. Filling(X, h, d, K2, C2, f, l, bl, t, s)
    BY <1>9, <1>10, <1>11, <1>12 DEF Filling, use
  <1>14. r.heap.hdr[r.span].wear_count \in Nat
    <2>1. q \in HeapType(Lowest)  BY <1>4 DEF HeapGood, Pool
    <2> QED  BY <1>1, <1>5, <2>1 DEF HeapType, HeaderType
  <1>15. d.max_wc = g.max_wc /\ r.heap.hdr[r.span].wear_count <= g.max_wc[a]
    BY <1>1, <1>4, <1>9 DEF SameButLinks
  <1> QED  BY <1>13, <1>14, <1>15

\* One span refused under the old threshold waits in the background again.
LEMMA MoveStep ==
  ASSUME NEW X, NEW h, NEW g, NEW K, NEW C, NEW f, NEW l, NEW bl, NEW t \in Thread, NEW s,
         Filling(X, h, g, K, C, f, l, bl, t, s), Free(l[t]),
         NEW i \in 0..PageUnits - 1, C[t][NotNo(i)] # {},
         NEW d, d = MoveFirst(g, NAvaliable(t, i), Background(t, i))
  PROVE  \E x \in C[t][NotNo(i)] :
           Filling(X, h, d, K, [C EXCEPT ![t] = With(Less(C[t], NotNo(i), x), BackNo(i), x)],
                   f, l, bl, t, s)
  <1> DEFINE from == NAvaliable(t, i)
             x    == g.next[from]
             c1   == Less(C[t], NotNo(i), x)
             C1   == [C EXCEPT ![t] = c1]
             C2   == [C EXCEPT ![t] = With(c1, BackNo(i), x)]
             q    == list_del(g, x)
             use  == Blocks(l[t], bl[t])
  <1>1. /\ C \in [Thread -> Caches] /\ C[t] \in Caches
        /\ ThreadGood(g, t, K[t], C[t], f[t], l[t], bl[t])
        /\ HeapGood(X, g, K, C, f, l, bl) /\ Untouched(h, g, t, l, bl)
        /\ Unused(K[t], C[t], f[t], use, s) /\ Ready(g, use, s, l[t].class)
    BY DEF Filling, HeapGood
  <1>2. /\ NotNo(i) \in ListNo /\ BackNo(i) \in ListNo /\ NotNo(i) # 0 /\ BackNo(i) # 0
        /\ from = HeadOf(t, NotNo(i)) /\ Background(t, i) = HeadOf(t, BackNo(i))
        /\ \A j \in 0..PageUnits - 1 : BackNo(i) \in {BackNo(j), NotNo(j)} => j = i
    <2>1. \A j \in 0..PageUnits - 1 : BackNo(i) # NotNo(j) /\ (BackNo(i) = BackNo(j) => i = j)
      BY ListNumbers
    <2> QED  BY <2>1, ListNumbers
  <1> HIDE DEF from, use
  <1>3. x \in C[t][NotNo(i)]
    <2>1. Ring(g, from, C[t][NotNo(i)])  BY <1>1, <1>2 DEF ThreadGood, ListsGood
    <2> QED  BY <2>1, RingEmpty
  <1>4. d = list_add_tail(q, x, HeadOf(t, BackNo(i)))  BY <1>2 DEF MoveFirst, from
  <1> HIDE DEF x, q
  <1>5. /\ HeapGood(X \ {x}, q, K, C1, f, l, bl) /\ Untouched(g, q, t, l, bl) /\ SameButLinks(g, q)
        /\ One(x) \in K[t] /\ Off(c1, f[t], x)
    BY <1>1, <1>2, <1>3, TakeHeap DEF q
  <1>6. C1[t] = c1 /\ c1 \in Caches /\ C1 \in [Thread -> Caches]
    <2>1. c1 \in Caches  BY <1>1 DEF Less, Caches
    <2> QED  BY <1>1, <2>1
  <1>7. /\ q.hdr[x].category = i /\ Serves(q, use, x) /\ q.hdr[x].bitmap # {}
    <2>1. Reached(C[t], f[t], l[t], x)  BY <1>2, <1>3 DEF Reached
    <2>2. g.hdr[x].category = i  BY <1>1, <1>3 DEF ThreadGood, ListsGood
    <2>3. Ready(g, use, x, i)  BY <1>1, <2>1, <2>2 DEF ThreadGood, ReachedGood, Ready, use
    <2>4. Ready(q, use, x, i)  BY <1>5, <2>3, ReadyLinks
    <2> QED  BY <2>4 DEF Ready
  <1> HIDE DEF c1, C1
  <1> DEFINE C3 == [C1 EXCEPT ![t] = With(C1[t], BackNo(i), x)]
  <1>8. HeapGood(X, d, K, C3, f, l, bl) /\ Untouched(q, d, t, l, bl) /\ SameButLinks(q, d)
    <2>1. /\ Off(C1[t], f[t], x) /\ Suits(q, BackNo(i), x)
          /\ BackNo(i) = 0 => Mates(use, x) = {}
          /\ BackNo(i) # 0 => Serves(q, use, x) /\ q.hdr[x].bitmap # {}
      BY <1>2, <1>5, <1>6, <1>7 DEF Suits
    <2> HIDE DEF C3
    <2>2. C3 = [C1 EXCEPT ![t] = With(C1[t], BackNo(i), x)]  BY SMTT(30) DEF C3
    <2> QED  BY <1>2, <1>4, <1>5, <2>1, <2>2, PutHeap DEF use
  <1>9. C3 = C2 /\ C2[t] = With(c1, BackNo(i), x)
    <2>1. C3 = [C1 EXCEPT ![t] = With(C1[t], BackNo(i), x)]  OBVIOUS
    <2>2. C2[t] = With(c1, BackNo(i), x) /\ C3[t] = With(c1, BackNo(i), x)  BY <1>1, <1>6
    <2>3. C1 = [C EXCEPT ![t] = c1]  BY DEF C1
    <2>4. \A y : [[C EXCEPT ![t] = c1] EXCEPT ![t] = y] = [C EXCEPT ![t] = y]  BY <1>1
    <2> HIDE DEF C3
    <2> QED  BY ZenonT(60), <1>6, <2>1, <2>2, <2>3, <2>4
  <1> HIDE DEF C3, C2
  <1>10. Unused(K[t], C2[t], f[t], use, s)
    <2>1. x # s  BY <1>1, <1>2, <1>3 DEF Unused, Off, OnCache
    <2>2. ~OnCache(C2[t], s)
      <3>1. ~OnCache(c1, s)  BY <1>1, <1>2 DEF Unused, Off, OnCache, Less, Caches, c1
      <3> QED  BY <1>2, <1>6, <1>9, <2>1, <3>1 DEF OnCache, With, Caches
    <2> QED  BY <1>1, <2>2 DEF Unused, Off
  <1>11. Ready(d, use, s, l[t].class)
    <2>1. Ready(q, use, s, l[t].class)  BY <1>1, <1>5, ReadyLinks
    <2> QED  BY <1>8, <2>1, ReadyLinks
  <1>12. Untouched(h, d, t, l, bl)  BY <1>1, <1>5, <1>8, UntouchedTwice
  <1>13. HeapGood(X, d, K, C2, f, l, bl)  BY <1>8, <1>9
  <1>14. Filling(X, h, d, K, C2, f, l, bl, t, s)
    BY <1>10, <1>11, <1>12, <1>13 DEF Filling, use
  <1> QED  BY <1>3, <1>14 DEF C2, c1
-----------------------------------------------------------------------------
\* The fill has come to heap g, whatever the cache and the pieces are by now.
Filled(X, h, g, f, l, bl, t, s) == \E K, C : Filling(X, h, g, K, C, f, l, bl, t, s)

\* The spare pages, one after the other, as Batch takes them.
OneMore(p, a, t) ==
  IF p.ok /\ CanAcquire(p.heap, a, 0)
  THEN LET r == acquire_span(p.heap, a, 0)
       IN  [heap  |-> list_add_tail(r.heap, r.span, FreeSpans(t)),
            worst |-> Max({p.worst, r.heap.hdr[r.span].wear_count}),
            ok    |-> TRUE]
  ELSE [p EXCEPT !.ok = FALSE]
OneAfter(x, a, t, n, b) == b = [k \in 0..n |-> IF k = 0 THEN x ELSE OneMore(b[k - 1], a, t)]

\* One more spare page keeps a thread in the middle of its fetch in order.
LEMMA OneMoreFills ==
  ASSUME NEW X, NEW h, NEW f, NEW l, NEW bl, NEW t \in Thread, Free(l[t]), NEW s, NEW a \in Area,
         NEW p \in [heap : HeapType(Lowest), worst : Nat, ok : BOOLEAN],
         Filled(X, h, p.heap, f, l, bl, t, s), p.worst <= p.heap.max_wc[a]
  PROVE  /\ OneMore(p, a, t) \in [heap : HeapType(Lowest), worst : Nat, ok : BOOLEAN]
         /\ Filled(X, h, OneMore(p, a, t).heap, f, l, bl, t, s)
         /\ OneMore(p, a, t).worst <= OneMore(p, a, t).heap.max_wc[a]
  <1>1. CASE p.ok /\ CanAcquire(p.heap, a, 0)
    <2>1. PICK g : g = p.heap  OBVIOUS
    <2>2. PICK K, C : Filling(X, h, g, K, C, f, l, bl, t, s)  BY <2>1 DEF Filled
    <2>3. PICK r : r = acquire_span(g, a, 0)  OBVIOUS
    <2>4. PICK d : d = list_add_tail(r.heap, r.span, FreeSpans(t))  OBVIOUS
    <2>5. CanAcquire(g, a, 0)  BY <1>1, <2>1
    <2>6. /\ \E K2, C2 : Filling(X, h, d, K2, C2, f, l, bl, t, s)
          /\ r.heap.hdr[r.span].wear_count \in Nat
          /\ d.max_wc = g.max_wc /\ r.heap.hdr[r.span].wear_count <= g.max_wc[a]
      BY <2>2, <2>3, <2>4, <2>5, BatchStep
    <2>7. d \in HeapType(Lowest)  BY <2>6 DEF Filling, HeapGood, Pool
    <2>8. PICK w : w = r.heap.hdr[r.span].wear_count  OBVIOUS
    <2>9. Max({p.worst, w}) \in {p.worst, w} /\ Max({p.worst, w}) \in Nat
      <3>1. p.worst \in Nat /\ w \in Nat  BY <2>6, <2>8
      <3>2. PICK hi \in Nat : hi >= p.worst /\ hi >= w
        <4>1. p.worst + w \in Nat /\ p.worst + w >= p.worst /\ p.worst + w >= w  BY <3>1
        <4> QED  BY <4>1
      <3>3. {p.worst, w} # {} /\ {p.worst, w} \in SUBSET (0..hi)  BY <3>1, <3>2
      <3>4. PICK S : S = {p.worst, w}  OBVIOUS
      <3>5. Max(S) \in S  BY <3>3, <3>4, MaxOfSet
      <3> QED  BY <3>1, <3>4, <3>5
    <2>10. OneMore(p, a, t) = [heap |-> d, worst |-> Max({p.worst, w}), ok |-> TRUE]
      BY <1>1, <2>1, <2>3, <2>4, <2>8 DEF OneMore
    <2>11. Max({p.worst, w}) <= d.max_wc[a]  BY <2>1, <2>6, <2>8, <2>9
    <2> QED  BY <2>6, <2>7, <2>9, <2>10, <2>11 DEF Filled
  <1>2. CASE ~(p.ok /\ CanAcquire(p.heap, a, 0))
    <2>1. OneMore(p, a, t) = [p EXCEPT !.ok = FALSE]  BY <1>2 DEF OneMore
    <2>2. [p EXCEPT !.ok = FALSE].heap = p.heap /\ [p EXCEPT !.ok = FALSE].worst = p.worst
      OBVIOUS
    <2>3. [p EXCEPT !.ok = FALSE] \in [heap : HeapType(Lowest), worst : Nat, ok : BOOLEAN]
      OBVIOUS
    <2> QED  BY <2>1, <2>2, <2>3
  <1> QED  BY <1>1, <1>2

\* So do all the spare pages of a fetch.
LEMMA BatchFills ==
  ASSUME NEW X, NEW h, NEW g, NEW f, NEW l, NEW bl, NEW t \in Thread, Free(l[t]), NEW s \in Spans,
         NEW a \in Area, Filled(X, h, g, f, l, bl, t, s), g.hdr[s].wear_count <= g.max_wc[a],
         NEW b, b = Batch(g, a, t, s)
  PROVE  /\ Filled(X, h, b.heap, f, l, bl, t, s)
         /\ b.worst \in Nat /\ b.worst <= b.heap.max_wc[a]
  <1> DEFINE R == [heap : HeapType(Lowest), worst : Nat, ok : BOOLEAN]
             T == {p \in R : /\ Filled(X, h, p.heap, f, l, bl, t, s)
                             /\ p.worst <= p.heap.max_wc[a]}
             F == [p \in T |-> OneMore(p, a, t)]
             x == [heap |-> g, worst |-> g.hdr[s].wear_count, ok |-> TRUE]
             n == PAGE_FROM_POOL_NUM
             at == CHOOSE y : y = [k \in 0..n |->
                     IF k = 0 THEN [heap |-> g, worst |-> g.hdr[s].wear_count, ok |-> TRUE]
                     ELSE LET p == y[k - 1]
                          IN  IF p.ok /\ CanAcquire(p.heap, a, 0)
                              THEN LET r == acquire_span(p.heap, a, 0)
                                   IN  [heap  |-> list_add_tail(r.heap, r.span, FreeSpans(t)),
                                        worst |-> Max({p.worst, r.heap.hdr[r.span].wear_count}),
                                        ok    |-> TRUE]
                              ELSE [p EXCEPT !.ok = FALSE]]
  <1>1. n \in Nat  BY CallAssumption
  <1>2. F \in [T -> T]
    <2>1. ASSUME NEW p \in T  PROVE OneMore(p, a, t) \in T  BY <2>1, OneMoreFills
    <2> QED  BY <2>1
  <1>3. x \in T
    <2>1. g \in HeapType(Lowest)  BY DEF Filled, Filling, HeapGood, Pool
    <2>2. g.hdr[s].wear_count \in Nat  BY <2>1 DEF HeapType, HeaderType
    <2>3. x.heap = g /\ x.worst <= x.heap.max_wc[a]  OBVIOUS
    <2> HIDE DEF at, F, T
    <2>4. \A w \in Nat : [heap |-> g, worst |-> w, ok |-> TRUE] \in R  BY ONLY <2>1
    <2>5. x \in R  BY <2>2, <2>4
    <2> QED  BY <2>3, <2>5 DEF T
  <1>4. b = at[n]  BY Zenon DEF Batch
  <1>5. OneAfter(x, a, t, n, at)
    <2>1. \E y : OneAfter(x, a, t, n, y)
      <3> HIDE DEF F, T, x
      <3>1. PICK y \in [0..n -> T] : Iterates(F, x, n, y)  BY <1>1, <1>2, <1>3, IteratesExists
      <3>2. \A k \in 0..n : k # 0 => F[y[k - 1]] = OneMore(y[k - 1], a, t)
        <4>1. \A k \in 0..n : k # 0 => k - 1 \in 0..n  BY <1>1
        <4> QED  BY <3>1, <4>1 DEF F
      <3>3. y = [k \in 0..n |-> IF k = 0 THEN x ELSE F[y[k - 1]]]  BY <3>1 DEF Iterates
      <3>4. [k \in 0..n |-> IF k = 0 THEN x ELSE F[y[k - 1]]]
              = [k \in 0..n |-> IF k = 0 THEN x ELSE OneMore(y[k - 1], a, t)]
        BY <3>2
      <3>5. y = [k \in 0..n |-> IF k = 0 THEN x ELSE OneMore(y[k - 1], a, t)]
        BY <3>3, <3>4, Zenon
      <3> QED  BY <3>5 DEF OneAfter
    <2> QED  BY <2>1, Zenon DEF OneAfter, OneMore, x, at
  <1> HIDE DEF at, x, F
  <1>6. at[0] = x /\ \A k \in 0..n - 1 : at[k + 1] = OneMore(at[k], a, t)
    <2>1. at = [k \in 0..n |-> IF k = 0 THEN x ELSE OneMore(at[k - 1], a, t)]  BY <1>5 DEF OneAfter
    <2>2. 0 \in 0..n /\ \A k \in 0..n - 1 : k + 1 \in 0..n /\ k + 1 # 0 /\ (k + 1) - 1 = k
      BY <1>1
    <2> QED  BY <2>1, <2>2
  <1>7. 0..n \subseteq {k \in 0..n : at[k] \in T}
    <2> DEFINE G == {k \in 0..n : at[k] \in T}
    <2>1. 0 \in G  BY <1>1, <1>3, <1>6
    <2>2. \A k \in 0..n - 1 : k \in G => k + 1 \in G
      <3>1. TAKE k \in 0..n - 1
      <3>2. HAVE k \in G
      <3>3. k + 1 \in 0..n /\ at[k + 1] = OneMore(at[k], a, t)  BY <1>1, <1>6
      <3>4. /\ at[k] \in R /\ Filled(X, h, at[k].heap, f, l, bl, t, s)
            /\ at[k].worst <= at[k].heap.max_wc[a]
        BY <3>2
      <3>5. PICK p : p = at[k]  OBVIOUS
      <3>6. /\ OneMore(p, a, t) \in R
            /\ Filled(X, h, OneMore(p, a, t).heap, f, l, bl, t, s)
            /\ OneMore(p, a, t).worst <= OneMore(p, a, t).heap.max_wc[a]
        BY <3>4, <3>5, OneMoreFills
      <3> QED  BY <3>3, <3>5, <3>6
    <2> HIDE DEF G
    <2>3. 0..n \subseteq G  BY <1>1, <2>1, <2>2, InductionUpTo
    <2> QED  BY <2>3 DEF G
  <1>8. n \in 0..n  BY <1>1
  <1> QED  BY <1>4, <1>7, <1>8
-----------------------------------------------------------------------------
\* The heaps that Moved goes through.
LEMMA MoveType ==
  ASSUME NEW h \in HeapType(Lowest), NEW from \in Node(Lowest), NEW to \in Node(Lowest)
  PROVE  MoveFirst(h, from, to) \in HeapType(Lowest)
  <1>1. PICK x \in Node(Lowest) : x = h.next[from]  BY DEF HeapType
  <1>2. PICK q : q = list_del(h, x)  OBVIOUS
  <1>3. q \in HeapType(Lowest)  BY <1>1, <1>2, DelEffect
  <1>4. PICK p \in Node(Lowest) : p = q.prev[to]  BY <1>3 DEF HeapType
  <1>5. Link(q, x, p, to) \in HeapType(Lowest)  BY <1>3, LinkEffect
  <1> QED  BY <1>1, <1>2, <1>4, <1>5 DEF MoveFirst, list_add_tail

FirstAfter(h, from, to, n, m) ==
  m = [k \in 0..n |-> IF k = 0 THEN h ELSE MoveFirst(m[k - 1], from, to)]

Moving(h, n, from, to, m) ==
  /\ m \in [0..n -> HeapType(Lowest)]
  /\ m[0] = h /\ \A k \in 0..n - 1 : m[k + 1] = MoveFirst(m[k], from, to)
  /\ Moved(h, n, from, to) = m[n]

\* The recursive function of Moved has its values.
LEMMA MovedSteps ==
  ASSUME NEW h \in HeapType(Lowest), NEW from \in Node(Lowest), NEW to \in Node(Lowest),
         NEW n \in Nat
  PROVE  \E m : Moving(h, n, from, to, m)
  <1> DEFINE T == HeapType(Lowest)
             F == [g \in T |-> MoveFirst(g, from, to)]
             at == CHOOSE m : m = [k \in 0..n |->
                                     IF k = 0 THEN h ELSE MoveFirst(m[k - 1], from, to)]
  <1>1. F \in [T -> T]
    <2>1. ASSUME NEW g \in T  PROVE MoveFirst(g, from, to) \in T  BY MoveType
    <2> QED  BY <2>1
  <1>2. Moved(h, n, from, to) = at[n]  BY Zenon DEF Moved
  <1> HIDE DEF T
  <1>3. FirstAfter(h, from, to, n, at)
    <2>1. \E m : FirstAfter(h, from, to, n, m)
      <3> HIDE DEF F
      <3>1. h \in T  BY DEF T
      <3>2. PICK m \in [0..n -> T] : Iterates(F, h, n, m)  BY <1>1, <3>1, IteratesExists
      <3>3. \A k \in 0..n : k # 0 => F[m[k - 1]] = MoveFirst(m[k - 1], from, to)
        <4>1. \A k \in 0..n : k # 0 => k - 1 \in 0..n  OBVIOUS
        <4> QED  BY <3>2, <4>1 DEF F
      <3>4. m = [k \in 0..n |-> IF k = 0 THEN h ELSE F[m[k - 1]]]  BY <3>2 DEF Iterates
      <3>5. [k \in 0..n |-> IF k = 0 THEN h ELSE F[m[k - 1]]]
              = [k \in 0..n |-> IF k = 0 THEN h ELSE MoveFirst(m[k - 1], from, to)]
        BY <3>3
      <3>6. m = [k \in 0..n |-> IF k = 0 THEN h ELSE MoveFirst(m[k - 1], from, to)]
        BY <3>4, <3>5, Zenon
      <3> QED  BY <3>6 DEF FirstAfter
    <2> QED  BY <2>1, Zenon DEF FirstAfter, at
  <1> HIDE DEF at, F
  <1>4. at[0] = h /\ \A k \in 0..n - 1 : at[k + 1] = MoveFirst(at[k], from, to)
    <2>1. at = [k \in 0..n |-> IF k = 0 THEN h ELSE MoveFirst(at[k - 1], from, to)]
      BY <1>3 DEF FirstAfter
    <2>2. 0 \in 0..n /\ \A k \in 0..n - 1 : k + 1 \in 0..n /\ k + 1 # 0 /\ (k + 1) - 1 = k
      OBVIOUS
    <2> QED  BY <2>1, <2>2
  <1>5. at \in [0..n -> T]
    <2> DEFINE G == {k \in 0..n : at[k] \in T}
    <2>1. 0 \in G  BY <1>4 DEF T
    <2>2. \A k \in 0..n - 1 : k \in G => k + 1 \in G
      <3>1. TAKE k \in 0..n - 1
      <3>2. HAVE k \in G
      <3>3. k + 1 \in 0..n /\ at[k + 1] = MoveFirst(at[k], from, to)  BY <1>4
      <3>4. MoveFirst(at[k], from, to) \in T  BY <3>2, MoveType DEF T
      <3> QED  BY <3>3, <3>4
    <2> HIDE DEF G
    <2>3. 0..n \subseteq G  BY <2>1, <2>2, InductionUpTo
    <2>4. \A k \in 0..n : at[k] \in T  BY <2>3 DEF G
    <2>5. at = [k \in 0..n |-> at[k]]  BY <1>3 DEF FirstAfter
    <2> QED  BY <2>4, <2>5
  <1> QED  BY <1>2, <1>4, <1>5 DEF T, Moving

\* The lists of a cache are finite, no longer than there are spans.
LEMMA ListFinite ==
  ASSUME NEW S \in SUBSET Spans
  PROVE  /\ IsFiniteSet(S) /\ Cardinality(S) \in Nat
         /\ AREA_NUM * AreaPages \in Nat /\ Cardinality(S) <= AREA_NUM * AreaPages
  <1>1. AREA_NUM * AreaPages \in Nat  BY Sizes
  <1>2. PICK n \in Nat : n = AREA_NUM * AreaPages  BY <1>1
  <1>3. IsFiniteSet(1..n) /\ Cardinality(1..n) = n
    <2>1. 1 \in Int /\ n \in Int  OBVIOUS
    <2>2. IsFiniteSet(1..n) /\ Cardinality(1..n) = IF 1 > n THEN 0 ELSE n - 1 + 1
      BY <2>1, FS_Interval, Zenon
    <2> QED  BY <2>2
  <1>4. S \in SUBSET (1..n)  BY <1>2 DEF Spans
  <1>5. IsFiniteSet(S) /\ Cardinality(S) <= Cardinality(1..n)  BY <1>3, <1>4, FS_Subset, Zenon
  <1>6. Cardinality(S) \in Nat  BY <1>5, FS_CardinalityType, Zenon
  <1> QED  BY <1>1, <1>2, <1>3, <1>5, <1>6

\* The unavailable lists of thread t from class k on are still those of c.
Waiting(c, d, k) == \A j \in k..PageUnits - 1 : d[NotNo(j)] = c[NotNo(j)]

\* The first n spans of an unavailable list moved to the background.
LEMMA MovedFills ==
  ASSUME NEW X, NEW h, NEW g, NEW K, NEW C, NEW f, NEW l, NEW bl, NEW t \in Thread, NEW s,
         Filling(X, h, g, K, C, f, l, bl, t, s), Free(l[t]), NEW i \in 0..PageUnits - 1,
         NEW n \in Nat, n <= Cardinality(C[t][NotNo(i)]),
         NEW d, d = Moved(g, n, NAvaliable(t, i), Background(t, i))
  PROVE  \E C2 : Filling(X, h, d, K, C2, f, l, bl, t, s) /\ Waiting(C[t], C2[t], i + 1)
  <1> DEFINE from == NAvaliable(t, i)
             to   == Background(t, i)
             Remain(D, k) == /\ Waiting(C[t], D[t], i + 1)
                             /\ Cardinality(D[t][NotNo(i)]) >= n - k
  <1>1. from \in Node(Lowest) /\ to \in Node(Lowest)
    <2>1. /\ NotNo(i) \in ListNo /\ BackNo(i) \in ListNo
          /\ from = HeadOf(t, NotNo(i)) /\ to = HeadOf(t, BackNo(i))
      BY ListNumbers
    <2> QED  BY <2>1, CacheHead
  <1> HIDE DEF from, to
  <1>2. g \in HeapType(Lowest)  BY DEF Filling, HeapGood, Pool
  <1>3. PICK m : /\ m[0] = g /\ \A k \in 0..n - 1 : m[k + 1] = MoveFirst(m[k], from, to)
                 /\ Moved(g, n, from, to) = m[n]
    <2>1. PICK m : Moving(g, n, from, to, m)  BY <1>1, <1>2, MovedSteps
    <2> QED  BY <2>1 DEF Moving
  <1> DEFINE Fill(k) == \E D : Filling(X, h, m[k], K, D, f, l, bl, t, s) /\ Remain(D, k)
             G == {k \in 0..n : Fill(k)}
  <1>4. 0 \in G
    <2>1. Waiting(C[t], C[t], i + 1)  BY DEF Waiting
    <2>2. n - 0 = n /\ 0 \in 0..n  OBVIOUS
    <2>3. Remain(C, 0)
      <3>1. C \in [Thread -> Caches] /\ C[t][NotNo(i)] \in SUBSET Spans
        BY ListNumbers DEF Filling, HeapGood, Caches
      <3>2. Cardinality(C[t][NotNo(i)]) \in Nat  BY <3>1, ListFinite
      <3> QED  BY <2>1, <2>2, <3>2
    <2> QED  BY <1>3, <2>2, <2>3
  <1>5. ASSUME NEW k \in 0..n - 1, k \in G  PROVE k + 1 \in G
    <2>1. PICK D : Filling(X, h, m[k], K, D, f, l, bl, t, s) /\ Remain(D, k)  BY <1>5
    <2>2. PICK p : p = m[k]  OBVIOUS
    <2>3. PICK q : q = MoveFirst(p, NAvaliable(t, i), Background(t, i))  OBVIOUS
    <2>4. k + 1 \in 0..n /\ m[k + 1] = q  BY <1>3, <2>2, <2>3 DEF from, to
    <2>5. D \in [Thread -> Caches] /\ D[t] \in Caches  BY <2>1 DEF Filling, HeapGood
    <2>6. /\ NotNo(i) \in ListNo /\ BackNo(i) \in ListNo /\ BackNo(i) # NotNo(i)
          /\ \A j \in i + 1..PageUnits - 1 :
               NotNo(j) \in ListNo /\ NotNo(j) # NotNo(i) /\ NotNo(j) # BackNo(i)
      <3>1. \A j \in i + 1..PageUnits - 1 : j \in 0..PageUnits - 1 /\ j # i  OBVIOUS
      <3> QED  BY <3>1, ListNumbers
    <2>7. D[t][NotNo(i)] \in SUBSET Spans  BY <2>5, <2>6 DEF Caches
    <2>8. IsFiniteSet(D[t][NotNo(i)]) /\ Cardinality(D[t][NotNo(i)]) \in Nat  BY <2>7, ListFinite
    <2>9. D[t][NotNo(i)] # {}
      <3>1. n - k \in Nat /\ n - k >= 1  OBVIOUS
      <3>2. Cardinality(D[t][NotNo(i)]) >= 1  BY <2>1, <2>8, <3>1
      <3>3. Cardinality({}) = 0  BY FS_EmptySet, Zenon
      <3> SUFFICES ASSUME D[t][NotNo(i)] = {}  PROVE FALSE  OBVIOUS
      <3>4. Cardinality(D[t][NotNo(i)]) = 0  BY <3>3
      <3> QED  BY <3>2, <3>4
    <2>10. PICK x \in D[t][NotNo(i)] :
             Filling(X, h, q, K, [D EXCEPT ![t] = With(Less(D[t], NotNo(i), x), BackNo(i), x)],
                     f, l, bl, t, s)
      <3>1. Filling(X, h, p, K, D, f, l, bl, t, s)  BY <2>1, <2>2
      <3> QED  BY <2>3, <2>9, <3>1, MoveStep
    <2>11. PICK D2 : D2 = [D EXCEPT ![t] = With(Less(D[t], NotNo(i), x), BackNo(i), x)]
      OBVIOUS
    <2>12. /\ D2[t][NotNo(i)] = D[t][NotNo(i)] \ {x}
           /\ \A j \in i + 1..PageUnits - 1 : D2[t][NotNo(j)] = D[t][NotNo(j)]
      <3>1. PICK c \in Caches : c = D[t]  BY <2>5
      <3>2. D2[t] = With(Less(c, NotNo(i), x), BackNo(i), x)  BY <2>5, <2>11, <3>1
      <3>3. \A j \in ListNo : j # BackNo(i) =>
              D2[t][j] = IF j = NotNo(i) THEN c[j] \ {x} ELSE c[j]
        BY <3>2 DEF With, Less, Caches
      <3> QED  BY <2>6, <3>1, <3>3
    <2>13. Cardinality(D[t][NotNo(i)] \ {x}) = Cardinality(D[t][NotNo(i)]) - 1
      BY <2>8, FS_RemoveElement, Zenon
    <2>14. Remain(D2, k + 1)
      <3>1. Waiting(C[t], D2[t], i + 1)  BY <2>1, <2>12 DEF Waiting
      <3>2. Cardinality(D2[t][NotNo(i)]) >= n - (k + 1)  BY <2>1, <2>8, <2>12, <2>13
      <3> QED  BY <3>1, <3>2
    <2>15. Filling(X, h, q, K, D2, f, l, bl, t, s)  BY <2>10, <2>11
    <2> QED  BY <2>4, <2>14, <2>15
  <1>6. n \in G
    <2> HIDE DEF G
    <2>1. 0..n \subseteq G  BY <1>4, <1>5, InductionUpTo
    <2> QED  BY <2>1
  <1> QED  BY <1>3, <1>6 DEF from, to

\* What waits on the unavailable list of class i, and the classes revived.
WaitingIn(h, t, i) == Len(Entries(h, NAvaliable(t, i), AREA_NUM * AreaPages))
ClassAfter(g, h, t, i) ==
  Moved(g, WaitingIn(h, t, i - 1), NAvaliable(t, i - 1), Background(t, i - 1))
ClassesAfter(h, t, n, m) ==
  m = [i \in 0..n |-> IF i = 0 THEN h ELSE ClassAfter(m[i - 1], h, t, i)]

\* The fetch stays in order when the refused spans are moved to the background,
\* class by class.
LEMMA RevivedFills ==
  ASSUME NEW X, NEW h, NEW g, NEW K, NEW C, NEW f, NEW l, NEW bl, NEW t \in Thread, NEW s,
         Filling(X, h, g, K, C, f, l, bl, t, s), Free(l[t]),
         NEW d, d = Revived(g, t)
  PROVE  Filled(X, h, d, f, l, bl, t, s)
  <1> DEFINE T == HeapType(Lowest)
             n == PageUnits
             F == [i \in 1..n |-> [x \in T |-> ClassAfter(x, g, t, i)]]
             at == CHOOSE m : m = [i \in 0..n |->
                     IF i = 0 THEN g
                     ELSE Moved(m[i - 1], Len(Entries(g, NAvaliable(t, i - 1), AREA_NUM * AreaPages)),
                                NAvaliable(t, i - 1), Background(t, i - 1))]
  <1>1. n \in Nat \ {0}  BY Sizes
  <1>2. g \in T /\ C \in [Thread -> Caches] /\ ThreadGood(g, t, K[t], C[t], f[t], l[t], bl[t])
    BY DEF Filling, HeapGood, Pool
  <1>3. d = at[n]  BY Zenon DEF Revived
  <1>4. ASSUME NEW i \in 0..n - 1
        PROVE  /\ WaitingIn(g, t, i) \in Nat /\ WaitingIn(g, t, i) = Cardinality(C[t][NotNo(i)])
               /\ NAvaliable(t, i) \in Node(Lowest) /\ Background(t, i) \in Node(Lowest)
    <2>1. /\ NotNo(i) \in ListNo /\ BackNo(i) \in ListNo
          /\ NAvaliable(t, i) = HeadOf(t, NotNo(i)) /\ Background(t, i) = HeadOf(t, BackNo(i))
      BY ListNumbers
    <2>2. PICK S \in SUBSET Spans : S = C[t][NotNo(i)]  BY <1>2, <2>1 DEF Caches
    <2>3. Ring(g, NAvaliable(t, i), S)  BY <1>2, <2>1, <2>2 DEF ThreadGood, ListsGood
    <2>4. /\ IsFiniteSet(S) /\ Cardinality(S) \in Nat
          /\ AREA_NUM * AreaPages \in Nat /\ Cardinality(S) <= AREA_NUM * AreaPages
      BY ListFinite
    <2>5. PICK bound \in Nat : bound = AREA_NUM * AreaPages  BY <2>4
    <2>6. Len(Entries(g, NAvaliable(t, i), bound)) = Cardinality(S)
      BY <2>3, <2>4, <2>5, EntriesCount
    <2> QED  BY <2>1, <2>2, <2>4, <2>5, <2>6, CacheHead DEF WaitingIn
  <1>5. F \in [1..n -> [T -> T]]
    <2>1. ASSUME NEW i \in 1..n, NEW x \in T  PROVE ClassAfter(x, g, t, i) \in T
      <3>1. PICK j \in 0..n - 1 : j = i - 1  BY <1>1
      <3>2. PICK w \in Nat : w = WaitingIn(g, t, j)  BY <1>4
      <3>3. PICK m : Moving(x, w, NAvaliable(t, j), Background(t, j), m)
        BY <1>4, MovedSteps DEF T
      <3>4. Moved(x, w, NAvaliable(t, j), Background(t, j)) = m[w] /\ m \in [0..w -> T]
        BY <3>3 DEF Moving
      <3>5. m[w] \in T  BY <3>4
      <3> QED  BY <3>1, <3>2, <3>4, <3>5 DEF ClassAfter
    <2> HIDE DEF T
    <2> QED  BY <2>1
  <1> HIDE DEF T
  <1>6. ClassesAfter(g, t, n, at)
    <2>1. \E m : ClassesAfter(g, t, n, m)
      <3> HIDE DEF F
      <3>1. PICK m \in [0..n -> T] : Steps(F, g, n, m)  BY <1>1, <1>2, <1>5, StepsExist
      <3>2. \A i \in 0..n : i # 0 => F[i][m[i - 1]] = ClassAfter(m[i - 1], g, t, i)
        <4>1. \A i \in 0..n : i # 0 => i - 1 \in 0..n /\ i \in 1..n  BY <1>1
        <4>2. \A i \in 1..n : \A x \in T : F[i][x] = ClassAfter(x, g, t, i)  BY DEF F
        <4> QED  BY <3>1, <4>1, <4>2
      <3>3. m = [i \in 0..n |-> IF i = 0 THEN g ELSE F[i][m[i - 1]]]  BY <3>1 DEF Steps
      <3>4. [i \in 0..n |-> IF i = 0 THEN g ELSE F[i][m[i - 1]]]
              = [i \in 0..n |-> IF i = 0 THEN g ELSE ClassAfter(m[i - 1], g, t, i)]
        BY <3>2
      <3>5. m = [i \in 0..n |-> IF i = 0 THEN g ELSE ClassAfter(m[i - 1], g, t, i)]
        BY <3>3, <3>4, Zenon
      <3> QED  BY <3>5 DEF ClassesAfter
    <2> QED  BY <2>1, Zenon DEF ClassesAfter, ClassAfter, WaitingIn, at
  <1> HIDE DEF at, F
  <1>7. at[0] = g /\ \A i \in 0..n - 1 : at[i + 1] = ClassAfter(at[i], g, t, i + 1)
    <2>1. at = [i \in 0..n |-> IF i = 0 THEN g ELSE ClassAfter(at[i - 1], g, t, i)]
      BY <1>6 DEF ClassesAfter
    <2>2. 0 \in 0..n /\ \A i \in 0..n - 1 : i + 1 \in 0..n /\ i + 1 # 0 /\ (i + 1) - 1 = i
      BY <1>1
    <2> QED  BY <2>1, <2>2
  <1> DEFINE Fill(i) == \E D : Filling(X, h, at[i], K, D, f, l, bl, t, s) /\ Waiting(C[t], D[t], i)
             G == {i \in 0..n : Fill(i)}
  <1>8. 0 \in G
    <2>1. Waiting(C[t], C[t], 0)  BY DEF Waiting
    <2>2. 0 \in 0..n  BY <1>1
    <2> QED  BY <1>7, <2>1, <2>2
  <1>9. ASSUME NEW i \in 0..n - 1, i \in G  PROVE i + 1 \in G
    <2>1. PICK D : Filling(X, h, at[i], K, D, f, l, bl, t, s) /\ Waiting(C[t], D[t], i)  BY <1>9
    <2>2. PICK p : p = at[i]  OBVIOUS
    <2>3. i \in i..PageUnits - 1 /\ (i + 1) - 1 = i /\ i + 1 \in 0..n  BY <1>1
    <2>4. PICK w \in Nat : w = WaitingIn(g, t, i)  BY <1>4
    <2>5. D[t][NotNo(i)] = C[t][NotNo(i)]  BY <2>1, <2>3 DEF Waiting
    <2>6. w <= Cardinality(D[t][NotNo(i)])  BY <1>4, <2>4, <2>5
    <2>7. PICK q : q = Moved(p, w, NAvaliable(t, i), Background(t, i))  OBVIOUS
    <2>8. at[i + 1] = q  BY <1>7, <2>2, <2>3, <2>4, <2>7 DEF ClassAfter
    <2>9. Filling(X, h, p, K, D, f, l, bl, t, s)  BY <2>1, <2>2
    <2>10. PICK D2 : Filling(X, h, q, K, D2, f, l, bl, t, s) /\ Waiting(D[t], D2[t], i + 1)
      BY <2>6, <2>7, <2>9, MovedFills
    <2>11. Waiting(C[t], D2[t], i + 1)
      <3>1. \A j \in i + 1..PageUnits - 1 : j \in i..PageUnits - 1  BY <1>1
      <3> QED  BY <2>1, <2>10, <3>1 DEF Waiting
    <2> QED  BY <2>3, <2>8, <2>10, <2>11
  <1>10. n \in G
    <2> HIDE DEF G
    <2>1. 0..n \subseteq G  BY <1>1, <1>8, <1>9, InductionUpTo
    <2> QED  BY <1>1, <2>1
  <1> QED  BY <1>3, <1>10 DEF Filled

\* The first page of a fill.
LEMMA FirstFill ==
  ASSUME NEW X, NEW h, NEW K, NEW C, NEW f, NEW l, NEW bl, HeapGood(X, h, K, C, f, l, bl),
         NEW t \in Thread, Free(l[t]), NEW i \in Class, l[t].class = i,
         NEW a \in Area, CanAcquire(h, a, 0), NEW r, r = acquire_span(h, a, 0),
         NEW g, g = span_init(r.heap, r.span, i, i)
  PROVE  /\ Filled(X \ {r.span}, h, g, f, l, bl, t, r.span) /\ r.span \in Spans
         /\ g.hdr[r.span].wear_count <= g.max_wc[a]
  <1>1. PICK p, q : p = r.span /\ q = r.heap  OBVIOUS
  <1> DEFINE e   == [at |-> p, pages |-> 1]
             K2  == [K EXCEPT ![t] = K[t] \cup {e}]
             use == Blocks(l[t], bl[t])
  <1>2. /\ K \in [Thread -> SUBSET Piece] /\ C \in [Thread -> Caches]
        /\ ThreadGood(h, t, K[t], C[t], f[t], l[t], bl[t])
    BY DEF HeapGood
  <1>3. PICK n \in 0..LARGE - 1 : n = 0 /\ e = [at |-> p, pages |-> n + 1]
    BY Sizes
  <1>4. /\ HeapGood(X \ PagesOf(e), q, K2, C, f, l, bl) /\ Untouched(h, q, t, l, bl)
        /\ e \in Piece /\ Unheld(K, e.at)
        /\ q.max_wc = h.max_wc /\ q.hdr[p].wear_count <= h.max_wc[a]
    <2> HIDE DEF e
    <2>1. CanAcquire(h, a, n) /\ r = acquire_span(h, a, n)  BY <1>3
    <2>2. e = [at |-> r.span, pages |-> n + 1]  BY <1>1, <1>3
    <2> QED  BY SMTT(30), <1>1, <2>1, <2>2, AcquireHeap
  <1>5. e.at = p /\ e = One(p) /\ p \in Spans /\ PagesOf(e) = {p}
    <2>1. e.at = p /\ e.pages = 1 /\ e = One(p) /\ p \in Spans  BY <1>4 DEF One, Piece
    <2>2. p \in Nat  BY <2>1, Sizes DEF Spans
    <2> HIDE DEF e
    <2> QED  BY <2>1, <2>2 DEF PagesOf, ExtentOf
  <1> HIDE DEF e, use
  <1>6. K2[t] = K[t] \cup {e}  BY <1>2
  <1>7. Clear(C[t], f[t], use, p)
    <2>1. NoneAt(K[t], p)  BY <1>4, <1>5 DEF Unheld, NoneAt
    <2> QED  BY <1>2, <1>5, <2>1, NotReferred DEF use
  <1> HIDE DEF K2
  <1>8. Unused(K2[t], C[t], f[t], use, p)  BY <1>5, <1>6, <1>7 DEF Unused, Clear
  <1>9. PICK Y : Y = X \ {p} /\ HeapGood(Y, q, K2, C, f, l, bl)  BY <1>4, <1>5
  <1>10. /\ HeapGood(Y, g, K2, C, f, l, bl) /\ Untouched(q, g, t, l, bl) /\ Ready(g, use, p, i)
    BY <1>1, <1>8, <1>9, InitHeap DEF use
  <1>11. Untouched(h, g, t, l, bl)  BY <1>4, <1>10, UntouchedTwice
  <1>12. Filling(Y, h, g, K2, C, f, l, bl, t, p)  BY <1>8, <1>10, <1>11 DEF Filling, use
  <1>13. g.hdr[p].wear_count <= g.max_wc[a]
    <2>1. PICK S, L : Base(Y, q, K2, C, S, L, t, C[t])  BY <1>9, BaseOf
    <2>2. i \in 0..LARGE /\ i # LARGE /\ (i = LARGE => i < LARGE)
      <3>1. i \in 0..LARGE - 1 /\ i # LARGE /\ LARGE \in Nat  BY ClassBlocks, Sizes
      <3> QED  BY <3>1
    <2>3. One(p) \in K2[t] /\ ~OnCache(C[t], One(p).at) /\ One(p).at = p
      BY <1>8 DEF Unused, Off, One
    <2>4. g = span_init(q, One(p).at, i, i)  BY <1>1, <2>3
    <2>5. /\ Local(q, g, t, K2[t], S, C)
          /\ Renewed(q, g, p, Initialised(q.hdr[p], i, i))
      BY ZenonT(60), <2>1, <2>2, <2>3, <2>4, InitStep
    <2>6. q.hdr[p] \in HeaderType  BY <1>5, <2>1 DEF Base, Pool, HeapType
    <2>7. Initialised(q.hdr[p], i, i).wear_count = q.hdr[p].wear_count
      BY <2>2, <2>6, InitialisedHeader
    <2> QED  BY <1>4, <2>5, <2>7 DEF Local, Renewed
  <1> QED  BY <1>1, <1>5, <1>9, <1>12, <1>13 DEF Filled

\* What the cache is compared with after a fill.
LEMMA ThresholdType ==
  ASSUME NEW h \in HeapType(Lowest), NEW a \in Area, NEW worst \in Nat, worst <= h.max_wc[a]
  PROVE  NewThreshold(h, a, worst) \in {w \in Nat : w >= FIXED_THRESHOLD}
  <1>1. h.max_wc[a] \in Nat /\ FIXED_THRESHOLD \in Nat  BY CallAssumption DEF HeapType
  <1> QED  BY <1>1 DEF NewThreshold

\* acquire_span_from_centralpool: the span, the spare pages, the threshold and
\* the revived lists, all in one critical section.
LEMMA FillSmallGood ==
  ASSUME NEW X, Good(X), NEW t \in Thread, FillSmall(t)
  PROVE  After(X, t)
  <1> DEFINE x == th[t].order[th[t].nvm_index]
             y == th[t].class
             Fills(r, b, w) ==
               /\ b.ok
               /\ heap' = IF w = threshold[t] THEN b.heap ELSE Revived(b.heap, t)
               /\ threshold' = [threshold EXCEPT ![t] = w]
               /\ Goto(t, [th[t] EXCEPT !.pc = "clock", !.span = r.span])
  <1>step. /\ At(t, "fill") /\ ~Large(t) /\ CanAcquire(heap, x, 0) /\ owner' = Unlock(x)
        /\ UNCHANGED <<foreground, live, calls, strayed>>
        /\ \E r \in {acquire_span(heap, x, 0)} :
           \E b \in {Batch(span_init(r.heap, r.span, y, y), x, t, r.span)} :
           \E w \in {NewThreshold(b.heap, x, b.worst)} : Fills(r, b, w)
    BY Zenon DEF FillSmall
  <1>1. PICK a, i : a = x /\ i = y  OBVIOUS
  <1>2. /\ th[t].pc = "fill" /\ i # -1 /\ CanAcquire(heap, a, 0) /\ owner' = Unlock(a)
        /\ UNCHANGED <<foreground, live, calls, strayed>>
    <2> HIDE DEF x, Fills
    <2> QED  BY <1>step, <1>1 DEF At, Large, y
  <1>3. PICK r, b, w :
          /\ r = acquire_span(heap, a, 0)
          /\ b = Batch(span_init(r.heap, r.span, i, i), a, t, r.span)
          /\ w = NewThreshold(b.heap, a, b.worst)
          /\ heap' = IF w = threshold[t] THEN b.heap ELSE Revived(b.heap, t)
          /\ threshold' = [threshold EXCEPT ![t] = w]
          /\ Picks(t, r.span)
    <2> HIDE DEF x, y, Fills
    <2>1. PICK r \in {acquire_span(heap, a, 0)} :
          \E b \in {Batch(span_init(r.heap, r.span, i, i), a, t, r.span)} :
          \E w \in {NewThreshold(b.heap, a, b.worst)} : Fills(r, b, w)
      BY <1>step, <1>1, Zenon
    <2>2. PICK b \in {Batch(span_init(r.heap, r.span, i, i), a, t, r.span)} :
          \E w \in {NewThreshold(b.heap, a, b.worst)} : Fills(r, b, w)
      BY <2>1, Zenon
    <2>3. PICK w \in {NewThreshold(b.heap, a, b.worst)} : Fills(r, b, w)  BY <2>2, Zenon
    <2> QED  BY <2>3, Zenon DEF Picks, Fills
  <1>4. /\ th[t] \in CallType /\ LocksGood /\ threshold \in Thresholds
    BY CallOf DEF Good, StateType
  <1>5. PICK k, c : k \in SUBSET Piece /\ CallGood(heap, k, c, foreground[t], th[t], live[t])
    BY CallOf
  <1>6. i \in Class  BY <1>1, <1>2, <1>4 DEF CallType, y
  <1>7. a \in Area /\ owner[a] = t  BY <1>1, <1>2, <1>4 DEF LocksGood, Holds
  <1>8. PICK K, C : HeapGood(X, heap, K, C, foreground, th, live)  BY DEF Good
  <1>9. Free(th[t]) /\ th[t].class = i  BY <1>1, <1>2 DEF Free, GivingUp
  <1>10. PICK s, g : s = r.span /\ g = span_init(r.heap, r.span, i, i)  OBVIOUS
  <1>11. PICK Y : /\ Y = X \ {s} /\ Filled(Y, heap, g, foreground, th, live, t, s) /\ s \in Spans
                  /\ g.hdr[s].wear_count <= g.max_wc[a]
    <2>1. /\ Filled(X \ {r.span}, heap, g, foreground, th, live, t, r.span) /\ r.span \in Spans
          /\ g.hdr[r.span].wear_count <= g.max_wc[a]
      BY <1>2, <1>3, <1>6, <1>7, <1>8, <1>9, <1>10, FirstFill
    <2> QED  BY <1>10, <2>1
  <1>12. /\ Filled(Y, heap, b.heap, foreground, th, live, t, s)
         /\ b.worst \in Nat /\ b.worst <= b.heap.max_wc[a]
    <2>1. b = Batch(g, a, t, s)  BY <1>3, <1>10
    <2> QED  BY <1>7, <1>9, <1>11, <2>1, BatchFills
  <1>13. PICK d : d = b.heap  OBVIOUS
  <1>14. Filled(Y, heap, heap', foreground, th, live, t, s)
    <2>1. CASE heap' = d  BY <1>12, <1>13, <2>1
    <2>2. CASE heap' = Revived(d, t)
      <3>1. PICK K1, C1 : Filling(Y, heap, d, K1, C1, foreground, th, live, t, s)
        BY <1>12, <1>13 DEF Filled
      <3> QED  BY <1>9, <2>2, <3>1, RevivedFills
    <2> QED  BY <1>3, <1>13, <2>1, <2>2
  <1>15. threshold' \in Thresholds
    <2>1. d \in HeapType(Lowest)  BY <1>12, <1>13 DEF Filled, Filling, HeapGood, Pool
    <2>2. w \in {v \in Nat : v >= FIXED_THRESHOLD}
      <3>1. PICK worst \in Nat : worst = b.worst /\ worst <= d.max_wc[a]  BY <1>12, <1>13
      <3>2. w = NewThreshold(d, a, worst)  BY <1>3, <1>13, <3>1
      <3> QED  BY <1>7, <2>1, <3>1, <3>2, ThresholdType
    <2> QED  BY <1>3, <1>4, <2>2 DEF Thresholds
  <1>16. PICK K2, C2 : Filling(Y, heap, heap', K2, C2, foreground, th, live, t, s)
    BY <1>14 DEF Filled
  <1>17. /\ HeapGood(Y, heap', K2, C2, foreground, th, live)
         /\ Untouched(heap, heap', t, th, live)
         /\ Unused(K2[t], C2[t], foreground[t], Blocks(th[t], live[t]), s)
         /\ Ready(heap', Blocks(th[t], live[t]), s, th[t].class)
    BY <1>16 DEF Filling
  <1>18. One(s) \in K2[t] /\ ~OnCache(C2[t], s)  BY <1>17 DEF Unused, Off
  <1>19. Unlocks(t) /\ Picks(t, s)  BY <1>2, <1>3, <1>7, <1>10 DEF Unlocks
  <1>20. th[t].pc \in {"acquire", "fill"} /\ th[t].class \in Class  BY <1>2, <1>6, <1>9
  <1>21. UNCHANGED <<foreground, live, calls, strayed>>  BY <1>2
  <1>22. HeapGood(X \ {s}, heap', K2, C2, foreground, th, live)  BY <1>11, <1>17
  <1> QED  BY <1>15, <1>17, <1>18, <1>19, <1>20, <1>21, <1>22, ChooseStep

-----------------------------------------------------------------------------
\* The call l that had no block yet is about to answer block b with call m.
Answers(l, m, b) ==
  l.addr = <<>> /\ b \in BlockType /\ m.pc = "account" /\ m.addr = b /\ m.span = b.span

\* A new block of span s, the only one there is to look at after the step.
LEMMA AnswerBlocks ==
  ASSUME NEW l, NEW m, NEW b, Answers(l, m, b), NEW bl
  PROVE  /\ Blocks(l, bl) = bl /\ Blocks(m, bl) = bl \cup {b}
         /\ \A x : x # b.span => Mates(Blocks(m, bl), x) = Mates(Blocks(l, bl), x)
         /\ Mates(Blocks(m, bl), b.span) = Mates(Blocks(l, bl), b.span) \cup {b}
  <1>1. b # <<>>  BY BlockThere DEF Answers
  <1>2. Blocks(l, bl) = bl /\ Blocks(m, bl) = bl \cup {b}  BY <1>1 DEF Answers, Blocks
  <1> QED  BY <1>2 DEF Mates

\* The call that answers is in order if its block is new.
LEMMA AnswerCall ==
  ASSUME NEW l, NEW m, NEW b, Answers(l, m, b), NEW bl, b \notin bl,
         NEW h, NEW k, NEW c, NEW f
  PROVE  CallGood(h, k, c, f, m, bl)
  BY DEF Answers, CallGood, Searching, Answering, GivingUp

\* acquire_span_from_centralpool1: a piece of several pages, for a new block.
LEMMA LargeHeap ==
  ASSUME NEW X, NEW h, NEW K, NEW C, NEW f, NEW l, NEW bl, HeapGood(X, h, K, C, f, l, bl),
         NEW t \in Thread, Free(l[t]), NEW a \in Area, NEW n \in LargeSize,
         CanAcquire(h, a, n - 1), NEW r, r = acquire_span(h, a, n - 1),
         NEW g, g = span_init(r.heap, r.span, n - 1, LARGE),
         NEW b, b = Block(r.span, 0, n),
         NEW l2, Only(t, l, l2), Answers(l[t], l2[t], b)
  PROVE  (\E K2, C2 : HeapGood(X, g, K2, C2, f, l2, bl)) /\ Untouched(h, g, t, l, bl)
  <1>1. PICK s, q : s = r.span /\ q = r.heap  OBVIOUS
  <1> DEFINE e    == [at |-> s, pages |-> n]
             K2   == [K EXCEPT ![t] = K[t] \cup {e}]
             use  == Blocks(l[t], bl[t])
             use2 == Blocks(l2[t], bl[t])
  <1>2. /\ K \in [Thread -> SUBSET Piece] /\ C \in [Thread -> Caches]
        /\ ThreadGood(h, t, K[t], C[t], f[t], l[t], bl[t])
    BY DEF HeapGood
  <1>3. PICK x \in 0..LARGE - 1 : x = n - 1 /\ n = x + 1
    <2>1. n \in 2..LARGE /\ LARGE \in Nat  BY CallAssumption, Sizes
    <2> QED  BY <2>1
  <1>4. /\ HeapGood(X \ PagesOf(e), q, K2, C, f, l, bl) /\ Untouched(h, q, t, l, bl)
        /\ e \in Piece /\ Unheld(K, e.at)
    <2> HIDE DEF e
    <2>1. CanAcquire(h, a, x) /\ r = acquire_span(h, a, x)  BY <1>3
    <2>2. e = [at |-> r.span, pages |-> x + 1]  BY <1>1, <1>3 DEF e
    <2> QED  BY SMTT(30), <1>1, <2>1, <2>2, AcquireHeap
  <1>5. e.at = s /\ s \in Spans  BY <1>4 DEF Piece
  <1>6. b = [span |-> s, pos |-> 0, size |-> n] /\ b.span = s /\ b.pos = 0 /\ b.size = n
    BY <1>1 DEF Block
  <1> HIDE DEF e
  <1>7. K2[t] = K[t] \cup {e}  BY <1>2
  <1>8. Off(C[t], f[t], s) /\ Mates(use, s) = {}
    <2>1. NoneAt(K[t], s)  BY <1>4, <1>5 DEF Unheld, NoneAt
    <2>2. Clear(C[t], f[t], use, s)  BY <1>2, <1>5, <2>1, NotReferred
    <2> QED  BY <2>2 DEF Clear
  <1>9. /\ use2 = use \cup {b} /\ Mates(use2, s) = {b}
        /\ \A y : y # s => Mates(use2, y) = Mates(use, y)
    BY <1>6, <1>8, AnswerBlocks
  <1>10. b \notin bl[t]
    <2>1. use = bl[t]  BY AnswerBlocks
    <2> QED  BY <1>6, <1>8, <2>1 DEF Mates
  <1> HIDE DEF K2, use, use2
  <1>11. PICK Y : Y = X \ PagesOf(e) /\ HeapGood(Y, q, K2, C, f, l, bl)  BY <1>4
  <1>12. PICK S, L : Base(Y, q, K2, C, S, L, t, C[t])  BY <1>11, BaseOf
  <1>13. q \in HeapType(Lowest) /\ HeadersGood(q) /\ q.hdr[s] \in HeaderType
    BY <1>4, <1>5 DEF HeapGood, Pool, HeapType
  <1>14. PICK v : v = Initialised(q.hdr[s], x, LARGE)  OBVIOUS
  <1>15. /\ Base(Y, g, K2, C, S, L, t, C[t]) /\ Local(q, g, t, K2[t], S, C)
         /\ Renewed(q, g, s, v)
    <2>1. g = span_init(q, e.at, x, LARGE) /\ v = Initialised(q.hdr[e.at], x, LARGE)
      BY <1>1, <1>3, <1>5, <1>14
    <2>2. e \in K2[t] /\ ~OnCache(C[t], e.at)  BY <1>5, <1>7, <1>8 DEF Off
    <2>3. x \in 0..LARGE /\ LARGE \in 0..LARGE /\ x < LARGE  BY <1>3, Sizes
    <2>4. PICK category \in 0..LARGE : category = LARGE  BY <2>3
    <2>5. g = span_init(q, e.at, x, category) /\ (category = LARGE => x < LARGE)
      BY <2>1, <2>3, <2>4
    <2>6. /\ Base(Y, g, K2, C, S, L, t, C[t]) /\ Local(q, g, t, K2[t], S, C)
          /\ Renewed(q, g, e.at, Initialised(q.hdr[e.at], x, category))
      BY <1>12, <2>2, <2>3, <2>5, InitStep
    <2> QED  BY <1>5, <2>1, <2>4, <2>6
  <1>16. /\ v.category = LARGE /\ v.page_num = n /\ HeaderGood(v)
    <2>1. x \in 0..LARGE /\ LARGE \in 0..LARGE /\ x < LARGE  BY <1>3, Sizes
    <2>2. v.category = LARGE /\ v.page_num = x + 1  BY <1>13, <1>14, <2>1, InitialisedHeader
    <2>3. v.bitmap = q.hdr[s].bitmap /\ v.free_block_num = q.hdr[s].free_block_num
      BY <1>13, <1>14, <2>1, InitialisedBlocks
    <2>4. HeaderGood(q.hdr[s])  BY <1>5, <1>13 DEF HeadersGood
    <2> QED  BY <1>3, <2>2, <2>3, <2>4 DEF HeaderGood
  <1>17. /\ Alters(q, g, s) /\ g.hdr[s] = v /\ g.entry[s - 1] = s
    BY <1>15 DEF Renewed, Alters
  <1>18. l2[t].pc = "account"  BY DEF Answers
  <1>19. Beyond(C[t], f[t], l[t], use, C[t], f[t], l2[t], use2, s)
    <2>1. \A y : Reached(C[t], f[t], l2[t], y) => Reached(C[t], f[t], l[t], y)
      BY <1>18 DEF Reached
    <2>2. \A d \in use2 : d.span # s => d \in use  BY <1>6, <1>9
    <2> QED  BY <1>9, <2>1, <2>2 DEF Beyond
  <1>20. Settled(g, K2[t], C[t], f[t], l2[t], use2, s)
    <2>1. ~Reached(C[t], f[t], l2[t], s)  BY SMTT(30), <1>8, <1>18 DEF Reached, Off, OnCache
    <2>2. LargeGood(g, K2[t], b)
      <3>1. [at |-> b.span, pages |-> b.size] \in K2[t]  BY <1>6, <1>7 DEF e
      <3> QED  BY <1>6, <1>16, <1>17, <3>1 DEF LargeGood
    <2>3. \A d \in use2 : d.span = s => BlockGood(g, K2[t], use2, d)
      BY <1>6, <1>9, <2>2 DEF Mates, BlockGood
    <2>4. s \notin C[t][0]  BY <1>8, ListNumbers DEF Off, OnCache
    <2> QED  BY <1>8, <2>1, <2>3, <2>4 DEF Settled, Off
  <1>21. CallGood(g, K2[t], C[t], f[t], l2[t], bl[t])  BY <1>10, AnswerCall
  <1>22. Only(t, f, f) /\ Only(t, bl, bl)  BY DEF Only
  <1>23. Recalls(Y, K2[t], C[t], f[t], l2[t], use2)
    <2>1. Recalls(Y, K2[t], C[t], f[t], l[t], use)  BY <1>11 DEF HeapGood, use
    <2>2. l[t].pc \notin {"clock"} \cup GivingUp  BY DEF Free
    <2>3. Keeping(C[t], f[t], l[t], use, C[t], f[t], l2[t], use2, s)
      BY <1>9, <1>18, <2>2 DEF Keeping, KeptAt
    <2>4. KeptAt(C[t], f[t], l2[t], use2, s)  BY <1>9 DEF KeptAt
    <2> QED  BY <2>1, <2>3, <2>4, RecallsElse
  <1>24. HeapGood(Y, g, K2, [C EXCEPT ![t] = C[t]], f, l2, bl) /\ Untouched(q, g, t, l, bl)
    <2>1. HeapGood(Y, q, K2, C, f, l, bl)  BY <1>11
    <2>2. s \in Spans => HeaderGood(g.hdr[s])  BY <1>16, <1>17
    <2>3. /\ Beyond(C[t], f[t], l[t], Blocks(l[t], bl[t]), C[t], f[t], l2[t], Blocks(l2[t], bl[t]), s)
          /\ Settled(g, K2[t], C[t], f[t], l2[t], Blocks(l2[t], bl[t]), s)
          /\ Recalls(Y, K2[t], C[t], f[t], l2[t], Blocks(l2[t], bl[t]))
      BY <1>19, <1>20, <1>23 DEF use, use2
    <2>4. Alters(q, g, s) /\ Only(t, f, f) /\ Only(t, l, l2) /\ Only(t, bl, bl)  BY <1>17, <1>22
    <2> QED  BY SMTT(60), <1>12, <1>15, <1>21, <2>1, <2>2, <2>3, <2>4, LocalElse
  <1>25. Untouched(h, g, t, l, bl)  BY <1>4, <1>24, UntouchedTwice
  <1>26. HeapGood(X, g, K2, C, f, l2, bl)
    <2>1. [C EXCEPT ![t] = C[t]] = C  BY <1>2
    <2>2. e \in K2[t] /\ HeapGood(X \ PagesOf(e), g, K2, C, f, l2, bl)
      BY <1>7, <1>24, <1>11, <2>1
    <2>3. KeptAt(C[t], f[t], l2[t], Blocks(l2[t], bl[t]), e.at)
      BY <1>5, <1>9 DEF KeptAt, use2
    <2> QED  BY <2>2, <2>3, Regained
  <1> QED  BY <1>25, <1>26

\* acquire_span_from_centralpool1.
LEMMA FillLargeGood ==
  ASSUME NEW X, Good(X), NEW t \in Thread, FillLarge(t)
  PROVE  After(X, t)
  <1> DEFINE x == th[t].order[th[t].nvm_index]
             y == th[t].pages
             Fills(r) ==
               /\ heap' = span_init(r.heap, r.span, y - 1, LARGE)
               /\ Goto(t, [th[t] EXCEPT !.pc = "account", !.span = r.span,
                                        !.addr = Block(r.span, 0, y)])
  <1>step. /\ At(t, "fill") /\ Large(t) /\ CanAcquire(heap, x, y - 1) /\ owner' = Unlock(x)
         /\ UNCHANGED <<foreground, threshold, live, calls, strayed>>
         /\ \E r \in {acquire_span(heap, x, y - 1)} : Fills(r)
    BY Zenon DEF FillLarge
  <1>1. PICK a, n : a = x /\ n = y  OBVIOUS
  <1>2. /\ th[t].pc = "fill" /\ th[t].class = -1 /\ CanAcquire(heap, a, n - 1)
        /\ owner' = Unlock(a)
        /\ UNCHANGED <<foreground, threshold, live, calls, strayed>>
    <2> HIDE DEF x, y, Fills
    <2> QED  BY <1>step, <1>1 DEF At, Large
  <1>3. PICK s, r, b, m :
          /\ r = acquire_span(heap, a, n - 1) /\ s = r.span
          /\ heap' = span_init(r.heap, r.span, n - 1, LARGE)
          /\ b = Block(r.span, 0, n)
          /\ m = [th[t] EXCEPT !.pc = "account", !.span = s, !.addr = b]
          /\ Goto(t, m)
    <2> HIDE DEF x, y, Fills
    <2>1. PICK r \in {acquire_span(heap, a, n - 1)} : Fills(r)  BY <1>step, <1>1, Zenon
    <2>2. PICK s, b : s = r.span /\ b = Block(r.span, 0, n)  OBVIOUS
    <2>3. /\ heap' = span_init(r.heap, r.span, n - 1, LARGE)
          /\ Goto(t, [th[t] EXCEPT !.pc = "account", !.span = s, !.addr = b])
      BY <2>1, <2>2, <1>1, Zenon DEF Fills
    <2>4. PICK m : m = [th[t] EXCEPT !.pc = "account", !.span = s, !.addr = b]  OBVIOUS
    <2>5. Goto(t, m)  BY <2>3, <2>4, Zenon
    <2> QED  BY <2>1, <2>2, <2>3, <2>4, <2>5, Zenon
  <1>4. /\ th[t] \in CallType /\ th \in [Thread -> CallType] /\ LocksGood /\ StateType
    BY CallOf DEF Good
  <1>5. PICK k, c : k \in SUBSET Piece /\ CallGood(heap, k, c, foreground[t], th[t], live[t])
    BY CallOf
  <1>6. n \in LargeSize /\ th[t].addr = <<>>
    BY <1>1, <1>2, <1>5 DEF CallGood, Searching, Answering
  <1>7. a \in Area /\ owner[a] = t  BY <1>1, <1>2, <1>4 DEF LocksGood, Holds
  <1>8. PICK K, C : HeapGood(X, heap, K, C, foreground, th, live)  BY DEF Good
  <1>9. PICK z \in 0..LARGE - 1 : z = n - 1 /\ n \in Nat /\ n = z + 1
    <2>1. n \in 2..LARGE /\ LARGE \in Nat  BY <1>6, CallAssumption, Sizes
    <2> QED  BY <2>1
  <1>10. s \in Spans
    <2>1. PICK e : e = [at |-> r.span, pages |-> z + 1]  OBVIOUS
    <2>2. CanAcquire(heap, a, z) /\ r = acquire_span(heap, a, z)  BY <1>2, <1>3, <1>9
    <2>3. PICK S, H, L : Pool(Lowest, heap, S, H, L)  BY <1>8 DEF HeapGood
    <2>4. e \in Piece
      <3>1. Acquired(Lowest, heap, r, a, e, H, L)
        BY <1>7, <2>1, <2>2, <2>3, LowestNodes, AcquirePool
      <3> QED  BY <3>1 DEF Acquired
    <2>5. e.at \in Spans  BY <2>4 DEF Piece
    <2> QED  BY <1>3, <2>1, <2>5
  <1>11. b \in BlockType /\ b.span = s  BY <1>3, <1>9, <1>10 DEF Block, BlockType
  <1>12. /\ m.pc = "account" /\ m.span = s /\ m.addr = b /\ m.class = th[t].class
         /\ m.order = th[t].order /\ m.nvm_index = th[t].nvm_index /\ m.pages = th[t].pages
    BY <1>3, <1>4 DEF CallType
  <1>13. m \in CallType
    <2>1. "account" \in PCs  BY DEF PCs
    <2> QED  BY <1>3, <1>4, <1>10, <1>11, <2>1 DEF CallType
  <1>14. th'[t] = m /\ Only(t, th, th') /\ th' \in [Thread -> CallType]
    BY <1>3, <1>4, <1>13, GotoEffect
  <1>15. Answers(th[t], th'[t], b)  BY <1>6, <1>11, <1>12, <1>14 DEF Answers
  <1>16. Free(th[t])  BY <1>2 DEF Free, GivingUp
  <1>17. /\ \E K2, C2 : HeapGood(X, heap', K2, C2, foreground, th', live)
         /\ Untouched(heap, heap', t, th, live)
    BY <1>2, <1>3, <1>6, <1>7, <1>8, <1>14, <1>15, <1>16, LargeHeap
  <1>18. PICK K2, C2 : HeapGood(X, heap', K2, C2, foreground', th', live')  BY <1>2, <1>17
  <1>19. LocksGood'
    <2>1. th'[t].pc \notin {"fill", "accounting", "giving"}  BY <1>12, <1>14
    <2> QED  BY <1>2, <1>4, <1>7, <1>14, <2>1, LocksFreed
  <1>20. StateType'  BY <1>2, <1>4, <1>14 DEF StateType
  <1> QED  BY <1>17, <1>18, <1>19, <1>20, AfterOf

-----------------------------------------------------------------------------
\* The block that the clock hand of header v comes to, and the header after it.
HandAt(v)   == FirstFree(Rescanned(v, TotalBlocks(v.category)).bitmap,
                         Rescanned(v, TotalBlocks(v.category)).cur_pos)
HandOver(v) == HandedOut(Rescanned(v, TotalBlocks(v.category)), TotalBlocks(v.category), HandAt(v))

\* The hand always comes to a free block, and only that one is handed out.
LEMMA HandFree ==
  ASSUME NEW v \in HeaderType, v.category \in Class, v.bitmap # {},
         v.bitmap \subseteq 1..TotalBlocks(v.category)
  PROVE  /\ HandAt(v) \in v.bitmap /\ HandOver(v) \in HeaderType
         /\ HandOver(v).bitmap = v.bitmap \ {HandAt(v)} /\ HandOver(v).category = v.category
         /\ HandOver(v).free_block_num = v.free_block_num - 1
  <1> DEFINE n == TotalBlocks(v.category)
             r == Rescanned(v, n)
             p == HandAt(v)
  <1>1. n \in 1..PageUnits /\ PageUnits \in Nat  BY ClassBlocks, Sizes
  <1> HIDE DEF n
  <1>2. /\ r \in HeaderType /\ r.bitmap = v.bitmap /\ r.category = v.category
        /\ r.free_block_num = v.free_block_num
        /\ r.cur_pos = IF Rescans(v, n) THEN 0 ELSE v.cur_pos
    <2>1. CASE Rescans(v, n)
      <3>1. r = [v EXCEPT !.wear_count = v.wear_count + 1, !.cur_pos = 0]
        BY <2>1 DEF Rescanned
      <3>2. PICK w \in Nat, z \in Int : w = v.wear_count + 1 /\ z = 0  BY DEF HeaderType
      <3>3. PICK u : u = [v EXCEPT !.wear_count = w, !.cur_pos = z]  OBVIOUS
      <3> HIDE DEF r
      <3>4. /\ u \in HeaderType /\ u.bitmap = v.bitmap /\ u.category = v.category
            /\ u.free_block_num = v.free_block_num /\ u.cur_pos = z
        BY <3>3 DEF HeaderType
      <3>5. r = u  BY <3>1, <3>2, <3>3
      <3> QED  BY <2>1, <3>2, <3>4, <3>5
    <2>2. CASE ~Rescans(v, n)
      <3>1. r = v  BY <2>2 DEF Rescanned
      <3> QED  BY <2>2, <3>1
    <2> QED  BY <2>1, <2>2
  <1> HIDE DEF r
  <1> DEFINE ahead == {b \in r.bitmap : b > r.cur_pos}
  <1>3. ahead \in SUBSET Nat /\ ahead # {}
    <2>1. v.bitmap \subseteq 1..n /\ v.cur_pos \in Int  BY DEF n, HeaderType
    <2>2. CASE Rescans(v, n)
      <3>1. r.cur_pos = 0 /\ \A b \in v.bitmap : b \in Nat /\ b > 0  BY <1>1, <1>2, <2>1, <2>2
      <3> QED  BY <1>2, <3>1
    <2>3. CASE ~Rescans(v, n)
      <3>1. \E b \in v.bitmap : ~(b <= v.cur_pos)  BY <2>3 DEF Rescans
      <3>2. \A b \in v.bitmap : b \in Nat  BY <1>1, <2>1
      <3> QED  BY <1>2, <2>1, <2>3, <3>1, <3>2
    <2> QED  BY <2>2, <2>3
  <1>4. p \in ahead
    <2>1. p = IF ahead = {} THEN 33 ELSE CHOOSE b \in ahead : IsLowest(b, ahead)
      BY DEF HandAt, FirstFree, r, n
    <2> HIDE DEF ahead
    <2>2. PICK b \in ahead : \A c \in ahead : b <= c  BY <1>3, LeastNat
    <2>3. IsLowest(b, ahead)  BY <2>2 DEF IsLowest
    <2> QED  BY <1>3, <2>1, <2>3
  <1>5. p \in v.bitmap /\ p \in Int  BY <1>2, <1>3, <1>4
  <1> HIDE DEF p, ahead
  <1>6. PICK B, w, m :
          /\ B = r.bitmap \ {p} /\ m = r.free_block_num - 1
          /\ w = IF p = n THEN r.wear_count + 1 ELSE r.wear_count
    OBVIOUS
  <1>7. B \in SUBSET Int /\ m \in Int /\ w \in Nat  BY <1>2, <1>6 DEF HeaderType
  <1>8. HandOver(v) = [r EXCEPT !.cur_pos = p, !.bitmap = B, !.wear_count = w,
                                !.free_block_num = m]
    BY <1>6 DEF HandOver, HandedOut, n, r, p
  <1>9. PICK d : d = [r EXCEPT !.cur_pos = p, !.bitmap = B, !.wear_count = w,
                               !.free_block_num = m]
    OBVIOUS
  <1>10. /\ d \in HeaderType /\ d.bitmap = B /\ d.category = r.category /\ d.free_block_num = m
    BY <1>2, <1>5, <1>7, <1>9 DEF HeaderType
  <1>11. /\ HandOver(v).bitmap = v.bitmap \ {p} /\ HandOver(v).category = v.category
         /\ HandOver(v).free_block_num = v.free_block_num - 1 /\ HandOver(v) \in HeaderType
    BY <1>2, <1>6, <1>8, <1>9, <1>10
  <1> QED  BY <1>5, <1>11 DEF p

\* From h to g, span s has given its block at p.
Gives(h, g, s, p) ==
  /\ p \in h.hdr[s].bitmap /\ g.hdr[s].bitmap = h.hdr[s].bitmap \ {p}
  /\ g.hdr[s].category = h.hdr[s].category
  /\ g.hdr[s].free_block_num = h.hdr[s].free_block_num - 1
  /\ g.entry = h.entry

\* From use to use2, block b of span s has come.
Gains(use, use2, s, b) == Mates(use2, s) = Mates(use, s) \cup {b}

\* A span that has given its block to those in use serves one more.
LEMMA ServesMore ==
  ASSUME NEW h, NEW g, NEW s, NEW use, NEW use2, NEW b, Serves(h, use, s),
         Gains(use, use2, s, b), NEW p, p = b.pos, Gives(h, g, s, p)
  PROVE  /\ Serves(g, use2, s) /\ g.hdr[s].free_block_num \in 0..PageUnits
         /\ g.hdr[s].free_block_num # 0 => g.hdr[s].bitmap # {}
  <1> DEFINE n == TotalBlocks(h.hdr[s].category)
             B == h.hdr[s].bitmap
  <1>1. /\ Mates(use2, s) = Mates(use, s) \cup {b} /\ p = b.pos /\ p \in B
        /\ g.hdr[s].bitmap = B \ {p} /\ g.hdr[s].category = h.hdr[s].category
        /\ g.hdr[s].free_block_num = h.hdr[s].free_block_num - 1 /\ g.entry = h.entry
    BY DEF Gains, Gives
  <1>2. n \in 1..PageUnits /\ PageUnits \in Nat  BY ClassBlocks, Sizes DEF Serves
  <1>3. /\ h.hdr[s].category \in Class /\ h.entry[s - 1] = s
        /\ B = (1..n) \ {d.pos : d \in Mates(use, s)}
        /\ h.hdr[s].free_block_num = Cardinality(B)
    BY DEF Serves
  <1> HIDE DEF n, B
  <1>4. /\ IsFiniteSet(B) /\ Cardinality(B) \in Nat /\ Cardinality(B) <= n
        /\ Cardinality(B \ {p}) = Cardinality(B) - 1 /\ IsFiniteSet(B \ {p})
    <2>1. IsFiniteSet(1..n) /\ Cardinality(1..n) = n
      <3>1. 1 \in Int /\ n \in Int  BY <1>2
      <3>2. IsFiniteSet(1..n) /\ Cardinality(1..n) = IF 1 > n THEN 0 ELSE n - 1 + 1
        BY <3>1, FS_Interval, Zenon
      <3> QED  BY <1>2, <3>2
    <2>2. B \in SUBSET (1..n)  BY <1>3
    <2>3. IsFiniteSet(B) /\ Cardinality(B) <= Cardinality(1..n)  BY <2>1, <2>2, FS_Subset, Zenon
    <2>4. p \in B  BY <1>1
    <2>5. IsFiniteSet(B \ {p}) /\ Cardinality(B \ {p}) = Cardinality(B) - 1
      BY <2>3, <2>4, FS_RemoveElement, Zenon
    <2>6. Cardinality(B) \in Nat  BY <2>3, FS_CardinalityType, Zenon
    <2> QED  BY <2>1, <2>3, <2>5, <2>6
  <1>5. Cardinality(B \ {p}) \in Nat  BY <1>4, FS_CardinalityType, Zenon
  <1>6. g.hdr[s].bitmap = (1..n) \ {d.pos : d \in Mates(use2, s)}
    <2>1. g.hdr[s].bitmap = B \ {p}  BY <1>1
    <2>2. {d.pos : d \in Mates(use2, s)} = {d.pos : d \in Mates(use, s)} \cup {p}  BY <1>1
    <2> QED  BY <1>3, <2>1, <2>2
  <1>7. /\ g.hdr[s].free_block_num = Cardinality(B \ {p})
        /\ g.hdr[s].free_block_num # n /\ g.hdr[s].free_block_num \in 0..PageUnits
    BY <1>1, <1>2, <1>3, <1>4, <1>5
  <1>8. g.hdr[s].bitmap = B \ {p}  BY <1>1
  <1>9. g.hdr[s].free_block_num # 0 => g.hdr[s].bitmap # {}
    <2>1. Cardinality({}) = 0  BY FS_EmptySet, Zenon
    <2> QED  BY <1>7, <1>8, <2>1
  <1>10. Serves(g, use2, s)  BY <1>1, <1>3, <1>6, <1>7, <1>8 DEF Serves, n
  <1> QED  BY <1>7, <1>9, <1>10

\* The foreground span of class i of thread t is now x.
Fronts(f, f2, t, i, x) ==
  Only(t, f, f2) /\ f2[t][i] = x /\ \A j \in Class : j # i => f2[t][j] = f[t][j]

\* Call l is at the clock with span s, for a block of class i.
AtClock(l, s, i) == l.pc = "clock" /\ s = l.span /\ i = l.class

\* The clock hand of span s moves on to block b, and s stays in the foreground
\* (x) as long as it has a free block.
Ticks(h, g, s, v, b, x) ==
  /\ v = HandOver(h.hdr[s]) /\ g = [h EXCEPT !.hdr[s] = v]
  /\ b = Block(s, HandAt(h.hdr[s]), h.hdr[s].category + 1)
  /\ x = IF v.free_block_num = 0 THEN NULL ELSE s

\* The heap is in order for some division of the pages.
Ordered(X, h, f, l, bl) == \E K, C : HeapGood(X, h, K, C, f, l, bl)

\* Call l goes on to answer b, if that is a block.
Answered(l, m, b) == b \in BlockType => Answers(l, m, b)

\* span_clock_allocate: the span in hand is the foreground span, as long as it
\* has a free block, and its next free block is the answer.
LEMMA ClockHeap ==
  ASSUME NEW X, NEW h, NEW K, NEW C, NEW f, NEW l, NEW bl, HeapGood(X, h, K, C, f, l, bl),
         NEW t \in Thread, NEW s, NEW i, AtClock(l[t], s, i), Fronted(l[t], f[t]),
         NEW v, NEW g, NEW b, NEW x, Ticks(h, g, s, v, b, x),
         NEW f2, Fronts(f, f2, t, i, x), NEW l2, Only(t, l, l2),
         Answered(l[t], l2[t], b)
  PROVE  /\ Ordered(X, g, f2, l2, bl) /\ Untouched(h, g, t, l, bl)
         /\ s \in Spans /\ i \in Class /\ b \in BlockType /\ l[t].addr = <<>>
  <1> DEFINE use  == Blocks(l[t], bl[t])
             use2 == Blocks(l2[t], bl[t])
             c    == C[t]
             p    == HandAt(h.hdr[s])
             n    == TotalBlocks(h.hdr[s].category)
  <1>1. PICK S, L : Base(X, h, K, C, S, L, t, C[t])  BY BaseOf
  <1>2. /\ c \in Caches /\ ThreadGood(h, t, K[t], c, f[t], l[t], bl[t])
        /\ K[t] \in SUBSET Piece /\ h \in HeapType(Lowest)
        /\ ForegroundGood(h, K[t], c, f[t]) /\ ReachedGood(h, c, f[t], l[t], use)
        /\ BlocksGood(h, K[t], use) /\ CallGood(h, K[t], c, f[t], l[t], bl[t])
    BY <1>1 DEF Base, HeapGood, Pool, ThreadGood
  <1>3. /\ i \in Class /\ One(s) \in K[t] /\ h.hdr[s].category = i /\ ~OnCache(c, s)
        /\ l[t].addr = <<>>
    BY <1>2 DEF CallGood, ChosenGood, Answering, AtClock
  <1>4. One(s).at = s /\ s \in Spans /\ s # NULL
    <2>1. One(s).at = s  BY DEF One
    <2>2. s \in Spans  BY <1>2, <1>3, <2>1 DEF Piece
    <2> QED  BY <2>1, <2>2, LowestNodes, NodesIn
  <1>5. Serves(h, use, s) /\ h.hdr[s].bitmap # {} /\ h.hdr[s] \in HeaderType
    <2>1. Reached(c, f[t], l[t], s)  BY <1>4 DEF Reached, AtClock
    <2> QED  BY <1>2, <1>4, <2>1 DEF ReachedGood, HeapType
  <1>6. /\ v = HandOver(h.hdr[s]) /\ g = [h EXCEPT !.hdr[s] = v]
        /\ b = Block(s, p, h.hdr[s].category + 1)
        /\ x = IF v.free_block_num = 0 THEN NULL ELSE s
    BY DEF Ticks
  <1> HIDE DEF p, use, use2, c
  <1>7. h.hdr[s].bitmap = (1..n) \ {d.pos : d \in Mates(use, s)}  BY <1>5 DEF Serves
  <1>8. n \in 1..PageUnits /\ PageUnits \in Nat  BY <1>3, ClassBlocks, Sizes
  <1> HIDE DEF n
  <1>9. /\ p \in h.hdr[s].bitmap /\ v \in HeaderType /\ v.bitmap = h.hdr[s].bitmap \ {p}
        /\ v.category = i /\ v.free_block_num = h.hdr[s].free_block_num - 1
    <2>1. h.hdr[s].bitmap \subseteq 1..TotalBlocks(h.hdr[s].category)  BY <1>7 DEF n
    <2> QED  BY <1>6, <1>3, <1>5, <2>1, HandFree DEF p
  <1>10. p \in 1..n /\ p # 0  BY <1>7, <1>8, <1>9
  <1>11. b = [span |-> s, pos |-> p, size |-> i + 1] /\ b.span = s /\ b.pos = p /\ b.size = i + 1
    BY <1>6, <1>3 DEF Block
  <1>12. b \in BlockType
    <2>1. i \in 0..PageUnits - 1  BY <1>3, ClassBlocks
    <2>2. p \in Nat /\ i + 1 \in Nat  BY <1>8, <1>10, <2>1
    <2> QED  BY <1>4, <1>11, <2>2 DEF BlockType
  <1>13. Answers(l[t], l2[t], b)  BY <1>12 DEF Answered
  <1>14. /\ use2 = use \cup {b} /\ use = bl[t] /\ Mates(use2, s) = Mates(use, s) \cup {b}
         /\ \A y : y # s => Mates(use2, y) = Mates(use, y)
    BY <1>11, <1>13, AnswerBlocks DEF use, use2
  <1>15. b \notin bl[t]
    <2>1. ASSUME b \in bl[t]  PROVE FALSE
      <3>1. b \in Mates(use, s)  BY <1>11, <1>14, <2>1 DEF Mates
      <3> QED  BY <1>7, <1>9, <1>11, <3>1
    <2> QED  BY <2>1
  <1>16. Base(X, g, K, C, S, L, t, c) /\ Local(h, g, t, K[t], S, C) /\ Headed(h, g, s, v)
    <2>1. Base(X, h, K, C, S, L, t, c)  BY <1>1 DEF c
    <2>2. Sets(h, g, s, v) /\ Keeps(h, c, s, v)  BY <1>6, <1>3, <1>9 DEF Sets, Keeps
    <2> QED  BY <1>3, <1>9, <2>1, <2>2, HdrStep
  <1>17. Alters(h, g, s) /\ g.hdr[s] = v /\ g.entry = h.entry  BY <1>16 DEF Headed, Alters
  <1>18. /\ Serves(g, use2, s) /\ v.free_block_num \in 0..PageUnits
         /\ v.free_block_num # 0 => v.bitmap # {}
    <2>1. p = b.pos /\ Gives(h, g, s, p) /\ Gains(use, use2, s, b)
      BY <1>3, <1>9, <1>11, <1>14, <1>17 DEF Gives, Gains
    <2>2. /\ Serves(g, use2, s) /\ g.hdr[s].free_block_num \in 0..PageUnits
          /\ g.hdr[s].free_block_num # 0 => g.hdr[s].bitmap # {}
      BY <1>5, <2>1, ServesMore
    <2> QED  BY <1>17, <2>2
  <1>19. HeaderGood(v)
    <2>1. v.bitmap \subseteq 1..PageUnits  BY <1>7, <1>8, <1>9
    <2> QED  BY <1>3, <1>9, <1>18, <2>1 DEF HeaderGood
  <1>20. l2[t].pc = "account"  BY <1>13 DEF Answers
  <1>21. /\ f2[t][i] = x /\ Only(t, f, f2) /\ \A j \in Class : j # i => f2[t][j] = f[t][j]
    BY DEF Fronts
  <1>22. \A j \in Class : f2[t][j] = s => j = i /\ v.free_block_num # 0
    <2>1. ASSUME NEW j \in Class, j # i, f[t][j] = s  PROVE FALSE
      <3>1. h.hdr[s].category = j  BY <1>2, <1>4, <2>1 DEF ForegroundGood
      <3> QED  BY <1>3, <2>1, <3>1
    <2> QED  BY <1>6, <1>4, <1>21, <2>1
  <1>23. Beyond(c, f[t], l[t], use, c, f2[t], l2[t], use2, s)
    <2>1. \A y : y # s => (Reached(c, f2[t], l2[t], y) => Reached(c, f[t], l[t], y))
      BY <1>6, <1>3, <1>20, <1>21 DEF Reached
    <2>2. \A d \in use2 : d.span # s => d \in use  BY <1>11, <1>14
    <2>3. \A j \in Class : f2[t][j] # s => f2[t][j] \in {f[t][j], NULL}  BY <1>6, <1>21
    <2> QED  BY <1>14, <2>1, <2>2, <2>3 DEF Beyond
  <1>24. Settled(g, K[t], c, f2[t], l2[t], use2, s)
    <2>1. \A j \in Class : f2[t][j] = s =>
            One(s) \in K[t] /\ ~OnCache(c, s) /\ g.hdr[s].category = j
      BY <1>3, <1>9, <1>17, <1>22
    <2>2. Reached(c, f2[t], l2[t], s) => Serves(g, use2, s) /\ g.hdr[s].bitmap # {}
      BY <1>3, <1>17, <1>18, <1>20, <1>22 DEF Reached, OnCache
    <2>3. ASSUME NEW d \in use2, d.span = s  PROVE BlockGood(g, K[t], use2, d)
      <3>1. d.pos \in 1..n /\ d.size = i + 1
        <4>1. CASE d = b  BY <1>10, <1>11, <4>1
        <4>2. CASE d \in use
          <5>1. d.pos # 0
            <6>1. ASSUME d.pos = 0  PROVE FALSE
              <7>1. h.hdr[s].category = LARGE
                BY <1>2, <2>3, <4>2, <6>1 DEF BlocksGood, LargeGood
              <7> QED  BY <1>3, <7>1, ClassBlocks
            <6> QED  BY <6>1
          <5>2. SmallGood(h, K[t], use, d)  BY <1>2, <4>2, <5>1 DEF BlocksGood
          <5> QED  BY <1>3, <2>3, <5>2 DEF SmallGood, n
        <4> QED  BY <1>14, <4>1, <4>2
      <3>2. d.pos # 0  BY <1>8, <3>1
      <3>3. SmallGood(g, K[t], use2, d)
        BY <1>3, <1>9, <1>17, <1>18, <2>3, <3>1 DEF SmallGood, n
      <3> QED  BY <3>2, <3>3 DEF BlockGood
    <2>4. s \notin c[0]  BY <1>3, ListNumbers DEF OnCache
    <2> QED  BY <2>1, <2>2, <2>3, <2>4 DEF Settled
  <1>25. CallGood(g, K[t], c, f2[t], l2[t], bl[t])  BY <1>13, <1>15, AnswerCall
  <1>26. Only(t, bl, bl)  BY DEF Only
  <1>27. Recalls(X, K[t], c, f2[t], l2[t], use2)
    <2>1. Recalls(X, K[t], c, f[t], l[t], use)  BY DEF HeapGood, use, c
    <2>2. f[t][i] \in {NULL, s} /\ l[t].span = s  BY DEF Fronted, AtClock
    <2>3. \A y : y # s /\ KeptAt(c, f[t], l[t], use, y) => KeptAt(c, f2[t], l2[t], use2, y)
      BY <1>3, <1>14, <1>20, <1>21, <2>2 DEF KeptAt
    <2>4. KeptAt(c, f2[t], l2[t], use2, s)  BY <1>14 DEF KeptAt
    <2> QED  BY <2>1, <2>3, <2>4, RecallsElse DEF Keeping
  <1>28. HeapGood(X, g, K, [C EXCEPT ![t] = c], f2, l2, bl) /\ Untouched(h, g, t, l, bl)
    <2>1. s \in Spans => HeaderGood(g.hdr[s])  BY <1>17, <1>19
    <2> QED
      BY <1>1, <1>16, <1>17, <1>21, <1>23, <1>24, <1>25, <1>26, <1>27, <2>1, LocalElse
      DEF use, use2, c
  <1> QED  BY <1>3, <1>4, <1>12, <1>28 DEF Ordered

\* span_clock_allocate hands a block out: no block in use is at its place, and
\* the header agrees with one more block of the thread.
LEMMA ClockGood ==
  ASSUME NEW X, Good(X), NEW t \in Thread, Fronted(th[t], foreground[t]), Clock(t)
  PROVE  After(X, t)
  <1> DEFINE z == th[t].span
             n == TotalBlocks(heap.hdr[z].category)
             r == Rescanned(heap.hdr[z], n)
             p == FirstFree(r.bitmap, r.cur_pos)
             d == HandedOut(r, n, p)
  <1>1. /\ At(t, "clock")
        /\ heap' = [heap EXCEPT !.hdr[z] = d]
        /\ foreground' = [foreground EXCEPT
             ![t][th[t].class] = IF d.free_block_num = 0 THEN NULL ELSE z]
        /\ Goto(t, [th[t] EXCEPT !.pc = "account",
                                 !.addr = Block(z, p, heap.hdr[z].category + 1)])
        /\ UNCHANGED <<threshold, owner, live, calls, strayed>>
    BY Zenon DEF Clock
  <1>2. PICK s, i, v, b, x, m :
          /\ s = th[t].span /\ i = th[t].class /\ v = HandOver(heap.hdr[s])
          /\ heap' = [heap EXCEPT !.hdr[s] = v]
          /\ x = IF v.free_block_num = 0 THEN NULL ELSE s
          /\ foreground' = [foreground EXCEPT ![t][i] = x]
          /\ b = Block(s, HandAt(heap.hdr[s]), heap.hdr[s].category + 1)
          /\ m = [th[t] EXCEPT !.pc = "account", !.addr = b]
          /\ Goto(t, m)
    <2>1. d = HandOver(heap.hdr[z]) /\ p = HandAt(heap.hdr[z])  BY Zenon DEF HandOver, HandAt
    <2> HIDE DEF z, d, p, n, r
    <2>2. PICK v, x, b :
            /\ v = d /\ x = (IF d.free_block_num = 0 THEN NULL ELSE z)
            /\ b = Block(z, p, heap.hdr[z].category + 1)
      OBVIOUS
    <2>3. PICK m : m = [th[t] EXCEPT !.pc = "account", !.addr = b]  OBVIOUS
    <2>4. Goto(t, m)  BY <1>1, <2>2, <2>3, Zenon
    <2>5. /\ heap' = [heap EXCEPT !.hdr[z] = v]
          /\ foreground' = [foreground EXCEPT ![t][th[t].class] = x]
      BY <1>1, <2>2, Zenon
    <2>6. z = th[t].span  BY DEF z
    <2> QED  BY <2>1, <2>2, <2>3, <2>4, <2>5, <2>6, Zenon
  <1> HIDE DEF z, n, r, p, d
  <1>3. /\ th[t] \in CallType /\ th \in [Thread -> CallType] /\ LocksGood /\ StateType
        /\ foreground \in [Thread -> [Class -> Spans \cup {NULL}]]
    BY SMTT(30), CallOf DEF Good, StateType
  <1>4. PICK K, C : HeapGood(X, heap, K, C, foreground, th, live)  BY DEF Good
  <1>5. AtClock(th[t], s, i) /\ Ticks(heap, heap', s, v, b, x)
    BY <1>1, <1>2 DEF At, AtClock, Ticks
  <1>6. Fronts(foreground, foreground', t, i, x)
    <2>1. i \in Class /\ foreground[t] \in [Class -> Spans \cup {NULL}]
      <3>1. CallGood(heap, K[t], C[t], foreground[t], th[t], live[t])
        BY SMTT(30), <1>4 DEF HeapGood, ThreadGood
      <3> QED  BY <1>3, <1>5, <3>1 DEF CallGood, ChosenGood, AtClock
    <2>2. foreground'[t] = [foreground[t] EXCEPT ![i] = x]  BY SMTT(30), <1>2, <1>3
    <2>3. Only(t, foreground, foreground')  BY SMTT(30), <1>2, <1>3 DEF Only
    <2> QED  BY <2>1, <2>2, <2>3 DEF Fronts
  <1>7. /\ m.pc = "account" /\ m.addr = b /\ m.span = s /\ m.class = th[t].class
        /\ m.order = th[t].order /\ m.nvm_index = th[t].nvm_index /\ m.pages = th[t].pages
    BY SMTT(30), <1>2, <1>3 DEF CallType
  <1>8. th'[t] = m /\ Only(t, th, th')  BY <1>2, <1>3 DEF Goto, Only
  <1>9. th[t].addr = <<>>
    <2>1. CallGood(heap, K[t], C[t], foreground[t], th[t], live[t])
      BY <1>4 DEF HeapGood, ThreadGood
    <2> QED  BY <1>5, <2>1 DEF CallGood, AtClock, Answering
  <1>10. Answered(th[t], th'[t], b)
    <2>1. b.span = s  BY <1>2 DEF Block
    <2> QED  BY SMTT(30), <1>7, <1>8, <1>9, <2>1 DEF Answers, Answered
  <1>11. /\ Ordered(X, heap', foreground', th', live)
         /\ Untouched(heap, heap', t, th, live)
         /\ s \in Spans /\ i \in Class /\ b \in BlockType
    BY <1>4, <1>5, <1>6, <1>8, <1>10, ClockHeap
  <1>12. PICK K2, C2 : HeapGood(X, heap', K2, C2, foreground', th', live')
    BY <1>1, <1>11 DEF Ordered
  <1>13. m \in CallType
    <2>1. "account" \in PCs  BY DEF PCs
    <2>2. m = [th[t] EXCEPT !.pc = "account", !.addr = b] /\ b \in BlockType  BY <1>2, <1>11, Zenon
    <2>3. th[t] \in CallType  BY SMTT(30), <1>3
    <2> QED  BY ONLY <2>1, <2>2, <2>3 DEF CallType
  <1>14. th' \in [Thread -> CallType]  BY <1>2, <1>3, <1>13, GotoEffect
  <1>15. LocksGood'
    <2>1. th'[t].pc \notin {"fill", "accounting", "giving"}  BY <1>7, <1>8
    <2> QED  BY <1>1, <1>3, <1>8, <2>1, LocksKept
  <1>16. foreground' \in [Thread -> [Class -> Spans \cup {NULL}]]
    <2>1. x \in Spans \cup {NULL}
      <3>1. x = (IF v.free_block_num = 0 THEN NULL ELSE s) /\ s \in Spans  BY <1>2, <1>11, Zenon
      <3> QED  BY ONLY <3>1
    <2>2. [foreground[t] EXCEPT ![i] = x] \in [Class -> Spans \cup {NULL}]  BY <1>3, <2>1
    <2>3. foreground' = [foreground EXCEPT ![t] = [foreground[t] EXCEPT ![i] = x]]  BY <1>2
    <2> QED  BY <1>3, <2>2, <2>3
  <1>17. StateType'  BY <1>1, <1>3, <1>14, <1>16 DEF StateType
  <1> QED  BY <1>11, <1>12, <1>15, <1>17, AfterOf

\* The blocks of the acting thread do not matter to the others.
LEMMA UntouchedElse ==
  ASSUME NEW h, NEW g, NEW t, NEW l, NEW l2, NEW bl, NEW bl2, Only(t, l, l2), Only(t, bl, bl2),
         Untouched(h, g, t, l2, bl2)
  PROVE  Untouched(h, g, t, l, bl)
  BY DEF Untouched, Only

\* A header whose span has been charged a unit of wear.
Charged(v, w) == w = [v EXCEPT !.wear_count = @ + 1]

\* All else in the header is as it was.
LEMMA ChargedHeader ==
  ASSUME NEW v \in HeaderType, NEW w, Charged(v, w)
  PROVE  /\ w \in HeaderType /\ w.bitmap = v.bitmap /\ w.category = v.category
         /\ w.free_block_num = v.free_block_num /\ w.cur_pos = v.cur_pos
         /\ w.page_num = v.page_num
  <1>1. PICK x \in Nat : x = v.wear_count + 1  BY DEF HeaderType
  <1>2. w = [v EXCEPT !.wear_count = x]  BY <1>1 DEF Charged
  <1> QED  BY ONLY <1>2, v \in HeaderType, x \in Nat DEF HeaderType

\* A span that is charged serves as before.
ServesAlike(h, g, s) ==
  /\ g.hdr[s].bitmap = h.hdr[s].bitmap /\ g.hdr[s].category = h.hdr[s].category
  /\ g.hdr[s].free_block_num = h.hdr[s].free_block_num /\ g.hdr[s].cur_pos = h.hdr[s].cur_pos
  /\ g.hdr[s].page_num = h.hdr[s].page_num /\ g.entry = h.entry

\* So its blocks are as they were.
LEMMA AlikeBlocks ==
  ASSUME NEW h, NEW g, NEW s, ServesAlike(h, g, s), NEW k, NEW use
  PROVE  /\ Serves(h, use, s) => Serves(g, use, s)
         /\ \A b : b.span = s /\ BlockGood(h, k, use, b) => BlockGood(g, k, use, b)
  <1>1. Serves(h, use, s) => Serves(g, use, s)  BY DEF ServesAlike, Serves
  <1>2. ASSUME NEW b, b.span = s, BlockGood(h, k, use, b)  PROVE BlockGood(g, k, use, b)
    <2>1. CASE b.pos = 0  BY <1>2, <2>1 DEF BlockGood, LargeGood, ServesAlike
    <2>2. CASE b.pos # 0  BY <1>1, <1>2, <2>2 DEF BlockGood, SmallGood, ServesAlike
    <2> QED  BY <2>1, <2>2
  <1> QED  BY <1>1, <1>2

\* A span with all its blocks free is not one that the clock hand is done with.
LEMMA FreeAhead ==
  ASSUME NEW h, NEW use, NEW s, Serves(h, use, s), h.hdr[s].bitmap # {},
         Rescans(h.hdr[s], TotalBlocks(h.hdr[s].category))
  PROVE  h.hdr[s].free_block_num # TotalBlocks(h.hdr[s].category)
  <1> DEFINE n == TotalBlocks(h.hdr[s].category)
  <1>1. n \in 1..PageUnits /\ PageUnits \in Nat  BY ClassBlocks, Sizes DEF Serves
  <1>2. /\ h.hdr[s].bitmap \subseteq 1..n
        /\ h.hdr[s].free_block_num = n => h.hdr[s].cur_pos = 0
    BY DEF Serves
  <1>3. h.hdr[s].cur_pos = n \/ \A b \in h.hdr[s].bitmap : b <= h.hdr[s].cur_pos
    BY DEF Rescans
  <1> HIDE DEF n
  <1>4. ASSUME h.hdr[s].free_block_num = n  PROVE FALSE
    <2>1. h.hdr[s].cur_pos = 0  BY <1>2, <1>4
    <2>2. \A b \in 1..n : ~(b <= 0)  BY <1>1
    <2> QED  BY <1>1, <1>2, <1>3, <2>1, <2>2
  <1> QED  BY <1>4 DEF n

\* No other foreground span is that which is in hand at the clock.
LEMMA FrontOnce ==
  ASSUME NEW h, NEW k, NEW c, NEW f, ForegroundGood(h, k, c, f),
         NEW s, s # NULL, NEW i, h.hdr[s].category = i
  PROVE  \A j \in Class : j # i => f[j] # s
  BY DEF ForegroundGood

\* The span is charged and taken off the list it may be on, ...
Leaves(h, g, s, v) ==
  Charged(h.hdr[s], v) /\ g = list_del([h EXCEPT !.hdr[s] = v], s)

\* ... and the call looks for another.
Resumes(l, m) ==
  /\ m.pc = "acquire" /\ m.addr = l.addr /\ m.class = l.class /\ m.nvm_index = l.nvm_index

\* Span s of class i is a page of thread t that is on no list and not in the
\* foreground, with a free block.
Parted(X, h, K, C, f, l, bl, t, s, i) ==
  /\ HeapGood(X, h, K, C, f, l, bl) /\ i \in Class
  /\ One(s) \in K[t] /\ Off(C[t], f[t], s) /\ Ready(h, Blocks(l[t], bl[t]), s, i)

\* The first part of a refusal: the span is on no list, has the same blocks,
\* and nothing but the list it goes to is missing.
LEMMA LeaveHeap ==
  ASSUME NEW X, NEW h, NEW K, NEW C, NEW f, NEW l, NEW bl, HeapGood(X, h, K, C, f, l, bl),
         NEW t \in Thread, NEW s, NEW i, AtClock(l[t], s, i), Fronted(l[t], f[t]), ~Strays(h, s),
         NEW v, NEW g, Leaves(h, g, s, v),
         NEW f2, Fronts(f, f2, t, i, NULL), NEW l2, Only(t, l, l2), Resumes(l[t], l2[t])
  PROVE  Parted(X \ {s}, g, K, C, f2, l2, bl, t, s, i) /\ Untouched(h, g, t, l, bl)
  <1> DEFINE use == Blocks(l[t], bl[t])
             c   == C[t]
  <1>1. PICK Y : Y = X \ {s} /\ HeapGood(Y, h, K, C, f, l, bl)
    <2>1. PICK Y \in SUBSET X : Y = X \ {s}  OBVIOUS
    <2> QED  BY <2>1, Narrowed
  <1>2. PICK S, L : Base(Y, h, K, C, S, L, t, C[t])  BY <1>1, BaseOf
  <1>3. /\ ThreadGood(h, t, K[t], c, f[t], l[t], bl[t])
        /\ K[t] \in SUBSET Piece /\ h \in HeapType(Lowest) /\ HeadersGood(h)
        /\ ForegroundGood(h, K[t], c, f[t]) /\ ReachedGood(h, c, f[t], l[t], use)
        /\ BlocksGood(h, K[t], use) /\ CallGood(h, K[t], c, f[t], l[t], bl[t])
        /\ [C EXCEPT ![t] = C[t]] = C
    BY <1>2 DEF Base, HeapGood, Pool, ThreadGood
  <1>4. /\ i \in Class /\ One(s) \in K[t] /\ h.hdr[s].category = i /\ ~OnCache(c, s)
        /\ l[t].addr = <<>> /\ l[t].nvm_index \in 1..AREA_NUM /\ l[t].pc = "clock"
    BY <1>3 DEF CallGood, ChosenGood, Answering, Searching, AtClock
  <1>5. One(s).at = s /\ s \in Spans /\ s # NULL
    <2>1. One(s).at = s  BY DEF One
    <2>2. s \in Spans  BY <1>3, <1>4, <2>1 DEF Piece
    <2> QED  BY <2>1, <2>2, LowestNodes, NodesIn
  <1>6. Serves(h, use, s) /\ h.hdr[s].bitmap # {} /\ h.hdr[s] \in HeaderType
    <2>1. Reached(c, f[t], l[t], s)  BY <1>5 DEF Reached, AtClock
    <2> QED  BY <1>3, <1>5, <2>1 DEF ReachedGood, HeapType
  <1>7. /\ l2[t].pc = "acquire" /\ l2[t].addr = <<>> /\ l2[t].class = i
        /\ l2[t].nvm_index \in 1..AREA_NUM
    BY <1>4 DEF Resumes, AtClock
  <1>8. Blocks(l2[t], bl[t]) = use  BY <1>4, <1>7 DEF Blocks
  <1> HIDE DEF use, c
  <1>9. PICK d : Sets(h, d, s, v) /\ g = list_del(d, s) /\ Charged(h.hdr[s], v)
    BY DEF Leaves, Sets
  <1>10. /\ v \in HeaderType /\ v.bitmap = h.hdr[s].bitmap /\ v.category = h.hdr[s].category
        /\ v.free_block_num = h.hdr[s].free_block_num /\ v.cur_pos = h.hdr[s].cur_pos
        /\ v.page_num = h.hdr[s].page_num
    BY <1>6, <1>9, ChargedHeader
  <1>11. Base(Y, d, K, C, S, L, t, c) /\ Local(h, d, t, K[t], S, C) /\ Headed(h, d, s, v)
    <2>1. Base(Y, h, K, C, S, L, t, c)  BY <1>2 DEF c
    <2>2. Keeps(h, c, s, v)  BY <1>4 DEF Keeps
    <2> QED  BY <1>4, <1>9, <1>10, <2>1, <2>2, HdrStep
  <1>12. /\ Base(Y, g, K, C, S, L, t, c) /\ Local(d, g, t, K[t], S, C) /\ SameButLinks(d, g)
    <2>1. ~Strays(d, s)  BY <1>11 DEF Headed, Strays, Linked
    <2>2. PICK e \in K[t] : s = e.at  BY <1>4, <1>5
    <2> QED  BY <1>4, <1>9, <1>11, <2>1, <2>2, OffStep
  <1>13. Local(h, g, t, K[t], S, C)  BY <1>11, <1>12, LocalTwice
  <1>14. Alters(h, g, s) /\ ServesAlike(h, g, s) /\ g.hdr[s] = v
    BY <1>10, <1>11, <1>12 DEF SameButLinks, Headed, Alters, ServesAlike
  <1>15. HeaderGood(g.hdr[s])
    <2>1. HeaderGood(h.hdr[s])  BY <1>3, <1>5 DEF HeadersGood
    <2> QED  BY <1>10, <1>14, <2>1 DEF HeaderGood
  <1>16. Serves(g, use, s) /\ g.hdr[s].bitmap # {} /\ g.hdr[s].category = i
    <2>1. Serves(g, use, s)  BY <1>6, <1>14, AlikeBlocks
    <2> QED  BY <1>4, <1>6, <1>10, <1>14, <2>1
  <1>17. /\ Only(t, f, f2) /\ f2[t][i] = NULL /\ \A j \in Class : j # i => f2[t][j] = f[t][j]
    BY DEF Fronts
  <1>18. \A j \in Class : f2[t][j] # s
    <2>1. \A j \in Class : j # i => f[t][j] # s  BY <1>3, <1>4, <1>5, FrontOnce
    <2> QED  BY <1>5, <1>17, <2>1
  <1>19. Beyond(c, f[t], l[t], use, c, f2[t], l2[t], use, s)
    <2>1. \A y : Reached(c, f2[t], l2[t], y) => Reached(c, f[t], l[t], y)
      BY <1>4, <1>7, <1>17 DEF Reached
    <2> QED  BY <1>17, <2>1 DEF Beyond
  <1>20. Settled(g, K[t], c, f2[t], l2[t], use, s)
    <2>1. ~Reached(c, f2[t], l2[t], s)  BY <1>4, <1>7, <1>18 DEF Reached, OnCache
    <2>2. ASSUME NEW b \in use, b.span = s  PROVE BlockGood(g, K[t], use, b)
      <3>1. BlockGood(h, K[t], use, b)  BY <1>3 DEF BlocksGood, BlockGood
      <3> QED  BY <1>14, <2>2, <3>1, AlikeBlocks
    <2>3. s \notin c[0]  BY <1>4, ListNumbers DEF OnCache
    <2> QED  BY <1>18, <2>1, <2>2, <2>3 DEF Settled
  <1>21. CallGood(g, K[t], c, f2[t], l2[t], bl[t])
    <2>1. i # -1  BY <1>4, ClassBlocks
    <2> QED  BY <1>7, <2>1, Searches
  <1>22. Only(t, bl, bl)  BY DEF Only
  <1>23. Recalls(Y, K[t], c, f2[t], l2[t], use)
    <2>1. Recalls(Y, K[t], c, f[t], l[t], use)  BY <1>1 DEF HeapGood, use, c
    <2>2. f[t][i] \in {NULL, s} /\ l[t].span = s  BY DEF Fronted, AtClock
    <2>3. \A y : y # s /\ KeptAt(c, f[t], l[t], use, y) => KeptAt(c, f2[t], l2[t], use, y)
      BY <1>4, <1>7, <1>17, <2>2 DEF KeptAt
    <2>4. Base(Y, h, K, C, S, L, t, c)  BY <1>2 DEF c
    <2>5. Recalls(X \ {s}, K[t], c, f[t], l[t], use)  BY <1>1, <2>1
    <2>6. Recalls(X \ {s}, K[t], c, f2[t], l2[t], use)
      BY <1>4, <2>3, <2>4, <2>5, RecallsBut DEF Keeping
    <2> QED  BY <1>1, <2>6
  <1>24. HeapGood(Y, g, K, [C EXCEPT ![t] = c], f2, l2, bl) /\ Untouched(h, g, t, l, bl)
    <2>1. s \in Spans => HeaderGood(g.hdr[s])  BY <1>15
    <2> QED
      BY <1>2, <1>8, <1>12, <1>13, <1>14, <1>17, <1>19, <1>20, <1>21, <1>22, <1>1, <1>23, <2>1, LocalElse
      DEF use, c
  <1> QED  BY <1>3, <1>4, <1>6, <1>8, <1>16, <1>18, <1>24, <1>1 DEF Parted, Ready, Off, use, c

\* The whole of a refusal, which never finds the span without blocks in use.
LEMMA RefuseHeap ==
  ASSUME NEW X, NEW h, NEW K, NEW C, NEW f, NEW l, NEW bl, HeapGood(X, h, K, C, f, l, bl),
         NEW t \in Thread, NEW s, NEW i, AtClock(l[t], s, i), Fronted(l[t], f[t]), ~Strays(h, s),
         NEW v, NEW d, Leaves(h, d, s, v), NEW g, g = list_add_tail(d, s, NAvaliable(t, i)),
         NEW f2, Fronts(f, f2, t, i, NULL), NEW l2, Only(t, l, l2), Resumes(l[t], l2[t])
  PROVE  Ordered(X, g, f2, l2, bl) /\ Untouched(h, g, t, l, bl)
  <1>1. /\ HeapGood(X \ {s}, d, K, C, f2, l2, bl) /\ Untouched(h, d, t, l, bl)
        /\ One(s) \in K[t] /\ Off(C[t], f2[t], s) /\ d.hdr[s].category = i /\ i \in Class
        /\ Serves(d, Blocks(l2[t], bl[t]), s) /\ d.hdr[s].bitmap # {}
    <2>1. Parted(X \ {s}, d, K, C, f2, l2, bl, t, s, i) /\ Untouched(h, d, t, l, bl)
      BY LeaveHeap
    <2> QED  BY <2>1 DEF Parted, Ready
  <1>2. PICK j \in ListNo : j = NotNo(i) /\ j # 0 /\ NAvaliable(t, i) = HeadOf(t, j)
    BY <1>1, ClassBlocks, ListNumbers
  <1>3. Suits(d, j, s)
    <2>1. i \in 0..PageUnits - 1  BY <1>1, ClassBlocks
    <2>2. \A y \in 0..PageUnits - 1 : j \in {BackNo(y), NotNo(y)} => y = i
      BY <1>2, <2>1, ListNumbers
    <2> QED  BY <1>1, <2>2 DEF Suits
  <1>4. Free(l2[t])  BY DEF Free, Resumes, GivingUp
  <1>5. g = list_add_tail(d, s, HeadOf(t, j))  BY <1>2
  <1>6. /\ HeapGood(X, g, K, [C EXCEPT ![t] = With(C[t], j, s)], f2, l2, bl)
        /\ Untouched(d, g, t, l2, bl)
    <2>1. j = 0 => Mates(Blocks(l2[t], bl[t]), s) = {}  BY <1>2
    <2>2. j # 0 => Serves(d, Blocks(l2[t], bl[t]), s) /\ d.hdr[s].bitmap # {}  BY <1>1
    <2> QED  BY <1>1, <1>3, <1>4, <1>5, <2>1, <2>2, PutHeap
  <1>7. Untouched(d, g, t, l, bl)
    <2>1. Only(t, bl, bl)  BY DEF Only
    <2> QED  BY <1>6, <2>1, UntouchedElse
  <1> QED  BY <1>1, <1>6, <1>7, UntouchedTwice DEF Ordered

\* span_clock_allocate refuses a span that has met the threshold: it leaves
\* the cache for the unavailable list or for its pool.
LEMMA ClockRefusesGood ==
  ASSUME NEW X, Good(X), NEW t \in Thread, Fronted(th[t], foreground[t]), ClockRefuses(t), ~strayed'
  PROVE  After(X, t)
  <1> DEFINE z == th[t].span
             y == heap.hdr[z].category
             n == TotalBlocks(y)
             w == [heap.hdr[z] EXCEPT !.wear_count = @ + 1]
             e == list_del([heap EXCEPT !.hdr[z] = w], z)
  <1>1. /\ At(t, "clock")
        /\ Refuses(heap.hdr[z], n, threshold[t])
        /\ IF w.free_block_num = n
           THEN heap' = e /\ Goto(t, [th[t] EXCEPT !.pc = "giveback"])
           ELSE /\ heap' = list_add_tail(e, z, NAvaliable(t, y))
                /\ Goto(t, [th[t] EXCEPT !.pc = "acquire", !.span = NULL])
        /\ foreground' = [foreground EXCEPT ![t][y] = NULL, ![t][th[t].class] = NULL]
        /\ strayed' = (strayed \/ Strays(heap, z))
        /\ UNCHANGED <<threshold, owner, live, calls>>
    BY Zenon DEF ClockRefuses
  <1>2. PICK s, i, v, d :
          /\ s = th[t].span /\ i = th[t].class /\ v = w /\ d = e /\ s = z
    BY SMTT(30) DEF z
  <1>3. PICK K, C : HeapGood(X, heap, K, C, foreground, th, live)  BY DEF Good
  <1>4. AtClock(th[t], s, i) /\ ~Strays(heap, s) /\ Leaves(heap, d, s, v)
    <2>1. Leaves(heap, d, s, v)  BY ZenonT(60), <1>2 DEF Leaves, Charged
    <2>2. th[t].pc = "clock"  BY <1>1 DEF At
    <2>3. ~Strays(heap, s)  BY <1>1, <1>2, Zenon
    <2> QED  BY <1>2, <2>1, <2>2, <2>3 DEF AtClock
  <1>5. /\ ThreadGood(heap, t, K[t], C[t], foreground[t], th[t], live[t])
        /\ heap \in HeapType(Lowest) /\ K[t] \in SUBSET Piece
    BY <1>3 DEF HeapGood, Pool
  <1>6. /\ i \in Class /\ One(s) \in K[t] /\ heap.hdr[s].category = i /\ s \in Spans
    <2>1. ChosenGood(heap, K[t], C[t], th[t])
      BY <1>4, <1>5 DEF ThreadGood, CallGood, AtClock
    <2>2. One(s).at = s  BY DEF One
    <2> QED  BY <1>4, <1>5, <2>1, <2>2 DEF ChosenGood, AtClock, Piece
  <1>7. Serves(heap, Blocks(th[t], live[t]), s) /\ heap.hdr[s].bitmap # {}
    <2>1. Reached(C[t], foreground[t], th[t], s)  BY <1>4 DEF Reached, AtClock
    <2> QED  BY <1>5, <2>1 DEF ThreadGood, ReachedGood
  <1>8. y = i  BY SMTT(30), <1>2, <1>6
  <1>9. w.free_block_num # n
    <2>1. Rescans(heap.hdr[s], TotalBlocks(heap.hdr[s].category))
      BY <1>1, <1>2, Zenon DEF Refuses
    <2>2. heap.hdr[s].free_block_num # TotalBlocks(heap.hdr[s].category)
      BY <1>7, <2>1, FreeAhead
    <2>3. heap.hdr[s] \in HeaderType  BY <1>5, <1>6 DEF HeapType
    <2>4. v.free_block_num = heap.hdr[s].free_block_num
      BY <1>4, <2>3, ChargedHeader DEF Leaves
    <2> QED  BY <1>2, <2>2, <2>4
  <1> HIDE DEF z, y, n, w, e
  <1>10. PICK m : /\ m = [th[t] EXCEPT !.pc = "acquire", !.span = NULL] /\ Goto(t, m)
                  /\ heap' = list_add_tail(d, s, NAvaliable(t, i))
                  /\ foreground' = [foreground EXCEPT ![t][i] = NULL, ![t][i] = NULL]
                  /\ UNCHANGED <<threshold, owner, live, calls>>
                  /\ strayed' \in BOOLEAN
    <2>1. strayed' \in BOOLEAN  BY <1>1
    <2> QED  BY <1>1, <1>2, <1>8, <1>9, <2>1, Zenon
  <1>11. /\ th[t] \in CallType /\ th \in [Thread -> CallType] /\ LocksGood /\ StateType
         /\ foreground \in [Thread -> [Class -> Spans \cup {NULL}]]
    BY CallOf DEF Good, StateType
  <1>12. PICK x \in Spans \cup {NULL} : x = NULL  OBVIOUS
  <1>13. foreground' = [foreground EXCEPT ![t] = [foreground[t] EXCEPT ![i] = x]]
    BY ONLY <1>10, <1>11, <1>12
  <1>14. [foreground[t] EXCEPT ![i] = x] \in [Class -> Spans \cup {NULL}]  BY <1>11, <1>12
  <1>15. foreground' \in [Thread -> [Class -> Spans \cup {NULL}]]
    BY <1>11, <1>13, <1>14
  <1>16. Fronts(foreground, foreground', t, i, NULL)
    <2>1. foreground'[t] = [foreground[t] EXCEPT ![i] = x]  BY <1>11, <1>13
    <2>2. Only(t, foreground, foreground')  BY <1>11, <1>13 DEF Only
    <2> QED  BY <1>6, <1>11, <1>12, <2>1, <2>2 DEF Fronts
  <1>17. /\ m.pc = "acquire" /\ m.addr = th[t].addr /\ m.class = th[t].class
         /\ m.nvm_index = th[t].nvm_index
    BY <1>10, <1>11 DEF CallType
  <1>18. m \in CallType
    <2>1. "acquire" \in PCs  BY DEF PCs
    <2>2. m = [th[t] EXCEPT !.pc = "acquire", !.span = NULL]  BY <1>10
    <2>3. th[t] \in CallType  BY <1>11
    <2> QED  BY ONLY <2>1, <2>2, <2>3 DEF CallType
  <1>19. th' \in [Thread -> CallType] /\ th'[t] = m /\ Only(t, th, th')
    BY <1>10, <1>11, <1>18, GotoEffect
  <1>20. Resumes(th[t], th'[t])  BY <1>17, <1>19 DEF Resumes
  <1>21. Ordered(X, heap', foreground', th', live) /\ Untouched(heap, heap', t, th, live)
    BY <1>3, <1>4, <1>10, <1>16, <1>19, <1>20, RefuseHeap
  <1>22. PICK K2, C2 : HeapGood(X, heap', K2, C2, foreground', th', live')
    BY <1>10, <1>21 DEF Ordered
  <1>23. LocksGood'
    <2>1. th'[t].pc \notin {"fill", "accounting", "giving"}  BY <1>17, <1>19
    <2> QED  BY <1>10, <1>11, <1>19, <2>1, LocksKept
  <1>24. StateType'  BY <1>10, <1>11, <1>15, <1>19 DEF StateType
  <1> QED  BY <1>21, <1>22, <1>23, <1>24, AfterOf

-----------------------------------------------------------------------------
\* The address of a block lies in the first page of its span.
LEMMA BlockPlace ==
  ASSUME NEW h, NEW k, NEW use, NEW b, BlockGood(h, k, use, b), b.span \in Spans
  PROVE  /\ AddressOf(b.span) \in Int
         /\ \E x \in 0..PageUnits - 1 : AddressIn(b) = AddressOf(b.span) + x
         /\ b.pos # 0 => /\ h.hdr[b.span].category \in Class /\ b.pos \in Nat
                         /\ ((AddressIn(b) - AddressOf(b.span)) \div (h.hdr[b.span].category + 1)) + 1
                              = b.pos
  <1>1. AddressOf(b.span) \in Int /\ PageUnits \in Nat \ {0}
    <2>1. /\ AreaOf(b.span) \in Int /\ PageOf(b.span) \in Int /\ PageUnits \in Nat \ {0}
          /\ AreaPages \in Nat
      <3>1. AreaOf(b.span) \in Area /\ PageOf(b.span) \in 0..AreaPages - 1  BY PageOfSpan
      <3> QED  BY <3>1, Sizes DEF Area
    <2>2. RAW_POOL_START(AreaOf(b.span)) \in Int  BY <2>1 DEF RAW_POOL_START
    <2> QED  BY <2>1, <2>2 DEF AddressOf
  <1>2. CASE b.pos = 0
    <2>1. AddressIn(b) = AddressOf(b.span) + 0  BY <1>2 DEF AddressIn
    <2> QED  BY <1>1, <1>2, <2>1
  <1>3. CASE b.pos # 0
    <2>1. PICK i, p : i \in Class /\ i = h.hdr[b.span].category /\ p = b.pos
      BY <1>3 DEF BlockGood, SmallGood, Serves
    <2>2. p \in 1..TotalBlocks(i) /\ b.size = i + 1  BY <1>3, <2>1 DEF BlockGood, SmallGood
    <2>3. /\ i \in 0..PageUnits - 1 /\ TotalBlocks(i) \in 1..PageUnits /\ p * (i + 1) <= PageUnits
      BY <2>1, <2>2, ClassBlocks
    <2>4. PICK q \in Nat, m \in Nat \ {0} : q = p - 1 /\ m = i + 1 /\ p = q + 1
      BY <1>1, <2>2, <2>3
    <2>5. AddressIn(b) = AddressOf(b.span) + q * m  BY <1>3, <2>1, <2>2, <2>4 DEF AddressIn
    <2>6. q * m \in 0..PageUnits - 1
      <3>1. (q + 1) * m <= PageUnits  BY <2>3, <2>4
      <3>2. (q + 1) * m = q * m + m /\ q * m >= 0 /\ q * m \in Nat  BY <2>4
      <3> QED  BY <1>1, <2>4, <3>1, <3>2
    <2>7. (q * m) \div m = q
      <3>1. 0 \in 0..m - 1  BY <2>4
      <3>2. (q * m + 0) \div m = q  BY <2>4, <3>1, DivMod
      <3>3. q * m + 0 = q * m  BY <2>4
      <3> QED  BY <3>2, <3>3
    <2>8. PICK y : y = q * m  OBVIOUS
    <2>9. (AddressIn(b) - AddressOf(b.span)) = y  BY <1>1, <2>5, <2>6, <2>8
    <2>10. ((AddressIn(b) - AddressOf(b.span)) \div (h.hdr[b.span].category + 1)) + 1 = b.pos
      BY <2>1, <2>4, <2>7, <2>8, <2>9
    <2>11. \E x \in 0..PageUnits - 1 : AddressIn(b) = AddressOf(b.span) + x
      BY <2>5, <2>6
    <2>12. h.hdr[b.span].category \in Class /\ b.pos \in Nat  BY <2>1, <2>4
    <2> QED  BY <1>1, <2>10, <2>11, <2>12
  <1> QED  BY <1>1, <1>2, <1>3, Zenon

\* The map leads from the address of a block to the header of its span.
LEMMA HeaderFound ==
  ASSUME NEW X, NEW h, NEW K, NEW C, NEW f, NEW l, NEW bl, HeapGood(X, h, K, C, f, l, bl),
         NEW t \in Thread, NEW b \in Blocks(l[t], bl[t])
  PROVE  /\ span_extract_header(h, AddressIn(b)) = b.span /\ b.span \in Spans
         /\ BlockGood(h, K[t], Blocks(l[t], bl[t]), b)
  <1>1. PICK S, L : Base(X, h, K, C, S, L, t, C[t])  BY BaseOf
  <1>2. BlockGood(h, K[t], Blocks(l[t], bl[t]), b)
    BY DEF HeapGood, ThreadGood, BlocksGood, BlockGood
  <1>3. PICK e \in K[t] : e.at = b.span
    <2>1. \A n : [at |-> b.span, pages |-> n].at = b.span /\ One(b.span).at = b.span
      BY DEF One
    <2> QED  BY <1>2, <2>1 DEF BlockGood, LargeGood, SmallGood
  <1>4. /\ b.span \in Spans /\ Mapped(h) /\ h \in HeapType(Lowest)
        /\ PageOf(b.span) < h.segments[AreaOf(b.span)] * SegPages
    <2>1. e \in Held(K) /\ Pool(Lowest, h, S, Held(K), L)  BY <1>1 DEF Base, Held
    <2>2. e.at \in Spans /\ PageOf(e.at) < h.segments[AreaOf(e.at)] * SegPages
      BY <2>1, HeldPiece
    <2> QED  BY <1>3, <2>1, <2>2 DEF Pool
  <1>5. PICK x \in 0..PageUnits - 1 : AddressIn(b) = AddressOf(b.span) + x
    BY <1>2, <1>4, BlockPlace
  <1> DEFINE a == AreaOf(b.span)
  <1>6. a \in Area  BY <1>4, PageOfSpan
  <1>7. PICK n \in Nat : n = h.segments[a] /\ h.span_map[a] = Tables(a, n)
    <2>1. h.segments[a] \in 1..MaxSegs /\ h.span_map[a] = Tables(a, h.segments[a])
      BY <1>4, <1>6 DEF Mapped
    <2>2. h.segments[a] \in Nat  BY <1>4, <1>6 DEF HeapType
    <2> QED  BY <2>1, <2>2
  <1>8. PICK s \in Spans : s = b.span  BY <1>4
  <1>9. /\ AreaOfAddress(AddressOf(s) + x) = a
        /\ EntryAt(Tables(a, n), AddressOf(s) + x - RAW_POOL_START(a)) = s - 1
    <2>1. PageOf(s) < n * SegPages  BY <1>4, <1>7, <1>8
    <2> QED  BY <1>8, <2>1, MapPlace
  <1>10. h.entry[s - 1] = s  BY <1>2, <1>8 DEF BlockGood, LargeGood, SmallGood, Serves
  <1> HIDE DEF a
  <1>11. span_extract_header(h, AddressIn(b)) = h.entry[s - 1]
    <2>1. PICK addr : addr = AddressIn(b) /\ addr = AddressOf(s) + x  BY <1>5, <1>8
    <2>2. AreaOfAddress(addr) = a /\ EntryAt(Tables(a, n), addr - RAW_POOL_START(a)) = s - 1
      <3>1. PICK y : y = AddressOf(s) + x  OBVIOUS
      <3>2. AreaOfAddress(y) = a /\ EntryAt(Tables(a, n), y - RAW_POOL_START(a)) = s - 1
        <4>1. AddressOf(s) \in Int  BY <1>2, <1>4, <1>8, BlockPlace
        <4>2. RAW_POOL_START(a) \in Int
          <5>1. a \in Int /\ AreaPages \in Int /\ PageUnits \in Int  BY <1>6, Sizes DEF Area
          <5> QED  BY <5>1 DEF RAW_POOL_START
        <4>3. y \in Int  BY <3>1, <4>1
        <4> QED  BY <1>9, <3>1, <4>1, <4>2, <4>3
      <3>3. addr = y  BY <2>1, <3>1
      <3> QED  BY <3>2, <3>3, Zenon
    <2>3. EntryAt(h.span_map[a], addr - RAW_POOL_START(a)) = s - 1  BY <1>7, <2>2, Zenon
    <2>4. span_extract_header(h, addr) = h.entry[s - 1]  BY <2>2, <2>3, Zenon DEF span_extract_header
    <2> QED  BY <2>1, <2>4
  <1> QED  BY <1>2, <1>4, <1>8, <1>10, <1>11
-----------------------------------------------------------------------------
\* What two threads hold, their blocks are not the same.
LEMMA BlockOwn ==
  ASSUME NEW X, NEW h, NEW K, NEW C, NEW f, NEW l, NEW bl, HeapGood(X, h, K, C, f, l, bl),
         NEW t \in Thread, NEW b \in Blocks(l[t], bl[t]), NEW u \in Thread, u # t
  PROVE  b \notin Blocks(l[u], bl[u])
  <1>1. K[t] \cap K[u] = {}  BY DEF HeapGood
  <1>2. ASSUME b \in Blocks(l[u], bl[u])  PROVE FALSE
    <2>1. /\ BlockGood(h, K[t], Blocks(l[t], bl[t]), b)
          /\ BlockGood(h, K[u], Blocks(l[u], bl[u]), b)
      BY <1>2 DEF HeapGood, ThreadGood, BlocksGood, BlockGood
    <2>2. CASE b.pos = 0  BY <1>1, <2>1, <2>2 DEF BlockGood, LargeGood
    <2>3. CASE b.pos # 0  BY <1>1, <2>1, <2>3 DEF BlockGood, SmallGood
    <2> QED  BY <2>2, <2>3
  <1> QED  BY <1>2

\* Blocks of one span are told apart by their places.
LEMMA MateOnce ==
  ASSUME NEW h, NEW k, NEW use \in SUBSET BlockType, BlocksGood(h, k, use),
         NEW b \in use, NEW d \in use, d.span = b.span, d.pos = b.pos
  PROVE  d = b
  <1>1. d.size = b.size
    <2>1. CASE b.pos = 0
      <3>1. LargeGood(h, k, b) /\ LargeGood(h, k, d)  BY <2>1 DEF BlocksGood
      <3> QED  BY <3>1 DEF LargeGood
    <2>2. CASE b.pos # 0
      <3>1. SmallGood(h, k, use, b) /\ SmallGood(h, k, use, d)  BY <2>2 DEF BlocksGood
      <3> QED  BY <3>1 DEF SmallGood
    <2> QED  BY <2>1, <2>2
  <1>2. /\ b = [span |-> b.span, pos |-> b.pos, size |-> b.size]
        /\ d = [span |-> d.span, pos |-> d.pos, size |-> d.size]
    <2>1. b \in BlockType /\ d \in BlockType  OBVIOUS
    <2> QED  BY ONLY <2>1 DEF BlockType
  <1> QED  BY <1>1, <1>2

\* From h to g, span s has its block at p back and is not empty yet, ...
Regains(h, g, s, p) ==
  /\ g.hdr[s].bitmap = h.hdr[s].bitmap \cup {p}
  /\ g.hdr[s].category = h.hdr[s].category
  /\ g.hdr[s].free_block_num = h.hdr[s].free_block_num + 1
  /\ g.hdr[s].free_block_num # TotalBlocks(h.hdr[s].category)
  /\ g.entry = h.entry

\* ... and from use to use2, block b of span s, the one at p, has gone.
BlockOf(use, s, b, p) ==
  b \in Mates(use, s) /\ p = b.pos /\ \A d \in Mates(use, s) : d.pos = p => d = b
Loses(use, use2, s, b, p) ==
  BlockOf(use, s, b, p) /\ Mates(use2, s) = Mates(use, s) \ {b}

\* A span that has one of its blocks back serves on.
LEMMA ServesLess ==
  ASSUME NEW h, NEW g, NEW s, NEW use, NEW use2, NEW b, NEW p, Serves(h, use, s),
         p \in 1..TotalBlocks(h.hdr[s].category),
         Loses(use, use2, s, b, p), Regains(h, g, s, p)
  PROVE  /\ Serves(g, use2, s) /\ g.hdr[s].free_block_num \in 0..PageUnits
         /\ g.hdr[s].bitmap # {}
         /\ g.hdr[s].free_block_num = 1 => h.hdr[s].bitmap = {}
  <1> DEFINE n == TotalBlocks(h.hdr[s].category)
             B == h.hdr[s].bitmap
  <1>1. /\ g.hdr[s].bitmap = B \cup {p} /\ g.hdr[s].category = h.hdr[s].category
        /\ g.hdr[s].free_block_num = h.hdr[s].free_block_num + 1 /\ g.entry = h.entry
        /\ g.hdr[s].free_block_num # n /\ p \in 1..n
    BY DEF Regains
  <1>2. n \in 1..PageUnits /\ PageUnits \in Nat  BY ClassBlocks, Sizes DEF Serves
  <1>3. /\ h.hdr[s].category \in Class /\ h.entry[s - 1] = s
        /\ B = (1..n) \ {d.pos : d \in Mates(use, s)}
        /\ h.hdr[s].free_block_num = Cardinality(B)
    BY DEF Serves
  <1> HIDE DEF n, B
  <1>4. p \notin B
    <2>1. p \in {d.pos : d \in Mates(use, s)}  BY DEF Loses, BlockOf
    <2> QED  BY <1>3, <2>1
  <1>5. IsFiniteSet(1..n) /\ Cardinality(1..n) = n
    <2>1. 1 \in Int /\ n \in Int  BY <1>2
    <2>2. IsFiniteSet(1..n) /\ Cardinality(1..n) = IF 1 > n THEN 0 ELSE n - 1 + 1
      BY <2>1, FS_Interval, Zenon
    <2> QED  BY <1>2, <2>2
  <1>6. /\ IsFiniteSet(B) /\ Cardinality(B) \in Nat
        /\ Cardinality(B \cup {p}) = Cardinality(B) + 1 /\ Cardinality(B \cup {p}) <= n
    <2>1. B \in SUBSET (1..n) /\ B \cup {p} \in SUBSET (1..n)  BY <1>1, <1>3
    <2>2. /\ IsFiniteSet(B) /\ IsFiniteSet(B \cup {p})
          /\ Cardinality(B \cup {p}) <= Cardinality(1..n)
      BY <1>5, <2>1, FS_Subset, Zenon
    <2>3. Cardinality(B) \in Nat  BY <2>2, FS_CardinalityType, Zenon
    <2>4. Cardinality(B \cup {p}) = IF p \in B THEN Cardinality(B) ELSE Cardinality(B) + 1
      BY <2>2, FS_AddElement, Zenon
    <2> QED  BY <1>4, <1>5, <2>2, <2>3, <2>4
  <1>7. g.hdr[s].bitmap = (1..n) \ {d.pos : d \in Mates(use2, s)}
    <2>1. {d.pos : d \in Mates(use2, s)} = {d.pos : d \in Mates(use, s)} \ {p}
      BY DEF Loses, BlockOf
    <2>2. g.hdr[s].bitmap = B \cup {p}  BY <1>1
    <2> QED  BY <1>1, <1>3, <2>1, <2>2
  <1>8. /\ g.hdr[s].free_block_num = Cardinality(B \cup {p})
        /\ g.hdr[s].free_block_num \in 0..PageUnits
    BY <1>1, <1>2, <1>3, <1>6
  <1>9. g.hdr[s].bitmap = B \cup {p}  BY <1>1
  <1>10. g.hdr[s].free_block_num = 1 => B = {}
    <2>1. Cardinality(B) = 0 => B = {}  BY <1>6, FS_EmptySet, Zenon
    <2>2. g.hdr[s].free_block_num = 1 => Cardinality(B) = 0  BY <1>1, <1>3, <1>6
    <2> QED  BY <2>1, <2>2
  <1>11. Serves(g, use2, s)  BY <1>1, <1>3, <1>7, <1>8, <1>9 DEF Serves, n
  <1> QED  BY <1>8, <1>9, <1>10, <1>11 DEF B

\* Block b of span s comes back, with header v for the span: s keeps others in use.
Returns(h, g, s, v, b) ==
  /\ s = b.span /\ v = Freed(h.hdr[s], TotalBlocks(h.hdr[s].category), b.pos)
  /\ g = [h EXCEPT !.hdr[s] = v]
KeepsOthers(h, v, s) == v.free_block_num # TotalBlocks(h.hdr[s].category)

\* Block b is one of a small span of those in use, and b alone is gone of them.
Small(h, s)       == h.hdr[s].category # LARGE
Gone(bl, bl2, t, b) ==
  /\ bl[t] \in SUBSET BlockType /\ b \in bl[t]
  /\ Only(t, bl, bl2) /\ bl2[t] = bl[t] \ {b}

\* The header of a span before a block comes back to it.
LEMMA SmallBlock ==
  ASSUME NEW h, NEW k, NEW use \in SUBSET BlockType, BlocksGood(h, k, use),
         NEW b \in use, Small(h, b.span)
  PROVE  SmallGood(h, k, use, b) /\ b.pos # 0 /\ BlockOf(use, b.span, b, b.pos)
  <1>1. SmallGood(h, k, use, b) /\ b.pos # 0  BY DEF BlocksGood, LargeGood, Small
  <1>2. \A d \in Mates(use, b.span) : d.pos = b.pos => d = b  BY MateOnce DEF Mates
  <1>3. b \in Mates(use, b.span)  BY DEF Mates
  <1> QED  BY <1>1, <1>2, <1>3 DEF BlockOf

\* The header that small_free leaves.
LEMMA FreedHeader ==
  ASSUME NEW v \in HeaderType, NEW n, NEW p \in Nat, NEW w, w = Freed(v, n, p),
         p \in 1..PageUnits
  PROVE  /\ w \in HeaderType /\ w.category = v.category /\ w.wear_count = v.wear_count
         /\ w.free_block_num = v.free_block_num + 1
         /\ w.free_block_num # n => w.bitmap = v.bitmap \cup {p}
         /\ w.free_block_num = n => w.bitmap = v.bitmap
  <1>1. PICK x : x = IF v.free_block_num + 1 = n THEN v.bitmap ELSE v.bitmap \cup {p}  OBVIOUS
  <1>2. PICK y : y = v.free_block_num + 1  OBVIOUS
  <1>3. w = [v EXCEPT !.free_block_num = y, !.bitmap = x]  BY <1>1, <1>2 DEF Freed
  <1>4. v.bitmap \in SUBSET Int /\ v.free_block_num \in Int  BY DEF HeaderType
  <1>5. x \in SUBSET Int /\ y \in Int  BY <1>1, <1>2, <1>4
  <1>6. /\ w \in HeaderType /\ w.category = v.category /\ w.wear_count = v.wear_count
        /\ w.free_block_num = y /\ w.bitmap = x
    <2>1. v \in HeaderType  OBVIOUS
    <2> QED  BY ONLY <1>3, <1>5, <2>1 DEF HeaderType
  <1> QED  BY <1>1, <1>2, <1>6

\* A span that has not all its blocks free has one in use.
LEMMA SomeMate ==
  ASSUME NEW h, NEW s, NEW use, Serves(h, use, s),
         h.hdr[s].free_block_num # TotalBlocks(h.hdr[s].category)
  PROVE  Mates(use, s) # {}
  <1>1. PICK n, B : n = TotalBlocks(h.hdr[s].category) /\ B = h.hdr[s].bitmap  OBVIOUS
  <1>2. n \in 1..PageUnits /\ PageUnits \in Nat  BY <1>1, ClassBlocks, Sizes DEF Serves
  <1>3. B = (1..n) \ {d.pos : d \in Mates(use, s)} /\ Cardinality(B) # n
    BY <1>1 DEF Serves
  <1>4. Cardinality(1..n) = n
    <2>1. 1 \in Int /\ n \in Int  BY <1>2
    <2>2. Cardinality(1..n) = IF 1 > n THEN 0 ELSE n - 1 + 1  BY <2>1, FS_Interval, Zenon
    <2> QED  BY <1>2, <2>2
  <1>5. ASSUME Mates(use, s) = {}  PROVE FALSE
    <2>1. B = 1..n  BY <1>3, <1>5
    <2> QED  BY <1>3, <1>4, <2>1
  <1> QED  BY <1>5

\* small_free in a span that keeps blocks in use: the thread keeps the span,
\* which has a free block and was on no list if this is its first one.
LEMMA SomeHeap ==
  ASSUME NEW X, NEW h, NEW K, NEW C, NEW f, NEW l, NEW bl, HeapGood(X, h, K, C, f, l, bl),
         NEW t \in Thread, Free(l[t]), l[t].addr = <<>>, NEW b, NEW bl2, Gone(bl, bl2, t, b),
         NEW s, NEW v, NEW g, Returns(h, g, s, v, b), Small(h, s), KeepsOthers(h, v, s)
  PROVE  /\ HeapGood(X, g, K, C, f, l, bl2) /\ Untouched(h, g, t, l, bl)
         /\ One(s) \in K[t] /\ h.hdr[s].category \in Class
         /\ Ready(g, Blocks(l[t], bl2[t]), s, h.hdr[s].category)
         /\ v.free_block_num = 1 => Off(C[t], f[t], s)
  <1> DEFINE use  == Blocks(l[t], bl[t])
             use2 == Blocks(l[t], bl2[t])
             c    == C[t]
  <1>1. PICK S, L : Base(X, h, K, C, S, L, t, C[t])  BY BaseOf
  <1>2. /\ ThreadGood(h, t, K[t], c, f[t], l[t], bl[t])
        /\ K[t] \in SUBSET Piece /\ h \in HeapType(Lowest) /\ HeadersGood(h)
        /\ ForegroundGood(h, K[t], c, f[t]) /\ ReachedGood(h, c, f[t], l[t], use)
        /\ BlocksGood(h, K[t], use) /\ CallGood(h, K[t], c, f[t], l[t], bl[t])
        /\ SpareGood(c, use) /\ [C EXCEPT ![t] = C[t]] = C
    BY <1>1 DEF Base, HeapGood, Pool, ThreadGood
  <1>3. /\ use = bl[t] /\ use2 = bl2[t] /\ use \in SUBSET BlockType /\ b \in use
        /\ use2 = use \ {b} /\ Only(t, bl, bl2)
    BY DEF Gone, Blocks
  <1> HIDE DEF use, use2, c
  <1>4. s = b.span /\ Sets(h, g, s, v)  BY DEF Returns, Sets
  <1>5. SmallGood(h, K[t], use, b) /\ b.pos # 0 /\ BlockOf(use, s, b, b.pos)
    <2>1. Small(h, b.span)  BY <1>4
    <2>2. SmallGood(h, K[t], use, b) /\ b.pos # 0 /\ BlockOf(use, b.span, b, b.pos)
      BY <1>2, <1>3, <2>1, SmallBlock
    <2> QED  BY <1>4, <2>2
  <1>6. PICK p : p = b.pos  OBVIOUS
  <1>7. /\ One(s) \in K[t] /\ p \in 1..TotalBlocks(h.hdr[s].category) /\ Serves(h, use, s)
        /\ h.hdr[s].category \in Class /\ p \in Nat /\ p \in 1..PageUnits
    <2>1. /\ One(s) \in K[t] /\ p \in 1..TotalBlocks(h.hdr[s].category) /\ Serves(h, use, s)
          /\ h.hdr[s].category \in Class
      BY <1>4, <1>5, <1>6 DEF SmallGood, Serves
    <2>2. TotalBlocks(h.hdr[s].category) \in 1..PageUnits /\ PageUnits \in Nat
      BY <2>1, ClassBlocks, Sizes
    <2> QED  BY <2>1, <2>2
  <1>8. One(s).at = s /\ s \in Spans /\ s # NULL
    <2>1. One(s).at = s  BY DEF One
    <2>2. s \in Spans  BY <1>2, <1>7, <2>1 DEF Piece
    <2> QED  BY <2>1, <2>2, LowestNodes, NodesIn
  <1>9. /\ v \in HeaderType /\ v.category = h.hdr[s].category
        /\ v.free_block_num = h.hdr[s].free_block_num + 1 /\ v.bitmap = h.hdr[s].bitmap \cup {p}
        /\ v.free_block_num # TotalBlocks(h.hdr[s].category)
    <2>1. h.hdr[s] \in HeaderType  BY <1>2, <1>8 DEF HeapType
    <2>2. p \in Nat /\ p \in 1..PageUnits  BY <1>7
    <2>3. v = Freed(h.hdr[s], TotalBlocks(h.hdr[s].category), p)  BY <1>6 DEF Returns
    <2>4. v.free_block_num # TotalBlocks(h.hdr[s].category)  BY DEF KeepsOthers
    <2> QED  BY <2>1, <2>2, <2>3, <2>4, FreedHeader
  <1>10. Base(X, g, K, C, S, L, t, c) /\ Local(h, g, t, K[t], S, C) /\ Headed(h, g, s, v)
    <2>1. Base(X, h, K, C, S, L, t, c)  BY <1>1 DEF c
    <2>2. Keeps(h, c, s, v)  BY <1>9 DEF Keeps
    <2> QED  BY <1>4, <1>7, <1>9, <2>1, <2>2, HdrStep
  <1>11. Alters(h, g, s) /\ g.hdr[s] = v /\ Regains(h, g, s, p)
    BY <1>9, <1>10 DEF Headed, Alters, Regains
  <1>12. /\ Serves(g, use2, s) /\ g.hdr[s].free_block_num \in 0..PageUnits
         /\ g.hdr[s].bitmap # {} /\ (g.hdr[s].free_block_num = 1 => h.hdr[s].bitmap = {})
    <2>1. Mates(use2, s) = Mates(use, s) \ {b}  BY <1>3 DEF Mates
    <2>2. Loses(use, use2, s, b, p)  BY <1>5, <1>6, <2>1 DEF Loses
    <2> QED  BY <1>7, <1>11, <2>2, ServesLess
  <1>13. HeaderGood(g.hdr[s])
    <2>1. HeaderGood(h.hdr[s])  BY <1>2, <1>8 DEF HeadersGood
    <2>2. p \in 1..PageUnits  BY <1>7
    <2> QED  BY <1>9, <1>11, <1>12, <2>1, <2>2 DEF HeaderGood
  <1>14. s \notin c[0]  BY <1>2, <1>3, <1>4 DEF SpareGood, Mates
  <1>15. Beyond(c, f[t], l[t], use, c, f[t], l[t], use2, s)
    <2>1. \A x : x # s => Mates(use2, x) = Mates(use, x)  BY <1>3, <1>4 DEF Mates
    <2> QED  BY <1>3, <2>1 DEF Beyond
  <1>16. Settled(g, K[t], c, f[t], l[t], use2, s)
    <2>1. \A i \in Class : f[t][i] = s => ~OnCache(c, s) /\ g.hdr[s].category = i
      BY <1>2, <1>8, <1>9, <1>11 DEF ForegroundGood
    <2>2. ASSUME NEW d \in use2, d.span = s  PROVE BlockGood(g, K[t], use2, d)
      <3>1. d \in use  BY <1>3
      <3>2. SmallGood(h, K[t], use, d) /\ d.pos # 0
        BY <1>2, <1>3, <1>4, <2>2, <3>1, SmallBlock
      <3>3. SmallGood(g, K[t], use2, d)
        BY <1>9, <1>11, <1>12, <2>2, <3>2 DEF SmallGood
      <3> QED  BY <3>2, <3>3 DEF BlockGood
    <2> QED  BY <1>7, <1>12, <1>14, <2>1, <2>2 DEF Settled
  <1>17. CallGood(g, K[t], c, f[t], l[t], bl2[t])
    <2>1. CallGood(h, K[t], c, f[t], l[t], bl2[t])
      <3>1. l[t].pc \notin GivingUp  BY DEF Free
      <3>2. bl2[t] \subseteq bl[t]  BY <1>3
      <3> QED  BY <1>2, <3>1, <3>2 DEF CallGood
    <2> QED  BY <2>1, FreeCall
  <1>18. Only(t, f, f) /\ Only(t, l, l)  BY DEF Only
  <1>19. Recalls(X, K[t], c, f[t], l[t], use2)
    <2>1. Recalls(X, K[t], c, f[t], l[t], use)  BY DEF HeapGood, use, c
    <2>2. \A x : x # s => Mates(use2, x) = Mates(use, x)  BY <1>3, <1>4 DEF Mates
    <2>3. Keeping(c, f[t], l[t], use, c, f[t], l[t], use2, s)  BY <2>2 DEF Keeping, KeptAt
    <2>4. Mates(use2, s) # {}
      <3>1. g.hdr[s].free_block_num # TotalBlocks(g.hdr[s].category)  BY <1>9, <1>11
      <3> QED  BY <1>12, <3>1, SomeMate
    <2>5. KeptAt(c, f[t], l[t], use2, s)  BY <2>4 DEF KeptAt
    <2> QED  BY <2>1, <2>3, <2>5, RecallsElse
  <1>20. HeapGood(X, g, K, [C EXCEPT ![t] = c], f, l, bl2) /\ Untouched(h, g, t, l, bl)
    <2>1. s \in Spans => HeaderGood(g.hdr[s])  BY <1>13
    <2> QED
      BY <1>1, <1>3, <1>10, <1>11, <1>15, <1>16, <1>17, <1>18, <1>19, <2>1, LocalElse DEF use, use2, c
  <1>21. v.free_block_num = 1 => Off(c, f[t], s)
    <2>1. ASSUME v.free_block_num = 1  PROVE ~Reached(c, f[t], l[t], s)
      BY <1>2, <1>11, <1>12, <2>1 DEF ReachedGood
    <2> QED  BY <1>8, <1>14, <2>1 DEF Reached, Off, OnCache
  <1>22. Ready(g, use2, s, h.hdr[s].category)  BY <1>9, <1>11, <1>12 DEF Ready
  <1> QED  BY <1>2, <1>7, <1>20, <1>21, <1>22 DEF use2, c

\* What is known of a block that its own thread frees.
LEMMA FreeOf ==
  ASSUME NEW X, ~RemoteFree, Good(X), NEW t \in Thread, th[t].pc = "idle", NEW b \in Freeable(t),
         live' = Without(b)
  PROVE  /\ Gone(live, live', t, b) /\ b \in Blocks(th[t], live[t])
         /\ live' \in [Thread -> SUBSET BlockType] /\ \A u \in Thread : IsFiniteSet(live'[u])
         /\ Free(th[t]) /\ th[t].addr = <<>> /\ th[t].pages \in LargeSize \cup {0}
  <1>1. /\ th[t] \in CallType /\ live \in [Thread -> SUBSET BlockType] /\ StateType
    BY CallOf DEF Good
  <1>2. PICK K, C : HeapGood(X, heap, K, C, foreground, th, live)  BY DEF Good
  <1>3. CallGood(heap, K[t], C[t], foreground[t], th[t], live[t])
    BY <1>2 DEF HeapGood, ThreadGood
  <1>4. th[t].addr = <<>> /\ Free(th[t])  BY <1>3 DEF CallGood, Answering, Free, GivingUp
  <1>5. b \in live[t] /\ b \in Blocks(th[t], live[t])  BY DEF Freeable, Blocks
  <1>6. \A u \in Thread : u # t => b \notin live[u]
    <2>1. \A u \in Thread : u # t => b \notin Blocks(th[u], live[u])  BY <1>2, <1>5, BlockOwn
    <2> QED  BY <2>1 DEF Blocks
  <1>7. \A u \in Thread : live'[u] = live[u] \ {b}  BY DEF Without
  <1>8. Only(t, live, live')
    <2>1. ASSUME NEW u \in Thread \ {t}  PROVE live'[u] = live[u]
      <3>1. b \notin live[u] /\ live'[u] = live[u] \ {b}  BY <1>6, <1>7
      <3>2. PICK x : x = live[u]  OBVIOUS
      <3>3. x \ {b} = x  BY <3>1, <3>2
      <3> QED  BY <3>1, <3>2, <3>3
    <2> QED  BY <2>1 DEF Only
  <1>9. live' \in [Thread -> SUBSET BlockType]
    <2>1. live' = [u \in Thread |-> live[u] \ {b}]  BY DEF Without
    <2> QED  BY <1>1, <2>1
  <1>10. \A u \in Thread : IsFiniteSet(live'[u])
    <2>1. \A u \in Thread : IsFiniteSet(live[u]) /\ live'[u] \in SUBSET live[u]
      BY <1>1, <1>7 DEF StateType
    <2> QED  BY <2>1, FS_Subset
  <1>11. th[t].pages \in LargeSize \cup {0}  BY <1>1 DEF CallType
  <1>12. live[t] \in SUBSET BlockType  BY <1>1
  <1> QED  BY <1>4, <1>5, <1>7, <1>8, <1>9, <1>10, <1>11, <1>12 DEF Gone

\* The span of a freed block and the bit that its address leads to.
LEMMA FreedBlock ==
  ASSUME NEW X, Good(X), NEW t \in Thread, NEW b \in Blocks(th[t], live[t])
  PROVE  /\ span_extract_header(heap, AddressIn(b)) = b.span /\ b.span \in Spans
         /\ Small(heap, b.span) => /\ BlockAt(b.span, AddressIn(b)) = b.pos
                                   /\ heap.hdr[b.span].category \in Class
         /\ ~Small(heap, b.span) => b.pos = 0
  <1>1. PICK K, C : HeapGood(X, heap, K, C, foreground, th, live)  BY DEF Good
  <1>2. /\ span_extract_header(heap, AddressIn(b)) = b.span /\ b.span \in Spans
        /\ BlockGood(heap, K[t], Blocks(th[t], live[t]), b)
    BY <1>1, HeaderFound
  <1>3. Small(heap, b.span) => b.pos # 0  BY <1>2 DEF Small, BlockGood, LargeGood
  <1>4. b.pos # 0 => /\ BlockAt(b.span, AddressIn(b)) = b.pos
                     /\ heap.hdr[b.span].category \in Class
    <2>1. PICK x : x = BlockAt(b.span, AddressIn(b))  OBVIOUS
    <2>2. x = ((AddressIn(b) - AddressOf(b.span)) \div (heap.hdr[b.span].category + 1)) + 1
      BY <2>1 DEF BlockAt
    <2> QED  BY <1>2, <2>1, <2>2, BlockPlace
  <1>5. b.pos # 0 => Small(heap, b.span)
    BY <1>2, ClassBlocks DEF Small, BlockGood, SmallGood, Serves
  <1> QED  BY <1>2, <1>3, <1>4, <1>5

\* The heap after small_free has put the span on the background, if it did.
LEMMA SomeGood ==
  ASSUME NEW X, NEW h, NEW f, NEW l, NEW bl, Ordered(X, h, f, l, bl), NEW t \in Thread,
         Free(l[t]), l[t].addr = <<>>, NEW b, NEW bl2, Gone(bl, bl2, t, b),
         NEW s, NEW v, NEW d, Returns(h, d, s, v, b), Small(h, s), KeepsOthers(h, v, s),
         NEW g, g = d \/ (v.free_block_num = 1
                           /\ g = list_add_tail(d, s, Background(t, h.hdr[s].category)))
  PROVE  Ordered(X, g, f, l, bl2) /\ Untouched(h, g, t, l, bl)
  <1>1. PICK K, C : HeapGood(X, h, K, C, f, l, bl)  BY DEF Ordered
  <1>2. /\ HeapGood(X, d, K, C, f, l, bl2) /\ Untouched(h, d, t, l, bl)
        /\ One(s) \in K[t] /\ h.hdr[s].category \in Class
        /\ Ready(d, Blocks(l[t], bl2[t]), s, h.hdr[s].category)
        /\ v.free_block_num = 1 => Off(C[t], f[t], s)
    BY <1>1, SomeHeap
  <1>3. CASE g = d  BY <1>2, <1>3 DEF Ordered
  <1>4. CASE v.free_block_num = 1 /\ g = list_add_tail(d, s, Background(t, h.hdr[s].category))
    <2>1. PICK i : i = h.hdr[s].category  OBVIOUS
    <2>2. i \in Class /\ i \in 0..PageUnits - 1  BY <1>2, <2>1, ClassBlocks
    <2>3. PICK j \in ListNo : j = BackNo(i) /\ j # 0 /\ Background(t, i) = HeadOf(t, j)
      BY <2>2, ListNumbers
    <2>4. Suits(d, j, s)
      <3>1. \A y \in 0..PageUnits - 1 : j \in {BackNo(y), NotNo(y)} => y = i
        BY <2>2, <2>3, ListNumbers
      <3>2. d.hdr[s].category = i  BY <1>2, <2>1 DEF Ready
      <3> QED  BY <3>1, <3>2 DEF Suits
    <2>5. g = list_add_tail(d, s, HeadOf(t, j))  BY <1>4, <2>1, <2>3
    <2>6. j = 0 => Mates(Blocks(l[t], bl2[t]), s) = {}  BY <2>3
    <2>7. j # 0 => Serves(d, Blocks(l[t], bl2[t]), s) /\ d.hdr[s].bitmap # {}
      BY <1>2 DEF Ready
    <2>8. Off(C[t], f[t], s)  BY <1>2, <1>4
    <2>9. PICK Y \in SUBSET X : Y = X \ {s}  OBVIOUS
    <2>10. HeapGood(X \ {s}, d, K, C, f, l, bl2)
      <3>1. HeapGood(Y, d, K, C, f, l, bl2)  BY <1>2, Narrowed
      <3> QED  BY <2>9, <3>1
    <2>11. /\ HeapGood(X, g, K, [C EXCEPT ![t] = With(C[t], j, s)], f, l, bl2)
          /\ Untouched(d, g, t, l, bl2)
      BY <1>2, <2>4, <2>5, <2>6, <2>7, <2>8, <2>10, PutHeap
    <2>12. Untouched(d, g, t, l, bl)
      <3>1. Only(t, l, l) /\ Only(t, bl, bl2)  BY DEF Only, Gone
      <3> QED  BY <2>11, <3>1, UntouchedElse
    <2> QED  BY <1>2, <2>11, <2>12, UntouchedTwice DEF Ordered
  <1> QED  BY <1>3, <1>4

\* hpnfree of a block in a span that keeps others: the bit is set again in the
\* header that the thread's other blocks are counted in.
LEMMA FreeSomeGood ==
  ASSUME NEW X, ~RemoteFree, Good(X), NEW t \in Thread, NEW b \in Freeable(t), FreeSome(t, b)
  PROVE  After(X, t)
  <1> DEFINE y == span_extract_header(heap, AddressIn(b))
             n == TotalBlocks(heap.hdr[y].category)
             w == Freed(heap.hdr[y], n, BlockAt(y, AddressIn(b)))
             e == [heap EXCEPT !.hdr[y] = w]
  <1>1. /\ At(t, "idle") /\ heap.hdr[y].category # LARGE /\ w.free_block_num # n
        /\ heap' = (IF w.free_block_num = 1 /\ heap.hdr[y].wear_count < threshold[t]
                    THEN list_add_tail(e, y, Background(t, heap.hdr[y].category)) ELSE e)
        /\ live' = Without(b)
        /\ UNCHANGED <<foreground, threshold, owner, th, calls, strayed>>
    BY Zenon DEF FreeSome
  <1>2. th[t].pc = "idle"  BY <1>1 DEF At
  <1>3. /\ Gone(live, live', t, b) /\ b \in Blocks(th[t], live[t])
        /\ live' \in [Thread -> SUBSET BlockType] /\ \A u \in Thread : IsFiniteSet(live'[u])
        /\ Free(th[t]) /\ th[t].addr = <<>>
    BY <1>1, <1>2, FreeOf
  <1>4. y = b.span /\ Small(heap, y) /\ BlockAt(y, AddressIn(b)) = b.pos
    <2>1. y = b.span  BY <1>3, FreedBlock
    <2> HIDE DEF y
    <2>2. Small(heap, y)  BY <1>1 DEF Small
    <2> QED  BY <1>3, <2>1, <2>2, FreedBlock
  <1>5. PICK s, v, d : s = y /\ v = w /\ d = e  OBVIOUS
  <1>6. /\ Returns(heap, d, s, v, b) /\ Small(heap, s) /\ KeepsOthers(heap, v, s)
        /\ heap' = d \/ (v.free_block_num = 1
                           /\ heap' = list_add_tail(d, s, Background(t, heap.hdr[s].category)))
    <2>1. v = Freed(heap.hdr[s], TotalBlocks(heap.hdr[s].category), b.pos)
      BY <1>4, <1>5, Zenon
    <2>2. d = [heap EXCEPT !.hdr[s] = v]  BY <1>5, Zenon
    <2>3. v.free_block_num # TotalBlocks(heap.hdr[s].category)  BY <1>1, <1>5, Zenon
    <2>4. heap' = d \/ (v.free_block_num = 1
                         /\ heap' = list_add_tail(d, s, Background(t, heap.hdr[s].category)))
      <3>1. heap' = (IF v.free_block_num = 1 /\ heap.hdr[s].wear_count < threshold[t]
                     THEN list_add_tail(d, s, Background(t, heap.hdr[s].category)) ELSE d)
        BY <1>1, <1>5, Zenon
      <3> QED  BY ONLY <3>1
    <2>5. s = b.span /\ Small(heap, s)  BY <1>4, <1>5, Zenon
    <2> HIDE DEF y, n, w, e
    <2> QED  BY <2>1, <2>2, <2>3, <2>4, <2>5 DEF Returns, KeepsOthers
  <1> HIDE DEF y, n, w, e
  <1>7. Ordered(X, heap, foreground, th, live)  BY DEF Good, Ordered
  <1>8. Ordered(X, heap', foreground, th, live') /\ Untouched(heap, heap', t, th, live)
    BY <1>3, <1>6, <1>7, SomeGood
  <1>9. /\ foreground' = foreground /\ threshold' = threshold /\ owner' = owner /\ th' = th
        /\ calls' = calls /\ strayed' = strayed
    BY <1>1
  <1>10. PICK K, C : HeapGood(X, heap', K, C, foreground', th', live')  BY <1>8, <1>9 DEF Ordered
  <1>11. StateType' /\ LocksGood'
    <2>1. StateType /\ LocksGood  BY DEF Good
    <2> QED  BY <1>3, <1>9, <2>1 DEF StateType, LocksGood
  <1> QED  BY <1>8, <1>10, <1>11, AfterOf

-----------------------------------------------------------------------------
\* With all blocks but one free, that block is the only one of the span.
LEMMA LastMate ==
  ASSUME NEW h, NEW s, NEW use, NEW b, NEW p, Serves(h, use, s), BlockOf(use, s, b, p),
         \A d \in Mates(use, s) : d.pos \in 1..TotalBlocks(h.hdr[s].category),
         h.hdr[s].free_block_num + 1 = TotalBlocks(h.hdr[s].category)
  PROVE  Mates(use, s) = {b}
  <1> DEFINE n == TotalBlocks(h.hdr[s].category)
             B == h.hdr[s].bitmap
  <1>1. n \in 1..PageUnits /\ PageUnits \in Nat  BY ClassBlocks, Sizes DEF Serves
  <1>2. /\ B = (1..n) \ {d.pos : d \in Mates(use, s)} /\ h.hdr[s].free_block_num = Cardinality(B)
        /\ Cardinality(B) + 1 = n /\ \A d \in Mates(use, s) : d.pos \in 1..n
    BY DEF Serves
  <1> HIDE DEF n, B
  <1>3. b \in Mates(use, s) /\ p = b.pos /\ \A d \in Mates(use, s) : d.pos = p => d = b
    BY DEF BlockOf
  <1>4. p \in 1..n /\ p \notin B /\ B \in SUBSET ((1..n) \ {p})
    <2>1. p \in {d.pos : d \in Mates(use, s)}  BY <1>3
    <2> QED  BY <1>2, <1>3, <2>1
  <1>5. IsFiniteSet((1..n) \ {p}) /\ Cardinality((1..n) \ {p}) = n - 1
    <2>1. 1 \in Int /\ n \in Int  BY <1>1
    <2>2. IsFiniteSet(1..n) /\ Cardinality(1..n) = IF 1 > n THEN 0 ELSE n - 1 + 1
      BY <2>1, FS_Interval, Zenon
    <2>3. p \in 1..n  BY <1>4
    <2>4. /\ IsFiniteSet((1..n) \ {p})
          /\ Cardinality((1..n) \ {p}) = IF p \in 1..n THEN Cardinality(1..n) - 1 ELSE Cardinality(1..n)
      BY <2>2, FS_RemoveElement, Zenon
    <2> QED  BY <1>1, <2>2, <2>3, <2>4
  <1>6. B = (1..n) \ {p}
    <2>1. IsFiniteSet(B)  BY <1>4, <1>5, FS_Subset, Zenon
    <2>2. Cardinality(B) \in Nat  BY <2>1, FS_CardinalityType, Zenon
    <2>3. Cardinality((1..n) \ {p}) = Cardinality(B)  BY <1>1, <1>2, <1>5, <2>2
    <2> QED  BY <1>4, <1>5, <2>3, FS_Subset, Zenon
  <1>7. ASSUME NEW d \in Mates(use, s)  PROVE d = b
    <2>1. d.pos \in 1..n  BY <1>2
    <2>2. d.pos \in {x.pos : x \in Mates(use, s)}  OBVIOUS
    <2>3. d.pos \notin B  BY <1>2, <2>2
    <2> QED  BY <1>3, <1>6, <2>1, <2>3
  <1> QED  BY <1>3, <1>7

\* Span s is off the lists, which are otherwise as they were.
Dropped(c, c2, s) == ~OnCache(c2, s) /\ \A j \in ListNo : c2[j] = c[j] \ {s}

\* list_del of a span of the thread, on a list or not, unless it strays.
LEMMA DropStep ==
  ASSUME NEW X, NEW h, NEW K, NEW C, NEW S, NEW L, NEW t \in Thread, NEW c, Base(X, h, K, C, S, L, t, c),
         NEW s, One(s) \in K[t], ~Strays(h, s), NEW g, g = list_del(h, s)
  PROVE  /\ \E c2 : Base(X, g, K, C, S, L, t, c2) /\ Dropped(c, c2, s)
         /\ Local(h, g, t, K[t], S, C) /\ SameButLinks(h, g)
  <1>1. CASE OnCache(c, s)
    <2>1. PICK j \in ListNo : s \in c[j]  BY <1>1 DEF OnCache
    <2>2. /\ Base(X, g, K, C, S, L, t, Less(c, j, s)) /\ Local(h, g, t, K[t], S, C)
          /\ SameButLinks(h, g)
      BY <2>1, TakeStep
    <2>3. c \in Caches /\ ListsGood(h, t, K[t], c)  BY DEF Base
    <2>4. PICK d : d = Less(c, j, s)  OBVIOUS
    <2>5. d[j] = c[j] \ {s} /\ \A i \in ListNo : i # j => d[i] = c[i]
      BY <2>3, <2>4 DEF Less, Caches
    <2>6. \A i \in ListNo : i # j => s \notin c[i]  BY <2>1, <2>3 DEF ListsGood
    <2>7. Dropped(c, d, s)
      <3>1. \A i \in ListNo : d[i] = c[i] \ {s}
        <4>1. ASSUME NEW i \in ListNo, i # j  PROVE d[i] = c[i] \ {s}
          <5>1. PICK q : q = c[i]  OBVIOUS
          <5>2. s \notin q /\ d[i] = q  BY <2>5, <2>6, <4>1, <5>1
          <5>3. q \ {s} = q  BY <5>2
          <5> QED  BY <5>1, <5>2, <5>3
        <4> QED  BY <2>5, <4>1
      <3> QED  BY <3>1 DEF Dropped, OnCache
    <2> QED  BY <2>2, <2>4, <2>7
  <1>2. CASE ~OnCache(c, s)
    <2>1. PICK e \in K[t] : s = e.at
      <3>1. One(s).at = s  BY DEF One
      <3> QED  BY <3>1
    <2>2. Base(X, g, K, C, S, L, t, c) /\ Local(h, g, t, K[t], S, C) /\ SameButLinks(h, g)
      BY <1>2, <2>1, OffStep
    <2>3. Dropped(c, c, s)
      <3>1. \A j \in ListNo : s \notin c[j]  BY <1>2 DEF OnCache
      <3>2. \A j \in ListNo : c[j] = c[j] \ {s}
        <4>1. ASSUME NEW j \in ListNo  PROVE c[j] = c[j] \ {s}
          <5>1. PICK q : q = c[j]  OBVIOUS
          <5> QED  BY <3>1, <5>1
        <4> QED  BY <4>1
      <3> QED  BY <1>2, <3>2 DEF Dropped
    <2> QED  BY <2>2, <2>3
  <1> QED  BY <1>1, <1>2

\* Span s is no longer the foreground span of class i.
Retires(f, f2, t, i, s) ==
  /\ Only(t, f, f2) /\ f2[t][i] # s
  /\ \A j \in Class : f2[t][j] = f[t][j] \/ (f[t][j] = s /\ f2[t][j] = NULL)

\* Span s is a page of thread t that nothing refers to.
Idles(X, h, K, f, l, bl, t, s) ==
  /\ s \in Spans /\ Small(h, s)
  /\ \E C : HeapGood(X, h, K, C, f, l, bl) /\ Unused(K[t], C[t], f[t], Blocks(l[t], bl[t]), s)

\* small_free of the last block of a span: nothing in the cache refers to it.
LEMMA LastHeap ==
  ASSUME NEW X, NEW h, NEW K, NEW C, NEW f, NEW l, NEW bl, HeapGood(X, h, K, C, f, l, bl),
         NEW t \in Thread, Free(l[t]), l[t].addr = <<>>, NEW b, NEW bl2, Gone(bl, bl2, t, b),
         NEW s, NEW v, NEW d, Returns(h, d, s, v, b), Small(h, s), ~KeepsOthers(h, v, s),
         ~Strays(h, s), NEW g, g = list_del(d, s),
         NEW f2, Retires(f, f2, t, h.hdr[s].category, s)
  PROVE  Idles(X \ {s}, g, K, f2, l, bl2, t, s) /\ Untouched(h, g, t, l, bl)
  <1> DEFINE use  == Blocks(l[t], bl[t])
             use2 == Blocks(l[t], bl2[t])
             c    == C[t]
  <1>1. PICK Y : Y = X \ {s} /\ HeapGood(Y, h, K, C, f, l, bl)
    <2>1. PICK Y \in SUBSET X : Y = X \ {s}  OBVIOUS
    <2> QED  BY <2>1, Narrowed
  <1>2. PICK S, L : Base(Y, h, K, C, S, L, t, C[t])  BY <1>1, BaseOf
  <1>3. /\ ThreadGood(h, t, K[t], c, f[t], l[t], bl[t])
        /\ K[t] \in SUBSET Piece /\ h \in HeapType(Lowest) /\ HeadersGood(h)
        /\ ForegroundGood(h, K[t], c, f[t])
        /\ BlocksGood(h, K[t], use) /\ CallGood(h, K[t], c, f[t], l[t], bl[t])
    BY <1>2 DEF Base, HeapGood, Pool, ThreadGood
  <1>4. /\ use = bl[t] /\ use2 = bl2[t] /\ use \in SUBSET BlockType /\ b \in use
        /\ use2 = use \ {b} /\ Only(t, bl, bl2)
    BY DEF Gone, Blocks
  <1> HIDE DEF use, use2, c
  <1>5. s = b.span /\ Sets(h, d, s, v)  BY DEF Returns, Sets
  <1>6. SmallGood(h, K[t], use, b) /\ b.pos # 0 /\ BlockOf(use, s, b, b.pos)
    <2>1. Small(h, b.span)  BY <1>5
    <2>2. SmallGood(h, K[t], use, b) /\ b.pos # 0 /\ BlockOf(use, b.span, b, b.pos)
      BY <1>3, <1>4, <2>1, SmallBlock
    <2> QED  BY <1>5, <2>2
  <1>7. PICK p : p = b.pos  OBVIOUS
  <1>8. /\ One(s) \in K[t] /\ p \in 1..TotalBlocks(h.hdr[s].category) /\ Serves(h, use, s)
        /\ h.hdr[s].category \in Class /\ p \in Nat /\ p \in 1..PageUnits
        /\ TotalBlocks(h.hdr[s].category) \in 0..PageUnits
    <2>1. /\ One(s) \in K[t] /\ p \in 1..TotalBlocks(h.hdr[s].category) /\ Serves(h, use, s)
          /\ h.hdr[s].category \in Class
      BY <1>5, <1>6, <1>7 DEF SmallGood, Serves
    <2>2. TotalBlocks(h.hdr[s].category) \in 1..PageUnits /\ PageUnits \in Nat
      BY <2>1, ClassBlocks, Sizes
    <2> QED  BY <2>1, <2>2
  <1>9. One(s).at = s /\ s \in Spans /\ s # NULL
    <2>1. One(s).at = s  BY DEF One
    <2>2. s \in Spans  BY <1>3, <1>8, <2>1 DEF Piece
    <2> QED  BY <2>1, <2>2, LowestNodes, NodesIn
  <1>10. /\ v \in HeaderType /\ v.category = h.hdr[s].category
        /\ v.free_block_num = h.hdr[s].free_block_num + 1 /\ v.bitmap = h.hdr[s].bitmap
        /\ v.free_block_num = TotalBlocks(h.hdr[s].category)
    <2>1. h.hdr[s] \in HeaderType  BY <1>3, <1>9 DEF HeapType
    <2>2. p \in Nat /\ p \in 1..PageUnits  BY <1>8
    <2>3. v = Freed(h.hdr[s], TotalBlocks(h.hdr[s].category), p)  BY <1>7 DEF Returns
    <2>4. v.free_block_num = TotalBlocks(h.hdr[s].category)  BY DEF KeepsOthers
    <2> QED  BY <2>1, <2>2, <2>3, <2>4, FreedHeader
  <1>11. Base(Y, d, K, C, S, L, t, c) /\ Local(h, d, t, K[t], S, C) /\ Headed(h, d, s, v)
    <2>1. Base(Y, h, K, C, S, L, t, c)  BY <1>2 DEF c
    <2>2. Keeps(h, c, s, v)  BY <1>10 DEF Keeps
    <2> QED  BY <1>5, <1>8, <1>10, <2>1, <2>2, HdrStep
  <1>12. PICK c2 : /\ Base(Y, g, K, C, S, L, t, c2) /\ Dropped(c, c2, s)
                   /\ Local(d, g, t, K[t], S, C) /\ SameButLinks(d, g)
    <2>1. ~Strays(d, s)  BY <1>11 DEF Headed, Strays, Linked
    <2> QED  BY <1>8, <1>11, <2>1, DropStep
  <1>13. Local(h, g, t, K[t], S, C)  BY <1>11, <1>12, LocalTwice
  <1>14. Alters(h, g, s) /\ g.hdr[s] = v
    BY <1>11, <1>12 DEF SameButLinks, Headed, Alters
  <1>15. HeaderGood(g.hdr[s])
    <2>1. HeaderGood(h.hdr[s])  BY <1>3, <1>9 DEF HeadersGood
    <2> QED  BY <1>8, <1>10, <1>14, <2>1 DEF HeaderGood
  <1>16. Mates(use, s) = {b} /\ Mates(use2, s) = {}
    <2>1. \A x \in Mates(use, s) : x.pos \in 1..TotalBlocks(h.hdr[s].category)
      <3>1. ASSUME NEW x \in Mates(use, s)  PROVE x.pos \in 1..TotalBlocks(h.hdr[s].category)
        <4>1. x \in use /\ x.span = s /\ Small(h, x.span)  BY DEF Mates
        <4>2. SmallGood(h, K[t], use, x)  BY <1>3, <1>4, <4>1, SmallBlock
        <4> QED  BY <4>1, <4>2 DEF SmallGood
      <3> QED  BY <3>1
    <2>2. h.hdr[s].free_block_num + 1 = TotalBlocks(h.hdr[s].category)  BY <1>10
    <2>3. Mates(use, s) = {b}  BY <1>6, <1>8, <2>1, <2>2, LastMate
    <2> QED  BY <1>4, <2>3 DEF Mates
  <1>17. \A j \in Class : f2[t][j] # s
    <2>1. PICK i : i = h.hdr[s].category  OBVIOUS
    <2>2. \A j \in Class : j # i => f[t][j] # s  BY <1>3, <1>9, <2>1, FrontOnce
    <2> QED  BY <1>9, <2>1, <2>2 DEF Retires
  <1>18. Beyond(c, f[t], l[t], use, c2, f2[t], l[t], use2, s)
    <2>1. \A x : x # s => Mates(use2, x) = Mates(use, x)  BY <1>4, <1>5 DEF Mates
    <2>2. \A j \in ListNo : c2[j] = c[j] \ {s}  BY <1>12 DEF Dropped
    <2>3. \A x : OnCache(c2, x) => OnCache(c, x)  BY <2>2 DEF OnCache
    <2>4. \A j \in Class : f2[t][j] \in {f[t][j], NULL}  BY DEF Retires
    <2>5. \A x : Reached(c2, f2[t], l[t], x) => Reached(c, f[t], l[t], x)
      BY <2>2, <2>4 DEF Reached
    <2>6. c2[0] = c[0] \ {s}  BY <2>2, ListNumbers
    <2> QED  BY <1>4, <2>1, <2>3, <2>4, <2>5, <2>6 DEF Beyond
  <1>19. Settled(g, K[t], c2, f2[t], l[t], use2, s)
    <2>1. ~OnCache(c2, s)  BY <1>12 DEF Dropped
    <2>2. ~Reached(c2, f2[t], l[t], s)  BY <1>17, <2>1 DEF Reached, OnCache, Free
    <2>3. \A x \in use2 : x.span # s  BY <1>16 DEF Mates
    <2> QED  BY <1>16, <1>17, <2>2, <2>3 DEF Settled
  <1>20. CallGood(g, K[t], c2, f2[t], l[t], bl2[t])
    <2>1. CallGood(h, K[t], c, f[t], l[t], bl2[t])
      <3>1. l[t].pc \notin GivingUp  BY DEF Free
      <3>2. bl2[t] \subseteq bl[t]  BY <1>4
      <3> QED  BY <1>3, <3>1, <3>2 DEF CallGood
    <2> QED  BY <2>1, FreeCall
  <1>21. Only(t, f, f2) /\ Only(t, l, l)  BY DEF Only, Retires
  <1>22. Recalls(Y, K[t], c2, f2[t], l[t], use2)
    <2>1. Recalls(Y, K[t], c, f[t], l[t], use)  BY <1>1 DEF HeapGood, use, c
    <2>2. \A x : x # s => Mates(use2, x) = Mates(use, x)  BY <1>4, <1>5 DEF Mates
    <2>3. \A x : x # s /\ OnCache(c, x) => OnCache(c2, x)  BY <1>12 DEF Dropped, OnCache
    <2>4. \A x : x # s => \A i \in Class : x = f[t][i] => x = f2[t][i]  BY DEF Retires
    <2>5. Keeping(c, f[t], l[t], use, c2, f2[t], l[t], use2, s)
      BY <2>2, <2>3, <2>4 DEF Keeping, KeptAt
    <2>6. Base(Y, h, K, C, S, L, t, c)  BY <1>2 DEF c
    <2>7. Recalls(X \ {s}, K[t], c, f[t], l[t], use)  BY <1>1, <2>1
    <2>8. Recalls(X \ {s}, K[t], c2, f2[t], l[t], use2)
      BY <1>8, <2>5, <2>6, <2>7, RecallsBut
    <2> QED  BY <1>1, <2>8
  <1>23. HeapGood(Y, g, K, [C EXCEPT ![t] = c2], f2, l, bl2) /\ Untouched(h, g, t, l, bl)
    <2>1. s \in Spans => HeaderGood(g.hdr[s])  BY <1>15
    <2> QED
      BY <1>2, <1>4, <1>12, <1>13, <1>14, <1>18, <1>19, <1>20, <1>21, <1>1, <1>22, <2>1, LocalElse
      DEF use, use2, c
  <1>24. [C EXCEPT ![t] = c2][t] = c2
    <2>1. C \in [Thread -> Caches]  BY <1>2 DEF Base
    <2> QED  BY <2>1
  <1>25. Unused(K[t], c2, f2[t], use2, s)  BY <1>8, <1>12, <1>16, <1>17 DEF Unused, Off, Dropped
  <1>26. Small(g, s)  BY <1>10, <1>14 DEF Small
  <1> QED  BY <1>9, <1>23, <1>24, <1>25, <1>26, <1>1 DEF use2, Idles

-----------------------------------------------------------------------------
\* A call that frees has span s to give back.
HandsBack(l, m, s) ==
  l.addr = <<>> /\ m.pc = "giveback" /\ m.addr = <<>> /\ m.span = s /\ m.class = -1

\* The whole of span s is a piece of the thread that nothing refers to.
Whole(h, s) == [at |-> s, pages |-> IF h.hdr[s].category # LARGE THEN 1 ELSE h.hdr[s].page_num]
Spent(h, k, c, f, use, s) == Clear(c, f, use, s) /\ Whole(h, s) \in k

\* A call that hands a spent span back to its pool.
LEMMA HandBackHeap ==
  ASSUME NEW X, NEW h, NEW K, NEW C, NEW f, NEW l, NEW bl, NEW s,
         HeapGood(X \ PagesOf(Whole(h, s)), h, K, C, f, l, bl),
         NEW t \in Thread, Free(l[t]), Spent(h, K[t], C[t], f[t], Blocks(l[t], bl[t]), s),
         NEW l2, Only(t, l, l2), HandsBack(l[t], l2[t], s)
  PROVE  HeapGood(X, h, K, C, f, l2, bl)
  <1>1. ThreadGood(h, t, K[t], C[t], f[t], l[t], bl[t])  BY DEF HeapGood
  <1>2. PICK m : m = l2[t]  OBVIOUS
  <1>3. /\ m.pc = "giveback" /\ m.addr = <<>> /\ m.span = s /\ m.class = -1
        /\ Blocks(m, bl[t]) = Blocks(l[t], bl[t])
    BY <1>2 DEF HandsBack, Blocks
  <1>4. GivenUpGood(h, K[t], C[t], f[t], m, Blocks(m, bl[t]))
    BY <1>3 DEF GivenUpGood, Spent, Clear, Off, Whole
  <1>5. CallGood(h, K[t], C[t], f[t], m, bl[t])
    BY <1>3, <1>4 DEF CallGood, Searching, Answering, GivingUp
  <1>6. ThreadGood(h, t, K[t], C[t], f[t], m, bl[t])
    <2>1. m.pc # "clock"  BY <1>3
    <2> QED  BY <1>1, <1>3, <1>5, <2>1, MovesOn
  <1>7. Only(t, bl, bl)  BY DEF Only
  <1>8. ThreadGood(h, t, K[t], C[t], f[t], l2[t], bl[t])  BY <1>2, <1>6
  <1>9. PICK e, Y : e = Whole(h, s) /\ Y = X \ PagesOf(e)  OBVIOUS
  <1>10. HeapGood(Y, h, K, C, f, l, bl)  BY <1>9
  <1>11. Recalls(Y, K[t], C[t], f[t], l2[t], Blocks(l2[t], bl[t]))
    <2>1. Recalls(Y, K[t], C[t], f[t], l[t], Blocks(l[t], bl[t]))  BY <1>10 DEF HeapGood
    <2>2. Stays(Y, l[t], m)  BY <1>3 DEF Stays, Free, GivingUp
    <2>3. Recalls(Y, K[t], C[t], f[t], m, Blocks(l[t], bl[t]))  BY <2>1, <2>2, Staying
    <2>4. Blocks(l2[t], bl[t]) = Blocks(l[t], bl[t])  BY <1>2, <1>3
    <2> QED  BY <1>2, <2>3, <2>4
  <1>12. HeapGood(Y, h, K, C, f, l2, bl)  BY <1>7, <1>8, <1>10, <1>11, SameHeap
  <1>13. e \in K[t] /\ e.at = s  BY <1>9 DEF Spent, Whole
  <1>14. KeptAt(C[t], f[t], l2[t], Blocks(l2[t], bl[t]), e.at)
    BY <1>2, <1>3, <1>13 DEF KeptAt, GivingUp
  <1> QED  BY <1>9, <1>12, <1>13, <1>14, Regained

\* The two ways on after the last block of a span has come back.
LEMMA LastGood ==
  ASSUME NEW X, NEW h, NEW f, NEW l, NEW bl, Ordered(X, h, f, l, bl),
         NEW t \in Thread, Free(l[t]), l[t].addr = <<>>, NEW b, NEW bl2, Gone(bl, bl2, t, b),
         NEW s, NEW v, NEW e, Returns(h, e, s, v, b), Small(h, s), ~KeepsOthers(h, v, s),
         ~Strays(h, s), NEW d, d = list_del(e, s),
         NEW f2, Retires(f, f2, t, h.hdr[s].category, s),
         NEW l2, Only(t, l, l2),
         NEW g, \/ g = d /\ HandsBack(l[t], l2[t], s)
                \/ g = list_add_tail(d, s, FreeSpans(t)) /\ l2 = l
  PROVE  Ordered(X, g, f2, l2, bl2) /\ Untouched(h, g, t, l, bl)
  <1>1. PICK K, C : HeapGood(X, h, K, C, f, l, bl)  BY DEF Ordered
  <1>2. PICK C2 : /\ HeapGood(X \ {s}, d, K, C2, f2, l, bl2)
                  /\ Unused(K[t], C2[t], f2[t], Blocks(l[t], bl2[t]), s)
                  /\ Untouched(h, d, t, l, bl) /\ Small(d, s) /\ s \in Spans
    <2>1. Idles(X \ {s}, d, K, f2, l, bl2, t, s) /\ Untouched(h, d, t, l, bl)  BY <1>1, LastHeap
    <2> QED  BY <2>1 DEF Idles
  <1>3. CASE g = d /\ HandsBack(l[t], l2[t], s)
    <2>1. Spent(d, K[t], C2[t], f2[t], Blocks(l[t], bl2[t]), s)
      BY <1>2 DEF Spent, Clear, Unused, Small, One, Whole
    <2>2. HeapGood(X, d, K, C2, f2, l2, bl2)
      <3>1. Whole(d, s) = One(s)  BY <1>2 DEF Whole, Small, One
      <3>2. PagesOf(One(s)) = {s}
        <4>1. s \in Nat  BY <1>2, Sizes DEF Spans
        <4> QED  BY <4>1 DEF One, PagesOf, ExtentOf
      <3>3. HeapGood(X \ PagesOf(Whole(d, s)), d, K, C2, f2, l, bl2)  BY <1>2, <3>1, <3>2
      <3> QED  BY <1>3, <2>1, <3>3, HandBackHeap
    <2> QED  BY <1>2, <1>3, <2>2 DEF Ordered
  <1>4. CASE g = list_add_tail(d, s, FreeSpans(t)) /\ l2 = l
    <2>1. PICK j \in ListNo : j = 0 /\ FreeSpans(t) = HeadOf(t, j)  BY ListNumbers
    <2>2. Suits(d, j, s)  BY <2>1, ListNumbers DEF Suits
    <2>3. g = list_add_tail(d, s, HeadOf(t, j))  BY <1>4, <2>1
    <2>4. j = 0 => Mates(Blocks(l[t], bl2[t]), s) = {}  BY <1>2 DEF Unused
    <2>5. j # 0 => Serves(d, Blocks(l[t], bl2[t]), s) /\ d.hdr[s].bitmap # {}  BY <2>1
    <2>6. One(s) \in K[t] /\ Off(C2[t], f2[t], s)  BY <1>2 DEF Unused
    <2>7. /\ HeapGood(X, g, K, [C2 EXCEPT ![t] = With(C2[t], j, s)], f2, l, bl2)
          /\ Untouched(d, g, t, l, bl2)
      BY <1>2, <2>2, <2>3, <2>4, <2>5, <2>6, PutHeap
    <2>8. Untouched(d, g, t, l, bl)
      <3>1. Only(t, l, l) /\ Only(t, bl, bl2)  BY DEF Only, Gone
      <3> QED  BY <2>7, <3>1, UntouchedElse
    <2>9. Untouched(h, g, t, l, bl)  BY <1>2, <2>8, UntouchedTwice
    <2> QED  BY <1>4, <2>7, <2>9 DEF Ordered
  <1> QED  BY <1>3, <1>4

\* hpnfree of the last block of a span: with no stale link met, the span leaves
\* its list for the spare pages or for its pool.
LEMMA FreeLastGood ==
  ASSUME NEW X, ~RemoteFree, Good(X), NEW t \in Thread, NEW b \in Freeable(t), FreeLast(t, b), ~strayed'
  PROVE  After(X, t)
  <1> DEFINE y == span_extract_header(heap, AddressIn(b))
             n == TotalBlocks(heap.hdr[y].category)
             w == Freed(heap.hdr[y], n, BlockAt(y, AddressIn(b)))
             z == list_del([heap EXCEPT !.hdr[y] = w], y)
  <1>1. /\ At(t, "idle") /\ heap.hdr[y].category # LARGE /\ w.free_block_num = n
        /\ IF heap.hdr[y].wear_count >= threshold[t]
           THEN heap' = z /\ Goto(t, [Idle EXCEPT !.pc = "giveback", !.span = y])
           ELSE heap' = list_add_tail(z, y, FreeSpans(t)) /\ UNCHANGED th
        /\ foreground' = [foreground EXCEPT
             ![t][heap.hdr[y].category] = IF @ = y THEN NULL ELSE @]
        /\ strayed' = (strayed \/ Strays(heap, y))
        /\ live' = Without(b)
        /\ UNCHANGED <<threshold, owner, calls>>
    BY Zenon DEF FreeLast
  <1>2. th[t].pc = "idle"  BY <1>1 DEF At
  <1>3. /\ Gone(live, live', t, b) /\ b \in Blocks(th[t], live[t])
        /\ live' \in [Thread -> SUBSET BlockType] /\ \A u \in Thread : IsFiniteSet(live'[u])
        /\ Free(th[t]) /\ th[t].addr = <<>>
    BY <1>1, <1>2, FreeOf
  <1>4. /\ y = b.span /\ Small(heap, y) /\ BlockAt(y, AddressIn(b)) = b.pos
        /\ y \in Spans /\ heap.hdr[y].category \in Class
    <2>1. y = b.span /\ y \in Spans  BY <1>3, FreedBlock
    <2> HIDE DEF y
    <2>2. Small(heap, y)  BY <1>1 DEF Small
    <2> QED  BY <1>3, <2>1, <2>2, FreedBlock
  <1>5. PICK s, v, e, d, r, i : /\ s = y /\ v = w /\ e = [heap EXCEPT !.hdr[y] = w] /\ d = z
                                /\ r = [Idle EXCEPT !.pc = "giveback", !.span = y]
                                /\ i = heap.hdr[y].category
    BY SMTT(30)
  <1>6. /\ Returns(heap, e, s, v, b) /\ Small(heap, s) /\ ~KeepsOthers(heap, v, s)
        /\ ~Strays(heap, s) /\ d = list_del(e, s) /\ s \in Spans
        /\ i = heap.hdr[s].category /\ i \in Class
        /\ \/ heap' = d /\ Goto(t, r)
           \/ heap' = list_add_tail(d, s, FreeSpans(t)) /\ th' = th
        /\ foreground' = [foreground EXCEPT ![t][i] = IF @ = s THEN NULL ELSE @]
        /\ r = [Idle EXCEPT !.pc = "giveback", !.span = s]
    <2>1. v = Freed(heap.hdr[s], TotalBlocks(heap.hdr[s].category), b.pos)
      BY <1>4, <1>5, Zenon
    <2>2. e = [heap EXCEPT !.hdr[s] = v]  BY <1>5, Zenon
    <2>3. v.free_block_num = TotalBlocks(heap.hdr[s].category)  BY <1>1, <1>5, Zenon
    <2>4. \/ heap' = d /\ Goto(t, r)
          \/ heap' = list_add_tail(d, s, FreeSpans(t)) /\ th' = th
      <3>1. IF heap.hdr[s].wear_count >= threshold[t]
            THEN heap' = d /\ Goto(t, r)
            ELSE heap' = list_add_tail(d, s, FreeSpans(t)) /\ th' = th
        BY <1>1, <1>5, Zenon
      <3> QED  BY ONLY <3>1
    <2>5. s = b.span /\ Small(heap, s) /\ s \in Spans /\ i \in Class  BY <1>4, <1>5, Zenon
    <2>6. d = list_del(e, s) /\ i = heap.hdr[s].category  BY <1>5, Zenon
    <2>7. foreground' = [foreground EXCEPT ![t][i] = IF @ = s THEN NULL ELSE @]
      BY <1>1, <1>5, Zenon
    <2>8. ~Strays(heap, s)  BY <1>1, <1>5, Zenon
    <2>9. r = [Idle EXCEPT !.pc = "giveback", !.span = s]  BY <1>5, Zenon
    <2> HIDE DEF y, n, w, z
    <2> QED  BY <2>1, <2>2, <2>3, <2>4, <2>5, <2>6, <2>7, <2>8, <2>9 DEF Returns, KeepsOthers
  <1> HIDE DEF y, n, w, z
  <1>7. /\ r \in CallType /\ r.pc = "giveback" /\ r.span = s /\ r.class = -1 /\ r.addr = <<>>
    <2>1. Idle \in CallType /\ Idle.class = -1 /\ Idle.addr = <<>>  BY IdleType DEF Idle
    <2>2. "giveback" \in PCs  BY DEF PCs
    <2>3. s \in Spans /\ r = [Idle EXCEPT !.pc = "giveback", !.span = s]  BY <1>6
    <2> QED  BY ONLY <2>1, <2>2, <2>3 DEF CallType
  <1>8. /\ th \in [Thread -> CallType] /\ LocksGood /\ StateType
        /\ foreground \in [Thread -> [Class -> Spans \cup {NULL}]]
    BY CallOf DEF Good, StateType
  <1>9. /\ Only(t, th, th') /\ th' \in [Thread -> CallType]
        /\ th'[t].pc \notin {"fill", "accounting", "giving"}
        /\ \/ heap' = d /\ HandsBack(th[t], th'[t], s)
           \/ heap' = list_add_tail(d, s, FreeSpans(t)) /\ th' = th
    <2>1. CASE heap' = d /\ Goto(t, r)
      <3>1. th' \in [Thread -> CallType] /\ th'[t] = r /\ Only(t, th, th')
        BY <1>7, <1>8, <2>1, GotoEffect
      <3>2. HandsBack(th[t], th'[t], s)  BY <1>3, <1>7, <3>1 DEF HandsBack
      <3> QED  BY <1>7, <2>1, <3>1, <3>2
    <2>2. CASE heap' = list_add_tail(d, s, FreeSpans(t)) /\ th' = th
      <3>1. Only(t, th, th')  BY <2>2 DEF Only
      <3> QED  BY <1>2, <1>8, <2>2, <3>1
    <2> QED  BY <1>6, <2>1, <2>2
  <1>10. PICK x \in Spans \cup {NULL} :
           /\ x = IF foreground[t][i] = s THEN NULL ELSE foreground[t][i]
           /\ x # s /\ (x = foreground[t][i] \/ (foreground[t][i] = s /\ x = NULL))
    <2>1. PICK x : x = IF foreground[t][i] = s THEN NULL ELSE foreground[t][i]  OBVIOUS
    <2>2. foreground[t][i] \in Spans \cup {NULL}  BY <1>6, <1>8
    <2>3. s # NULL  BY <1>6, LowestNodes, NodesIn
    <2>4. /\ x \in Spans \cup {NULL} /\ x # s
          /\ (x = foreground[t][i] \/ (foreground[t][i] = s /\ x = NULL))
      BY <2>1, <2>2, <2>3
    <2> QED  BY <2>1, <2>4
  <1>11. foreground' = [foreground EXCEPT ![t] = [foreground[t] EXCEPT ![i] = x]]
    BY <1>6, <1>10, Zenon
  <1>12. foreground' \in [Thread -> [Class -> Spans \cup {NULL}]]
    <2>1. [foreground[t] EXCEPT ![i] = x] \in [Class -> Spans \cup {NULL}]  BY <1>8, <1>10
    <2> QED  BY <1>8, <1>11, <2>1
  <1>13. Retires(foreground, foreground', t, i, s)
    <2>1. foreground'[t] = [foreground[t] EXCEPT ![i] = x]  BY <1>8, <1>11
    <2>2. Only(t, foreground, foreground')  BY <1>8, <1>11 DEF Only
    <2>3. foreground[t] \in [Class -> Spans \cup {NULL}]  BY <1>8
    <2>4. \A j \in Class : foreground'[t][j] = IF j = i THEN x ELSE foreground[t][j]
      BY SMTT(30), <2>1, <2>3
    <2>5. foreground'[t][i] # s  BY <1>6, <1>10, <2>4
    <2>6. \A j \in Class : foreground'[t][j] = foreground[t][j]
                           \/ (foreground[t][j] = s /\ foreground'[t][j] = NULL)
      BY <1>10, <2>4
    <2> QED  BY <2>2, <2>5, <2>6 DEF Retires
  <1>14. Ordered(X, heap, foreground, th, live)  BY SMTT(30) DEF Good, Ordered
  <1>15. Ordered(X, heap', foreground', th', live') /\ Untouched(heap, heap', t, th, live)
    <2>1. Retires(foreground, foreground', t, heap.hdr[s].category, s)  BY <1>6, <1>13
    <2> QED  BY ZenonT(60), <1>3, <1>6, <1>9, <1>14, <2>1, LastGood
  <1>16. PICK K, C : HeapGood(X, heap', K, C, foreground', th', live')  BY <1>15 DEF Ordered
  <1>17. LocksGood'
    <2>1. UNCHANGED owner  BY <1>1
    <2> QED  BY <1>8, <1>9, <2>1, LocksKept
  <1>18. StateType'  BY <1>1, <1>3, <1>8, <1>9, <1>12 DEF StateType
  <1> QED  BY <1>15, <1>16, <1>17, <1>18, AfterOf

\* A large block and its span: nothing else refers to the span.
LEMMA LargeAlone ==
  ASSUME NEW h, NEW t, NEW k, NEW c, NEW f, NEW l, NEW bl, ThreadGood(h, t, k, c, f, l, bl),
         Blocks(l, bl) \in SUBSET BlockType, NEW b \in Blocks(l, bl), b.pos = 0,
         Free(l), b.span # NULL
  PROVE  /\ Off(c, f, b.span) /\ Mates(Blocks(l, bl), b.span) = {b}
         /\ [at |-> b.span, pages |-> h.hdr[b.span].page_num] \in k /\ ~Small(h, b.span)
  <1> DEFINE use == Blocks(l, bl)
             s   == b.span
  <1>1. /\ ForegroundGood(h, k, c, f) /\ ReachedGood(h, c, f, l, use) /\ BlocksGood(h, k, use)
        /\ SpareGood(c, use)
    BY DEF ThreadGood
  <1> HIDE DEF use, s
  <1>2. LargeGood(h, k, b)  BY <1>1 DEF BlocksGood, use
  <1>3. h.hdr[s].category = LARGE /\ [at |-> s, pages |-> h.hdr[s].page_num] \in k
    BY <1>2 DEF LargeGood, s
  <1>4. ~Reached(c, f, l, s)  BY <1>1, <1>3, ClassBlocks DEF ReachedGood, Serves
  <1>5. s \notin c[0]  BY <1>1 DEF SpareGood, Mates, use, s
  <1>6. Off(c, f, s)
    <2>1. s # NULL  BY DEF s
    <2> QED  BY <1>4, <1>5, <2>1 DEF Reached, Off, OnCache
  <1>7. ASSUME NEW d \in use, d.span = s  PROVE d = b
    <2>1. d.pos = 0
      BY <1>1, <1>3, <1>7, ClassBlocks DEF BlocksGood, SmallGood, Serves
    <2> QED  BY <1>1, <1>7, <2>1, MateOnce DEF use, s
  <1>8. Mates(use, s) = {b}  BY <1>7 DEF Mates, use, s
  <1> QED  BY <1>3, <1>6, <1>8 DEF use, s, Small

\* The free of a large block: the span is no longer the thread's to use.
LEMMA LargeLess ==
  ASSUME NEW X, NEW h, NEW K, NEW C, NEW f, NEW l, NEW bl, HeapGood(X, h, K, C, f, l, bl),
         NEW t \in Thread, Free(l[t]), l[t].addr = <<>>, NEW b, NEW bl2, Gone(bl, bl2, t, b),
         NEW s, s = b.span, s \in Spans, b.pos = 0
  PROVE  /\ HeapGood(X \ PagesOf(Whole(h, s)), h, K, C, f, l, bl2) /\ Untouched(h, h, t, l, bl)
         /\ Spent(h, K[t], C[t], f[t], Blocks(l[t], bl2[t]), s)
  <1> DEFINE use  == Blocks(l[t], bl[t])
             use2 == Blocks(l[t], bl2[t])
             c    == C[t]
  <1>1. /\ ThreadGood(h, t, K[t], c, f[t], l[t], bl[t]) /\ K[t] \in SUBSET Piece
        /\ ListsGood(h, t, K[t], c) /\ CallGood(h, K[t], c, f[t], l[t], bl[t])
    BY DEF HeapGood, ThreadGood
  <1>2. /\ use = bl[t] /\ use2 = bl2[t] /\ use \in SUBSET BlockType /\ b \in use
        /\ use2 = use \ {b} /\ Only(t, bl, bl2) /\ Only(t, l, l)
    BY DEF Gone, Blocks, Only
  <1>3. s # NULL  BY LowestNodes, NodesIn
  <1>4. /\ Off(c, f[t], s) /\ Mates(use, s) = {b} /\ ~Small(h, s)
        /\ [at |-> s, pages |-> h.hdr[s].page_num] \in K[t]
    <2>1. /\ ThreadGood(h, t, K[t], C[t], f[t], l[t], bl[t])
          /\ Blocks(l[t], bl[t]) \in SUBSET BlockType /\ b \in Blocks(l[t], bl[t])
          /\ b.span # NULL
      BY <1>1, <1>2, <1>3
    <2>2. /\ Off(C[t], f[t], b.span) /\ Mates(Blocks(l[t], bl[t]), b.span) = {b}
          /\ [at |-> b.span, pages |-> h.hdr[b.span].page_num] \in K[t] /\ ~Small(h, b.span)
      BY <2>1, LargeAlone
    <2> QED  BY <2>2
  <1> HIDE DEF use, use2, c
  <1>5. Mates(use2, s) = {}  BY <1>2, <1>4 DEF Mates
  <1>6. Beyond(c, f[t], l[t], use, c, f[t], l[t], use2, s)
    <2>1. \A x : x # s => Mates(use2, x) = Mates(use, x)  BY <1>2 DEF Mates
    <2> QED  BY <1>2, <2>1 DEF Beyond
  <1>7. Settled(h, K[t], c, f[t], l[t], use2, s)
    <2>1. ~Reached(c, f[t], l[t], s)  BY <1>4 DEF Reached, Off, OnCache, Free
    <2>2. \A x \in use2 : x.span # s  BY <1>5 DEF Mates
    <2> QED  BY <1>4, <1>5, <2>1, <2>2 DEF Settled, Off
  <1>8. CallGood(h, K[t], c, f[t], l[t], bl2[t])
    <2>1. l[t].pc \notin GivingUp  BY DEF Free
    <2>2. bl2[t] \subseteq bl[t]  BY <1>2
    <2> QED  BY <1>1, <2>1, <2>2 DEF CallGood
  <1>9. Alters(h, h, s)  BY DEF Alters
  <1>10. ThreadGood(h, t, K[t], c, f[t], l[t], bl2[t])
    BY <1>1, <1>6, <1>7, <1>8, <1>9, ThreadElse DEF use, use2
  <1>11. Spent(h, K[t], c, f[t], use2, s)  BY <1>4, <1>5 DEF Spent, Clear, Small, Whole
  <1>12. PICK e, Y : e = Whole(h, s) /\ Y = X \ PagesOf(e)  OBVIOUS
  <1>13. HeapGood(Y, h, K, C, f, l, bl)
    <2>1. Y \in SUBSET X  BY <1>12
    <2> QED  BY <2>1, Narrowed
  <1>14. Recalls(Y, K[t], c, f[t], l[t], use2)
    <2>1. Recalls(Y, K[t], c, f[t], l[t], use)  BY <1>13 DEF HeapGood, use, c
    <2>2. \A x : x # s => Mates(use2, x) = Mates(use, x)  BY <1>2 DEF Mates
    <2>3. Keeping(c, f[t], l[t], use, c, f[t], l[t], use2, s)  BY <2>2 DEF Keeping, KeptAt
    <2>4. \A d \in K[t] : d.at = s => d = e
      <3>1. PICK S, L : Base(Y, h, K, C, S, L, t, C[t])  BY <1>13, BaseOf
      <3>2. e \in K[t] /\ e.at = s  BY <1>11, <1>12 DEF Spent, Whole
      <3>3. Apart(h, K, S, t, e)  BY <3>1, <3>2, HeldOne
      <3> QED  BY <3>2, <3>3 DEF Apart
    <2>5. \A d \in K[t] : d.at = s => PagesOf(d) \cap Y = {}
      <3>1. PagesOf(e) \cap Y = {}  BY <1>12
      <3> QED  BY <2>4, <3>1
    <2> QED  BY <2>1, <2>3, <2>5, RecallsElse
  <1>15. HeapGood(Y, h, K, C, f, l, bl2) /\ Untouched(h, h, t, l, bl)
    <2>1. Recalls(Y, K[t], C[t], f[t], l[t], Blocks(l[t], bl2[t]))  BY <1>14 DEF use2, c
    <2> QED  BY <1>2, <1>10, <1>13, <2>1, SameHeap DEF c
  <1> QED  BY <1>11, <1>12, <1>15 DEF use2, c

\* hpnfree of a large block.
LEMMA FreeLargeGood ==
  ASSUME NEW X, ~RemoteFree, Good(X), NEW t \in Thread, NEW b \in Freeable(t), FreeLarge(t, b)
  PROVE  After(X, t)
  <1> DEFINE y == span_extract_header(heap, AddressIn(b))
  <1>1. /\ At(t, "idle") /\ heap.hdr[y].category = LARGE
        /\ Goto(t, [Idle EXCEPT !.pc = "giveback", !.span = y])
        /\ live' = Without(b)
        /\ UNCHANGED <<heap, foreground, threshold, owner, calls, strayed>>
    BY Zenon DEF FreeLarge
  <1>2. th[t].pc = "idle"  BY <1>1 DEF At
  <1>3. /\ Gone(live, live', t, b) /\ b \in Blocks(th[t], live[t])
        /\ live' \in [Thread -> SUBSET BlockType] /\ \A u \in Thread : IsFiniteSet(live'[u])
        /\ Free(th[t]) /\ th[t].addr = <<>>
    BY <1>1, <1>2, FreeOf
  <1>4. PICK s : s = y /\ s = b.span /\ s \in Spans  BY <1>3, FreedBlock
  <1>5. b.pos = 0
    <2>1. ~Small(heap, b.span)  BY <1>1, <1>4 DEF Small
    <2> QED  BY <1>3, <2>1, FreedBlock
  <1>6. PICK r : r = [Idle EXCEPT !.pc = "giveback", !.span = s] /\ Goto(t, r)
    BY <1>1, <1>4, Zenon
  <1> HIDE DEF y
  <1>7. /\ r \in CallType /\ r.pc = "giveback" /\ r.span = s /\ r.class = -1 /\ r.addr = <<>>
    <2>1. Idle \in CallType /\ Idle.class = -1 /\ Idle.addr = <<>>  BY IdleType DEF Idle
    <2>2. "giveback" \in PCs  BY DEF PCs
    <2>3. s \in Spans /\ r = [Idle EXCEPT !.pc = "giveback", !.span = s]  BY <1>4, <1>6
    <2> QED  BY ONLY <2>1, <2>2, <2>3 DEF CallType
  <1>8. th \in [Thread -> CallType] /\ LocksGood /\ StateType  BY CallOf DEF Good
  <1>9. th' \in [Thread -> CallType] /\ th'[t] = r /\ Only(t, th, th')
    BY <1>6, <1>7, <1>8, GotoEffect
  <1>10. PICK K, C : HeapGood(X, heap, K, C, foreground, th, live)  BY DEF Good
  <1>11. /\ HeapGood(X \ PagesOf(Whole(heap, s)), heap, K, C, foreground, th, live')
         /\ Untouched(heap, heap, t, th, live)
         /\ Spent(heap, K[t], C[t], foreground[t], Blocks(th[t], live'[t]), s)
    BY <1>3, <1>4, <1>5, <1>10, LargeLess
  <1>12. HeapGood(X, heap, K, C, foreground, th', live')
    <2>1. HandsBack(th[t], th'[t], s)  BY <1>3, <1>7, <1>9 DEF HandsBack
    <2> QED  BY <1>3, <1>9, <1>11, <2>1, HandBackHeap
  <1>13. /\ heap' = heap /\ foreground' = foreground /\ threshold' = threshold /\ owner' = owner
         /\ calls' = calls /\ strayed' = strayed
    BY <1>1
  <1>14. LocksGood'
    <2>1. th'[t].pc \notin {"fill", "accounting", "giving"}  BY <1>7, <1>9
    <2>2. UNCHANGED owner  BY <1>13
    <2> QED  BY <1>8, <1>9, <2>1, <2>2, LocksKept
  <1>15. StateType'  BY <1>3, <1>8, <1>9, <1>13 DEF StateType
  <1>16. HeapGood(X, heap', K, C, foreground', th', live') /\ Untouched(heap, heap', t, th, live)
    BY <1>11, <1>12, <1>13
  <1> QED  BY <1>14, <1>15, <1>16, AfterOf

-----------------------------------------------------------------------------
\* A thread can do without a piece that nothing of it refers to.
LEMMA FewerPieces ==
  ASSUME NEW h, NEW t, NEW k, NEW c, NEW f, NEW l, NEW bl, ThreadGood(h, t, k, c, f, l, bl),
         Free(l), NEW e \in k, Clear(c, f, Blocks(l, bl), e.at)
  PROVE  ThreadGood(h, t, k \ {e}, c, f, l, bl)
  <1> DEFINE use == Blocks(l, bl)
             m   == k \ {e}
  <1>1. /\ ListsGood(h, t, k, c) /\ ForegroundGood(h, k, c, f) /\ ReachedGood(h, c, f, l, use)
        /\ BlocksGood(h, k, use) /\ SpareGood(c, use) /\ CallGood(h, k, c, f, l, bl)
    BY DEF ThreadGood
  <1>2. /\ ~OnCache(c, e.at)
        /\ \A i \in Class : f[i] # e.at
        /\ \A b \in use : b.span # e.at
    BY DEF Clear, Off, Mates
  <1> HIDE DEF use
  <1>3. \A s : One(s) \in k /\ s # e.at => One(s) \in m
    <2>1. \A s : One(s).at = s  BY DEF One
    <2> QED  BY <2>1
  <1>4. \A s, n : [at |-> s, pages |-> n] \in k /\ s # e.at => [at |-> s, pages |-> n] \in m
    <2>1. \A s, n : [at |-> s, pages |-> n].at = s  OBVIOUS
    <2> QED  BY <2>1
  <1> HIDE DEF m
  <1>5. ListsGood(h, t, m, c)  BY <1>1, <1>2, <1>3 DEF ListsGood, OnCache
  <1>6. ForegroundGood(h, m, c, f)
    <2>1. \A i \in Class : f[i] # e.at  BY <1>2
    <2> QED  BY <1>1, <1>3, <2>1 DEF ForegroundGood
  <1>7. BlocksGood(h, m, use)
    <2>1. ASSUME NEW b \in use  PROVE IF b.pos = 0 THEN LargeGood(h, m, b) ELSE SmallGood(h, m, use, b)
      <3>1. b.span # e.at  BY <1>2
      <3>2. IF b.pos = 0 THEN LargeGood(h, k, b) ELSE SmallGood(h, k, use, b)
        BY <1>1 DEF BlocksGood
      <3> QED  BY <1>3, <1>4, <3>1, <3>2 DEF LargeGood, SmallGood
    <2> QED  BY <2>1 DEF BlocksGood
  <1>8. CallGood(h, m, c, f, l, bl)  BY <1>1 DEF CallGood, Free
  <1> QED  BY <1>1, <1>5, <1>6, <1>7, <1>8 DEF ThreadGood, use, m

\* Call l, which gives its span back, ends as m.
Ends(l, m) == l.pc \in GivingUp /\ m.pc = "idle" /\ m.addr = <<>>

\* span_back_to_centralpool.
LEMMA BackHeap ==
  ASSUME NEW X, NEW h, NEW K, NEW C, NEW f, NEW l, NEW bl, HeapGood(X, h, K, C, f, l, bl),
         NEW t \in Thread, NEW s, s = l[t].span, NEW g, g = span_back_to_centralpool(h, s),
         NEW l2, Only(t, l, l2), Ends(l[t], l2[t])
  PROVE  Ordered(X, g, f, l2, bl) /\ Untouched(h, g, t, l, bl)
  <1> DEFINE H   == Held(K)
             use == Blocks(l[t], bl[t])
             n   == IF h.hdr[s].category # LARGE THEN 1 ELSE h.hdr[s].page_num
  <1>1. PICK S, L : Pool(Lowest, h, S, H, L) /\ InReach(X, h, L)  BY DEF HeapGood
  <1>2. /\ K \in [Thread -> SUBSET Piece] /\ C \in [Thread -> Caches] /\ HeadersGood(h)
        /\ \A u, v \in Thread : u # v => K[u] \cap K[v] = {}
        /\ \A u \in Thread : ThreadGood(h, u, K[u], C[u], f[u], l[u], bl[u])
    BY DEF HeapGood
  <1>3. \A u \in Thread : K[u] \subseteq H  BY DEF Held
  <1>4. /\ l[t].addr = <<>> /\ Mates(use, s) = {} /\ ~OnCache(C[t], s)
        /\ \A i \in Class : f[t][i] # s
    BY <1>2 DEF ThreadGood, CallGood, GivenUpGood, Ends, Answering, GivingUp
  <1>5. [at |-> s, pages |-> n] \in K[t]
    <2>1. CallGood(h, K[t], C[t], f[t], l[t], bl[t])  BY <1>2 DEF ThreadGood
    <2> QED  BY <2>1 DEF CallGood, GivenUpGood, Ends
  <1> HIDE DEF H, use, n
  <1>6. PICK e \in K[t] : e = [at |-> s, pages |-> n]  BY <1>5
  <1>7. e \in H /\ e.at = s /\ e.pages = n  BY <1>3, <1>6
  <1>8. /\ \E R : Pool(Lowest, g, R, H \ {e}, L)
        /\ CameBack(Lowest, h, g, e.at, e.pages) /\ Outside(Lowest, h, g, H \ {e})
    <2>1. e.pages = IF h.hdr[e.at].category # LARGE THEN 1 ELSE h.hdr[e.at].page_num
      BY <1>7 DEF n
    <2>2. g = span_back_to_centralpool(h, e.at)  BY <1>7
    <2> QED  BY <1>1, <1>7, <2>1, <2>2, LowestNodes, ReturnPool
  <1>9. /\ h \in HeapType(Lowest) /\ s \in Spans
        /\ \A d \in H : d.at \in Spans /\ (d.at = s => d = e)
    <2>1. h \in HeapType(Lowest)  BY <1>1 DEF Pool
    <2>2. \A d \in H : d.at \in Spans /\ (d.at = e.at => d = e)  BY <1>1, <1>7, HeldPiece
    <2> QED  BY <1>7, <2>1, <2>2
  <1>10. /\ \A x \in Spans : x # s => g.hdr[x] = h.hdr[x]
         /\ g.entry = h.entry /\ g.hdr[s] = Returned(h.hdr[s])
    <2>1. g.hdr = [h.hdr EXCEPT ![s] = Returned(@)] /\ g.entry = h.entry
      BY <1>7, <1>8 DEF CameBack
    <2>2. h.hdr \in [Spans -> HeaderType]  BY SMTT(30), <1>9 DEF HeapType
    <2> QED  BY SMTT(30), <1>9, <2>1, <2>2
  <1>11. HeadersGood(g)
    <2>1. h.hdr[s] \in HeaderType  BY <1>9 DEF HeapType
    <2>2. /\ g.hdr[s].category = h.hdr[s].category
          /\ g.hdr[s].bitmap \subseteq h.hdr[s].bitmap \cup {1}
          /\ g.hdr[s].free_block_num = h.hdr[s].free_block_num
      BY <1>10, <2>1, ReturnedHeader
    <2>3. 1 \in 1..PageUnits  BY Sizes
    <2>4. HeaderGood(h.hdr[s])  BY <1>2, <1>9 DEF HeadersGood
    <2>5. HeaderGood(g.hdr[s])  BY <2>2, <2>3, <2>4 DEF HeaderGood
    <2> QED  BY <1>2, <1>9, <1>10, <2>5 DEF HeadersGood
  <1>12. ASSUME NEW u \in Thread, NEW k \in SUBSET K[u], e \notin k,
                ThreadGood(h, u, k, C[u], f[u], l2[u], bl[u])
         PROVE  Spared(h, g, u, k, C[u])
    <2>1. ASSUME NEW d \in k
          PROVE  g.hdr[d.at] = h.hdr[d.at] /\ (h.entry[d.at - 1] = d.at => g.entry[d.at - 1] = d.at)
      <3>1. d \in H /\ d # e  BY <1>3, <1>12
      <3> QED  BY <1>9, <1>10, <3>1
    <2>2. ASSUME NEW m \in Own(u, C[u])  PROVE g.next[m] = h.next[m] /\ g.prev[m] = h.prev[m]
      <3>1. CASE \E j \in ListNo : m = HeadOf(u, j)
        <4>1. m \in Node(Lowest) /\ m \notin FreeLists \cup Spans  BY <3>1, CacheHead
        <4> QED  BY <1>8, <4>1 DEF Outside
      <3>2. CASE \E j \in ListNo : m \in C[u][j]
        <4>1. m \in Spans /\ One(m) \in k
          BY <1>2, <1>12, <3>2 DEF ThreadGood, ListsGood, Caches
        <4>2. m \in Node(Lowest)  BY <4>1, LowestNodes, NodesIn
        <4>3. One(m) \in H \ {e} /\ m = One(m).at  BY <1>3, <1>12, <4>1 DEF One
        <4> QED  BY <1>8, <4>2, <4>3 DEF Outside
      <3> QED  BY <3>1, <3>2 DEF Own
    <2> QED  BY <2>1, <2>2 DEF Spared
  <1>13. ASSUME NEW u \in Thread \ {t}  PROVE Spared(h, g, u, K[u], C[u])
    <2>1. e \notin K[u]  BY <1>2, <1>6
    <2>2. l2[u] = l[u]  BY DEF Only
    <2>3. ThreadGood(h, u, K[u], C[u], f[u], l2[u], bl[u])  BY <1>2, <2>2
    <2> QED  BY <1>12, <2>1, <2>3
  <1> DEFINE k2 == K[t] \ {e}
  <1>14. ThreadGood(h, t, k2, C[t], f[t], l2[t], bl[t])
    <2>1. PICK m : m = l2[t]  OBVIOUS
    <2>2. m.pc = "idle" /\ m.addr = <<>> /\ Blocks(m, bl[t]) = use /\ Free(m)
      BY <1>4, <2>1 DEF Ends, Blocks, Free, GivingUp, use
    <2>3. CallGood(h, K[t], C[t], f[t], m, bl[t])
      BY <2>2 DEF CallGood, Searching, Answering, GivingUp
    <2>4. ThreadGood(h, t, K[t], C[t], f[t], m, bl[t])
      <3>1. ThreadGood(h, t, K[t], C[t], f[t], l[t], bl[t]) /\ m.pc # "clock"  BY <1>2, <2>2
      <3>2. Blocks(m, bl[t]) = Blocks(l[t], bl[t])  BY <2>2 DEF use
      <3> QED  BY <2>3, <3>1, <3>2, MovesOn
    <2>5. Clear(C[t], f[t], Blocks(m, bl[t]), e.at)
      BY <1>4, <1>7, <2>2 DEF Clear, Off
    <2>6. ThreadGood(h, t, K[t] \ {e}, C[t], f[t], m, bl[t])  BY <2>2, <2>4, <2>5, FewerPieces
    <2> QED  BY <2>1, <2>6
  <1>15. ThreadGood(g, t, k2, C[t], f[t], l2[t], bl[t])
    <2>1. k2 \in SUBSET K[t] /\ e \notin k2  OBVIOUS
    <2>2. Spared(h, g, t, k2, C[t])  BY <1>12, <1>14, <2>1
    <2> QED  BY <1>14, <2>2, SparedThread
  <1>16. k2 \in SUBSET Piece /\ \A u \in Thread \ {t} : k2 \cap K[u] = {}  BY <1>2
  <1>17. \E R, M : Pool(Lowest, g, R, k2 \cup Elses(K, t), M) /\ InReach(X, g, M)
    <2>1. H = K[t] \cup Elses(K, t)  BY <1>2, HeldWith DEF H
    <2>2. e \notin Elses(K, t)  BY <1>2, <1>6 DEF Elses
    <2>3. H \ {e} = k2 \cup Elses(K, t)  BY <2>1, <2>2
    <2>4. InReach(X, g, L)  BY <1>1, <1>8 DEF InReach, CameBack
    <2> QED  BY <1>8, <2>3, <2>4
  <1>18. Recalls(X, k2, C[t], f[t], l2[t], Blocks(l2[t], bl[t]))
    <2>1. Recalls(X, K[t], C[t], f[t], l[t], use)  BY DEF HeapGood, use
    <2>2. Recalls(X, k2, C[t], f[t], l[t], use)  BY <2>1 DEF Recalls
    <2>3. PICK m : m = l2[t] /\ m.pc = "idle" /\ m.addr = <<>>  BY DEF Ends
    <2>4. Blocks(m, bl[t]) = use /\ l[t].pc \in GivingUp  BY <1>4, <2>3 DEF Ends, Blocks, use
    <2>5. Keeping(C[t], f[t], l[t], use, C[t], f[t], m, use, s)
      BY <2>3, <2>4 DEF Keeping, KeptAt, GivingUp
    <2>6. \A d \in k2 : d.at # s  BY <1>3, <1>9
    <2>7. Recalls(X, k2, C[t], f[t], m, use)  BY <2>2, <2>5, <2>6, RecallsElse
    <2> QED  BY <2>3, <2>4, <2>7
  <1>19. C[t] \in Caches /\ Only(t, f, f) /\ Only(t, bl, bl)  BY <1>2 DEF Only
  <1> HIDE DEF k2
  <1>20. /\ HeapGood(X, g, [K EXCEPT ![t] = k2], [C EXCEPT ![t] = C[t]], f, l2, bl)
         /\ Untouched(h, g, t, l, bl)
    BY <1>11, <1>13, <1>15, <1>16, <1>17, <1>19, <1>18, OneThread
  <1> QED  BY <1>20 DEF Ordered

\* span_back_to_centralpool: what the thread held is the pool's again, merged
\* with its neighbours, and no other thread's piece is among them.
LEMMA GiveBackGood ==
  ASSUME NEW X, Good(X), NEW t \in Thread, GiveBack(t)
  PROVE  After(X, t)
  <1>1. /\ th[t].pc = "giving" /\ owner' = Unlock(AreaOf(th[t].span))
        /\ heap' = span_back_to_centralpool(heap, th[t].span)
        /\ Goto(t, IF Large(t) THEN Idle ELSE [th[t] EXCEPT !.pc = "acquire", !.span = NULL])
        /\ UNCHANGED <<foreground, threshold, live, calls, strayed>>
    BY DEF GiveBack, At
  <1>2. /\ th[t] \in CallType /\ th \in [Thread -> CallType] /\ LocksGood /\ StateType
    BY CallOf DEF Good
  <1>3. PICK k, c : k \in SUBSET Piece /\ CallGood(heap, k, c, foreground[t], th[t], live[t])
    BY CallOf
  <1>4. Goto(t, Idle)
    <2>1. th[t].class = -1  BY <1>1, <1>3 DEF CallGood, GivingUp, GivenUpGood
    <2> QED  BY <1>1, <2>1 DEF Large
  <1>5. /\ Idle.pc = "idle" /\ Idle.class = -1 /\ Idle.addr = <<>> /\ Idle \in CallType
    BY IdleType DEF Idle
  <1>6. th' \in [Thread -> CallType] /\ th'[t] = Idle /\ Only(t, th, th')
    BY <1>2, <1>4, <1>5, GotoEffect
  <1>7. LocksGood'
    <2>1. PICK a : a = AreaOf(th[t].span)  OBVIOUS
    <2>2. a \in Area /\ owner[a] = t  BY <1>1, <1>2, <2>1 DEF LocksGood, Holds
    <2>3. owner' = Unlock(a) /\ th'[t].pc \notin {"fill", "accounting", "giving"}
      BY <1>1, <1>5, <1>6, <2>1
    <2> QED  BY <1>2, <1>6, <2>2, <2>3, LocksFreed
  <1>8. Ordered(X, heap', foreground, th', live) /\ Untouched(heap, heap', t, th, live)
    <2>1. PICK K, C : HeapGood(X, heap, K, C, foreground, th, live)  BY DEF Good
    <2>2. PICK s : s = th[t].span  OBVIOUS
    <2>3. heap' = span_back_to_centralpool(heap, s)  BY <1>1, <2>2
    <2>4. Ends(th[t], th'[t])  BY <1>1, <1>5, <1>6 DEF Ends, GivingUp
    <2> QED  BY <1>6, <2>1, <2>2, <2>3, <2>4, BackHeap
  <1>9. /\ foreground' = foreground /\ threshold' = threshold /\ live' = live
        /\ calls' = calls /\ strayed' = strayed
    BY <1>1
  <1>10. PICK K, C : HeapGood(X, heap', K, C, foreground', th', live')  BY <1>8, <1>9 DEF Ordered
  <1>11. StateType'  BY <1>2, <1>6, <1>9 DEF StateType
  <1> QED  BY <1>7, <1>8, <1>10, <1>11, AfterOf

-----------------------------------------------------------------------------
\* At the start every list of a cache is empty, and no thread holds a page.
LEMMA InitGood == Init => Good({})
  <1> SUFFICES ASSUME Init  PROVE Good({})  OBVIOUS
  <1> DEFINE K == [t \in Thread |-> {}]
             C == [t \in Thread |-> [j \in ListNo |-> {}]]
             h == HeapInit(Lowest)
  <1>1. /\ heap = h /\ foreground = [t \in Thread |-> [c \in Class |-> NULL]]
        /\ threshold = [t \in Thread |-> 0] /\ owner = [a \in Area |-> NoOne]
        /\ th = [t \in Thread |-> Idle] /\ live = [t \in Thread |-> {}]
        /\ calls = [t \in Thread |-> 0] /\ strayed = FALSE
    BY DEF Init, Lowest
  <1>2. /\ Idle \in CallType /\ Idle.pc = "idle" /\ Idle.addr = <<>> /\ Idle.class = -1
        /\ Idle.span = NULL
    BY IdleType DEF Idle
  <1>3. Pool(Lowest, h, NoneShelved, {}, {})  BY LowestNodes, InitPool
  <1>4. Held(K) = {}  BY DEF Held
  <1>5. HeadersGood(h)
    <2>1. ASSUME NEW s \in Spans
          PROVE  h.hdr[s].category = 0 /\ h.hdr[s].bitmap = {} /\ h.hdr[s].free_block_num = 0
      BY DEF HeapInit
    <2>2. 0 \in 0..PageUnits  BY Sizes
    <2> QED  BY <2>1, <2>2 DEF HeadersGood, HeaderGood
  <1>6. ASSUME NEW t \in Thread, NEW j \in ListNo  PROVE Ring(h, HeadOf(t, j), {})
    <2>1. PICK p : p = HeadOf(t, j)  OBVIOUS
    <2>2. p \in Node(Lowest) /\ p < 0
      <3>1. HeadOf(t, j) \in Heads /\ HeadOf(t, j) \in Node(Lowest)  BY CacheHead
      <3>2. AREA_NUM * LARGE_BLOCK_NUM \in Nat  BY Sizes
      <3> QED  BY <2>1, <3>1, <3>2, LowestNodes DEF Heads, Lowest
    <2>3. h.next[p] = p /\ h.prev[p] = p  BY <2>2 DEF HeapInit, Node
    <2>4. \A T \in SUBSET ({} \cup {p}) : p \in T => T = {} \cup {p}  OBVIOUS
    <2>5. Ring(h, p, {})  BY <2>3, <2>4 DEF Ring, Linked
    <2> QED  BY <2>1, <2>5
  <1> HIDE DEF h
  <1>7. ASSUME NEW t \in Thread  PROVE ThreadGood(heap, t, K[t], C[t], foreground[t], th[t], live[t])
    <2>1. /\ th[t] = Idle /\ live[t] = {} /\ K[t] = {} /\ heap = h
          /\ \A j \in ListNo : C[t][j] = {}
          /\ \A i \in Class : foreground[t][i] = NULL
      BY <1>1
    <2>2. Blocks(Idle, {}) = {}  BY <1>2 DEF Blocks
    <2>3. /\ \A j \in ListNo : Ring(heap, HeadOf(t, j), C[t][j])
          /\ \A i \in 0..PageUnits - 1 : C[t][BackNo(i)] = {} /\ C[t][NotNo(i)] = {}
          /\ C[t][0] = {}
      <3>1. \A j \in ListNo : Ring(heap, HeadOf(t, j), C[t][j])  BY <1>6, <2>1
      <3> QED  BY <2>1, <3>1, ListNumbers
    <2>4. PICK k, c, f : k = K[t] /\ c = C[t] /\ f = foreground[t]  OBVIOUS
    <2> HIDE DEF K, C
    <2>5. ListsGood(heap, t, k, c)  BY <2>1, <2>3, <2>4 DEF ListsGood
    <2>6. ForegroundGood(heap, k, c, f)  BY <2>1, <2>4 DEF ForegroundGood
    <2>7. \A s : ~Reached(c, f, Idle, s)  BY <1>2, <2>1, <2>4 DEF Reached
    <2>8. ReachedGood(heap, c, f, Idle, {})  BY <2>7 DEF ReachedGood
    <2>9. BlocksGood(heap, k, {}) /\ SpareGood(c, {})  BY <2>3, <2>4 DEF BlocksGood, SpareGood
    <2>10. CallGood(heap, k, c, f, Idle, {})
      BY <1>2 DEF CallGood, Searching, Answering, GivingUp
    <2>11. ThreadGood(heap, t, k, c, f, Idle, {})
      BY <2>2, <2>5, <2>6, <2>8, <2>9, <2>10 DEF ThreadGood
    <2> QED  BY <2>1, <2>4, <2>11
  <1>8. /\ K \in [Thread -> SUBSET Piece] /\ C \in [Thread -> Caches]
        /\ \A t, u \in Thread : t # u => K[t] \cap K[u] = {}
    BY DEF Caches
  <1> HIDE DEF K, C
  <1>9. HeapGood({}, heap, K, C, foreground, th, live)
    <2>1. \E S, L : Pool(Lowest, heap, S, Held(K), L)  BY <1>1, <1>3, <1>4
    <2>2. \E S, L : Pool(Lowest, heap, S, Held(K), L) /\ InReach({}, heap, L)
      BY <2>1 DEF InReach
    <2>3. HeadersGood(heap)  BY <1>1, <1>5
    <2>4. \A t \in Thread : Recalls({}, K[t], C[t], foreground[t], th[t], Blocks(th[t], live[t]))
      BY DEF Recalls
    <2> QED  BY <1>7, <1>8, <2>2, <2>3, <2>4 DEF HeapGood
  <1>10. LocksGood
    <2>1. \A t \in Thread : Holds(th[t], owner, t)
      BY <1>1, <1>2 DEF Holds
    <2> QED  BY <1>1, <2>1 DEF LocksGood
  <1>11. StateType
    <2>1. /\ foreground \in [Thread -> [Class -> Spans \cup {NULL}]]
          /\ th \in [Thread -> CallType] /\ live \in [Thread -> SUBSET BlockType]
          /\ strayed \in BOOLEAN
      BY <1>1, <1>2
    <2>2. calls \in [Thread -> 0..MaxCalls]  BY <1>1, CallAssumption
    <2>3. threshold \in Thresholds  BY <1>1 DEF Thresholds
    <2>4. \A t \in Thread : IsFiniteSet(live[t])  BY <1>1, FS_EmptySet
    <2> QED  BY <2>1, <2>2, <2>3, <2>4 DEF StateType
  <1> QED  BY <1>9, <1>10, <1>11 DEF Good

-----------------------------------------------------------------------------
\* The calls without a span in hand, and those that have one and have done
\* with the foreground, are in order whatever the foreground is.
LEMMA FrontedFree ==
  ASSUME NEW r, NEW f,
         \/ r.span = NULL /\ r.pc \notin {"select", "trylock", "fill", "clock"}
         \/ r.pc \in Answering \cup GivingUp
  PROVE  Fronted(r, f)
  BY DEF Fronted, Answering, GivingUp

\* A step that starts a call or frees a block leaves the foreground in order.
LEMMA FrontedCalls ==
  ASSUME StateType, NEW t \in Thread, Fronted(th[t], foreground[t]), Calls(t)
  PROVE  Fronted(th'[t], foreground'[t]) /\ Only(t, th, th') /\ Only(t, foreground, foreground')
  <1>1. /\ th \in [Thread -> CallType] /\ th[t] \in CallType
        /\ foreground \in [Thread -> [Class -> Spans \cup {NULL}]]
    BY DEF StateType
  <1>2. ASSUME NEW r, Goto(t, r)  PROVE th'[t] = r /\ Only(t, th, th')
    BY <1>1, <1>2 DEF Goto, Only
  <1>3. /\ foreground' = foreground => Only(t, foreground, foreground')
        /\ th' = th => Only(t, th, th')
    BY DEF Only
  <1>4. CASE \E c \in Class : CallSmall(t, c)
    <2>1. PICK c \in Class : CallSmall(t, c)  BY <1>4
    <2>2. /\ Goto(t, [Idle EXCEPT !.pc = "acquire", !.class = c, !.nvm_index = AREA_NUM])
          /\ foreground' = foreground
      BY <2>1, Zenon DEF CallSmall
    <2>3. th'[t].span = NULL /\ th'[t].pc = "acquire"
      <3>1. th'[t] = [Idle EXCEPT !.pc = "acquire", !.class = c, !.nvm_index = AREA_NUM]
        BY <1>2, <2>2
      <3> QED  BY ONLY <3>1 DEF Idle
    <2> QED  BY <1>2, <1>3, <2>2, <2>3, FrontedFree
  <1>5. CASE \E n \in LargeSize : CallLarge(t, n)
    <2>1. PICK n \in LargeSize : CallLarge(t, n)  BY <1>5
    <2>2. /\ Goto(t, [Idle EXCEPT !.pc = "select", !.pages = n, !.nvm_index = AREA_NUM])
          /\ foreground' = foreground
      BY <2>1, Zenon DEF CallLarge
    <2>3. th'[t].span = NULL /\ th'[t].pc = "select" /\ th'[t].class = -1
      <3>1. th'[t] = [Idle EXCEPT !.pc = "select", !.pages = n, !.nvm_index = AREA_NUM]
        BY <1>2, <2>2
      <3> QED  BY ONLY <3>1 DEF Idle
    <2> QED  BY <1>2, <1>3, <2>2, <2>3 DEF Fronted
  <1>6. CASE \E b \in Freeable(t) : FreeSome(t, b)
    <2>1. foreground' = foreground /\ th' = th  BY <1>6, Zenon DEF FreeSome
    <2> QED  BY <1>3, <2>1
  <1>7. CASE \E b \in Freeable(t) : FreeLast(t, b)
    <2>1. /\ At(t, "idle")
          /\ th' = th \/ \E s : Goto(t, [Idle EXCEPT !.pc = "giveback", !.span = s])
          /\ \E i, s : foreground' = [foreground EXCEPT ![t][i] = IF @ = s THEN NULL ELSE @]
      BY <1>7, Zenon DEF FreeLast
    <2>2. Only(t, foreground, foreground')  BY <1>1, <2>1 DEF Only
    <2>3. CASE th' = th
      <3>1. th[t].pc = "idle"  BY <2>1 DEF At
      <3>2. th[t].span = NULL  BY <3>1 DEF Fronted, Answering, GivingUp
      <3> QED  BY <1>3, <2>2, <2>3, <3>1, <3>2, FrontedFree
    <2>4. CASE \E s : Goto(t, [Idle EXCEPT !.pc = "giveback", !.span = s])
      <3>1. PICK s : Goto(t, [Idle EXCEPT !.pc = "giveback", !.span = s])  BY <2>4
      <3>2. th'[t].pc = "giveback"
        <4>1. th'[t] = [Idle EXCEPT !.pc = "giveback", !.span = s]  BY <1>2, <3>1
        <4> QED  BY ONLY <4>1 DEF Idle
      <3>3. "giveback" \in GivingUp  BY DEF GivingUp
      <3> QED  BY <1>2, <2>2, <3>1, <3>2, <3>3, FrontedFree
    <2> QED  BY <2>1, <2>3, <2>4
  <1>8. CASE \E b \in Freeable(t) : FreeLarge(t, b)
    <2>1. /\ \E s : Goto(t, [Idle EXCEPT !.pc = "giveback", !.span = s])
          /\ foreground' = foreground
      BY <1>8, Zenon DEF FreeLarge
    <2>2. PICK s : Goto(t, [Idle EXCEPT !.pc = "giveback", !.span = s])  BY <2>1
    <2>3. th'[t].pc = "giveback"
      <3>1. th'[t] = [Idle EXCEPT !.pc = "giveback", !.span = s]  BY <1>2, <2>2
      <3> QED  BY ONLY <3>1 DEF Idle
    <2>4. "giveback" \in GivingUp  BY DEF GivingUp
    <2> QED  BY <1>2, <1>3, <2>1, <2>2, <2>3, <2>4, FrontedFree
  <1> QED  BY <1>4, <1>5, <1>6, <1>7, <1>8 DEF Calls

\* So does a step of a call under way, and the end of a thread.
LEMMA FrontedProgress ==
  ASSUME StateType, NEW t \in Thread, Fronted(th[t], foreground[t]), Progress(t) \/ Exit(t)
  PROVE  Fronted(th'[t], foreground'[t]) /\ Only(t, th, th') /\ Only(t, foreground, foreground')
  <1>1. /\ th \in [Thread -> CallType] /\ th[t] \in CallType
        /\ foreground \in [Thread -> [Class -> Spans \cup {NULL}]]
    BY DEF StateType
  <1>2. ASSUME NEW r, Goto(t, r)  PROVE th'[t] = r /\ Only(t, th, th')
    BY <1>1, <1>2 DEF Goto, Only
  <1>3. foreground' = foreground => Only(t, foreground, foreground')
    BY DEF Only
  <1>4. "account" \in Answering /\ "accounting" \in Answering
        /\ "giveback" \in GivingUp /\ "giving" \in GivingUp
    BY DEF Answering, GivingUp
  <1>5. CASE AcquireLocal(t)
    <2> DEFINE c == th[t].class
               f == foreground[t][c]
               Found(s) == Goto(t, [th[t] EXCEPT !.pc = "clock", !.span = s])
    <2>1. /\ At(t, "acquire") /\ foreground' = foreground
          /\ \/ Found(f)
             \/ f = NULL /\ \E s : Found(s)
             \/ f = NULL /\ Goto(t, [th[t] EXCEPT !.pc = "select"])
      BY <1>5, Zenon DEF AcquireLocal
    <2>2. th[t].pc = "acquire"  BY <2>1 DEF At
    <2>3. th[t].span = NULL  BY <2>2 DEF Fronted, Answering, GivingUp
    <2>4. ASSUME NEW s, f = NULL \/ f = s, Found(s)
          PROVE  Fronted(th'[t], foreground'[t]) /\ Only(t, th, th')
      <3>1. th'[t] = [th[t] EXCEPT !.pc = "clock", !.span = s] /\ Only(t, th, th')
        BY <1>2, <2>4
      <3>2. th'[t].pc = "clock" /\ th'[t].span = s /\ th'[t].class = c
        BY <1>1, <3>1 DEF CallType
      <3> QED  BY <2>1, <2>4, <3>1, <3>2 DEF Fronted
    <2>5. CASE f = NULL /\ Goto(t, [th[t] EXCEPT !.pc = "select"])
      <3>1. th'[t] = [th[t] EXCEPT !.pc = "select"] /\ Only(t, th, th')  BY <1>2, <2>5
      <3>2. th'[t].pc = "select" /\ th'[t].span = NULL /\ th'[t].class = c
        BY <1>1, <2>3, <3>1 DEF CallType
      <3> QED  BY <1>3, <2>1, <2>5, <3>1, <3>2 DEF Fronted
    <2> HIDE DEF Found, f
    <2>6. CASE \E s : (f = NULL \/ f = s) /\ Found(s)  BY <1>3, <2>1, <2>4, <2>6
    <2> QED  BY <2>1, <2>5, <2>6
  <1>6. ASSUME Select(t) \/ TryLock(t)
        PROVE  Fronted(th'[t], foreground'[t]) /\ Only(t, th, th') /\ Only(t, foreground, foreground')
    <2>1. /\ At(t, "select") \/ At(t, "trylock")
          /\ foreground' = foreground
          /\ \/ \E o : Goto(t, [th[t] EXCEPT !.pc = "trylock", !.order = o])
             \/ Goto(t, [th[t] EXCEPT !.pc = "fill"])
             \/ Goto(t, [th[t] EXCEPT !.nvm_index = IF @ = 1 THEN AREA_NUM ELSE @ - 1])
      <3>1. CASE Select(t)  BY <3>1, Zenon DEF Select
      <3>2. CASE TryLock(t)  BY <3>2, Zenon DEF TryLock
      <3> QED  BY <1>6, <3>1, <3>2
    <2>2. th[t].pc \in {"select", "trylock"}  BY <2>1 DEF At
    <2>3. th[t].span = NULL  BY <2>2 DEF Fronted, Answering, GivingUp
    <2>4. /\ th'[t].class = th[t].class /\ th'[t].span = th[t].span
          /\ th'[t].pc \in {"select", "trylock", "fill"} /\ Only(t, th, th')
      <3>1. CASE \E o : Goto(t, [th[t] EXCEPT !.pc = "trylock", !.order = o])
        <4>1. PICK o : Goto(t, [th[t] EXCEPT !.pc = "trylock", !.order = o])  BY <3>1
        <4>2. th'[t] = [th[t] EXCEPT !.pc = "trylock", !.order = o] /\ Only(t, th, th')
          BY <1>2, <4>1
        <4> QED  BY <1>1, <4>2 DEF CallType
      <3>2. CASE Goto(t, [th[t] EXCEPT !.pc = "fill"])
        <4>1. th'[t] = [th[t] EXCEPT !.pc = "fill"] /\ Only(t, th, th')  BY <1>2, <3>2
        <4> QED  BY <1>1, <4>1 DEF CallType
      <3>3. CASE Goto(t, [th[t] EXCEPT !.nvm_index = IF @ = 1 THEN AREA_NUM ELSE @ - 1])
        <4>1. /\ th'[t] = [th[t] EXCEPT !.nvm_index = IF @ = 1 THEN AREA_NUM ELSE @ - 1]
              /\ Only(t, th, th')
          BY <1>2, <3>3
        <4> QED  BY <1>1, <2>2, <4>1 DEF CallType
      <3> QED  BY <2>1, <3>1, <3>2, <3>3
    <2> QED  BY <1>3, <2>1, <2>2, <2>3, <2>4 DEF Fronted
  <1>7. CASE FillSmall(t)
    <2>1. /\ At(t, "fill") /\ ~Large(t) /\ foreground' = foreground
          /\ \E s : Goto(t, [th[t] EXCEPT !.pc = "clock", !.span = s])
      BY <1>7, Zenon DEF FillSmall
    <2>2. PICK s : Goto(t, [th[t] EXCEPT !.pc = "clock", !.span = s])  BY <2>1
    <2>3. th'[t] = [th[t] EXCEPT !.pc = "clock", !.span = s] /\ Only(t, th, th')  BY <1>2, <2>2
    <2>4. th'[t].pc = "clock" /\ th'[t].class = th[t].class  BY <1>1, <2>3 DEF CallType
    <2>5. foreground[t][th[t].class] = NULL  BY <2>1 DEF At, Large, Fronted
    <2> QED  BY <1>3, <2>1, <2>3, <2>4, <2>5 DEF Fronted
  <1>8. ASSUME FillLarge(t) \/ LockAccount(t) \/ LockGiveBack(t)
        PROVE  Fronted(th'[t], foreground'[t]) /\ Only(t, th, th') /\ Only(t, foreground, foreground')
    <2>1. /\ foreground' = foreground
          /\ \/ \E s, b : Goto(t, [th[t] EXCEPT !.pc = "account", !.span = s, !.addr = b])
             \/ Goto(t, [th[t] EXCEPT !.pc = "accounting"])
             \/ Goto(t, [th[t] EXCEPT !.pc = "giving"])
      <3>1. CASE FillLarge(t)  BY <3>1, Zenon DEF FillLarge
      <3>2. CASE LockAccount(t)  BY <3>2, Zenon DEF LockAccount
      <3>3. CASE LockGiveBack(t)  BY <3>3, Zenon DEF LockGiveBack
      <3> QED  BY <1>8, <3>1, <3>2, <3>3
    <2>2. th'[t].pc \in Answering \cup GivingUp /\ Only(t, th, th')
      <3>1. CASE \E s, b : Goto(t, [th[t] EXCEPT !.pc = "account", !.span = s, !.addr = b])
        <4>1. PICK s, b : Goto(t, [th[t] EXCEPT !.pc = "account", !.span = s, !.addr = b])
          BY <3>1
        <4>2. /\ th'[t] = [th[t] EXCEPT !.pc = "account", !.span = s, !.addr = b]
              /\ Only(t, th, th')
          BY <1>2, <4>1
        <4> QED  BY <1>1, <1>4, <4>2 DEF CallType
      <3>2. CASE Goto(t, [th[t] EXCEPT !.pc = "accounting"])
        <4>1. th'[t] = [th[t] EXCEPT !.pc = "accounting"] /\ Only(t, th, th')  BY <1>2, <3>2
        <4> QED  BY <1>1, <1>4, <4>1 DEF CallType
      <3>3. CASE Goto(t, [th[t] EXCEPT !.pc = "giving"])
        <4>1. th'[t] = [th[t] EXCEPT !.pc = "giving"] /\ Only(t, th, th')  BY <1>2, <3>3
        <4> QED  BY <1>1, <1>4, <4>1 DEF CallType
      <3> QED  BY <2>1, <3>1, <3>2, <3>3
    <2> QED  BY <1>3, <2>1, <2>2, FrontedFree
  <1>9. CASE Clock(t)
    <2>1. /\ \E b : Goto(t, [th[t] EXCEPT !.pc = "account", !.addr = b])
          /\ \E i, s : foreground' = [foreground EXCEPT ![t][i] = s]
      BY <1>9, Zenon DEF Clock
    <2>2. Only(t, foreground, foreground')  BY <1>1, <2>1 DEF Only
    <2>3. PICK b : Goto(t, [th[t] EXCEPT !.pc = "account", !.addr = b])  BY <2>1
    <2>4. th'[t] = [th[t] EXCEPT !.pc = "account", !.addr = b] /\ Only(t, th, th')
      BY <1>2, <2>3
    <2>5. th'[t].pc = "account"  BY <1>1, <2>4 DEF CallType
    <2> QED  BY <1>4, <2>2, <2>4, <2>5, FrontedFree
  <1>10. CASE ClockRefuses(t)
    <2>1. /\ \/ Goto(t, [th[t] EXCEPT !.pc = "giveback"])
             \/ Goto(t, [th[t] EXCEPT !.pc = "acquire", !.span = NULL])
          /\ \E i, j : foreground' = [foreground EXCEPT ![t][i] = NULL, ![t][j] = NULL]
      BY <1>10, Zenon DEF ClockRefuses
    <2>2. Only(t, foreground, foreground')  BY <1>1, <2>1 DEF Only
    <2>3. CASE Goto(t, [th[t] EXCEPT !.pc = "giveback"])
      <3>1. th'[t] = [th[t] EXCEPT !.pc = "giveback"] /\ Only(t, th, th')  BY <1>2, <2>3
      <3>2. th'[t].pc = "giveback"  BY <1>1, <3>1 DEF CallType
      <3> QED  BY <1>4, <2>2, <3>1, <3>2, FrontedFree
    <2>4. CASE Goto(t, [th[t] EXCEPT !.pc = "acquire", !.span = NULL])
      <3>1. th'[t] = [th[t] EXCEPT !.pc = "acquire", !.span = NULL] /\ Only(t, th, th')
        BY <1>2, <2>4
      <3>2. th'[t].pc = "acquire" /\ th'[t].span = NULL  BY <1>1, <3>1 DEF CallType
      <3> QED  BY <2>2, <3>1, <3>2, FrontedFree
    <2> QED  BY <2>1, <2>3, <2>4
  <1>11. CASE Return(t)
    <2>1. Goto(t, Idle) /\ foreground' = foreground  BY <1>11, Zenon DEF Return
    <2>2. Idle.span = NULL /\ Idle.pc = "idle"  BY DEF Idle
    <2> QED  BY <1>2, <1>3, <2>1, <2>2, FrontedFree
  <1>12. CASE GiveBack(t)
    <2>1. /\ foreground' = foreground
          /\ Goto(t, IF Large(t) THEN Idle ELSE [th[t] EXCEPT !.pc = "acquire", !.span = NULL])
      BY <1>12, Zenon DEF GiveBack
    <2>2. CASE Goto(t, Idle)
      <3>1. Idle.span = NULL /\ Idle.pc = "idle"  BY DEF Idle
      <3> QED  BY <1>2, <1>3, <2>1, <2>2, <3>1, FrontedFree
    <2>3. CASE Goto(t, [th[t] EXCEPT !.pc = "acquire", !.span = NULL])
      <3>1. th'[t] = [th[t] EXCEPT !.pc = "acquire", !.span = NULL] /\ Only(t, th, th')
        BY <1>2, <2>3
      <3>2. th'[t].pc = "acquire" /\ th'[t].span = NULL  BY <1>1, <3>1 DEF CallType
      <3> QED  BY <1>3, <2>1, <3>1, <3>2, FrontedFree
    <2> QED  BY <2>1, <2>2, <2>3
  <1>13. CASE Exit(t)
    <2>1. Goto(t, [Idle EXCEPT !.pc = "gone"]) /\ foreground' = foreground
      BY <1>13, Zenon DEF Exit
    <2>2. th'[t].pc = "gone" /\ th'[t].span = NULL  BY <1>2, <2>1 DEF Idle
    <2> QED  BY <1>2, <1>3, <2>1, <2>2, FrontedFree
  <1> QED
    BY <1>5, <1>6, <1>7, <1>8, <1>9, <1>10, <1>11, <1>12, <1>13 DEF Progress

\* Every step keeps the calls and the foregrounds in order, ...
LEMMA FrontsKept ==
  ASSUME StateType, FrontsGood, NEW t \in Thread, Calls(t) \/ Progress(t) \/ Exit(t)
  PROVE  FrontsGood'
  <1>1. Fronted(th[t], foreground[t])  BY DEF FrontsGood
  <1>2. /\ Fronted(th'[t], foreground'[t])
        /\ Only(t, th, th') /\ Only(t, foreground, foreground')
    BY <1>1, FrontedCalls, FrontedProgress
  <1>3. \A u \in Thread : Fronted(th'[u], foreground'[u])
    <2>1. TAKE u \in Thread
    <2>2. CASE u = t  BY <1>2, <2>2
    <2>3. CASE u # t
      <3>1. th'[u] = th[u] /\ foreground'[u] = foreground[u]  BY <1>2, <2>1, <2>3 DEF Only
      <3> QED  BY <2>1, <3>1 DEF FrontsGood
    <2> QED  BY <2>2, <2>3
  <1> QED  BY <1>3 DEF FrontsGood, Fronted

\* ... and they are so at the start.
LEMMA FrontsInit == Init => FrontsGood
  <1> SUFFICES ASSUME Init, NEW t \in Thread  PROVE Fronted(th[t], foreground[t])
    BY DEF FrontsGood
  <1>1. th[t] = Idle  BY DEF Init
  <1>2. Idle.span = NULL /\ Idle.pc = "idle"  BY DEF Idle
  <1> QED  BY <1>1, <1>2, FrontedFree

\* No list_del that has strayed is taken back.
LEMMA StrayKept ==
  ASSUME NEW t \in Thread, Calls(t) \/ Progress(t) \/ Exit(t), strayed
  PROVE  strayed'
  <1>1. \A i : CallSmall(t, i) => strayed' = strayed  BY Zenon DEF CallSmall
  <1>2. \A n : CallLarge(t, n) => strayed' = strayed  BY Zenon DEF CallLarge
  <1>3. \A b : FreeSome(t, b) => strayed' = strayed  BY Zenon DEF FreeSome
  <1>4. \A b : FreeLast(t, b) => strayed'
    <2> SUFFICES ASSUME NEW b, FreeLast(t, b)  PROVE strayed'  OBVIOUS
    <2>1. \E s : strayed' = (strayed \/ Strays(heap, s))  BY Zenon DEF FreeLast
    <2> QED  BY <2>1
  <1>5. \A b : FreeLarge(t, b) => strayed' = strayed  BY Zenon DEF FreeLarge
  <1>6. AcquireLocal(t) => strayed' = strayed  BY Zenon DEF AcquireLocal
  <1>7. Select(t) => strayed' = strayed  BY Zenon DEF Select
  <1>8. TryLock(t) => strayed' = strayed  BY Zenon DEF TryLock
  <1>9. FillSmall(t) => strayed' = strayed  BY Zenon DEF FillSmall
  <1>10. FillLarge(t) => strayed' = strayed  BY Zenon DEF FillLarge
  <1>11. Clock(t) => strayed' = strayed  BY Zenon DEF Clock
  <1>12. ClockRefuses(t) => strayed'
    <2> SUFFICES ASSUME ClockRefuses(t)  PROVE strayed'  OBVIOUS
    <2>1. \E s : strayed' = (strayed \/ Strays(heap, s))  BY Zenon DEF ClockRefuses
    <2> QED  BY <2>1
  <1>13. LockAccount(t) => strayed' = strayed  BY Zenon DEF LockAccount
  <1>14. Return(t) => strayed' = strayed  BY Zenon DEF Return
  <1>15. LockGiveBack(t) => strayed' = strayed  BY Zenon DEF LockGiveBack
  <1>16. GiveBack(t) => strayed' = strayed  BY Zenon DEF GiveBack
  <1>17. Exit(t) => strayed' = strayed  BY Zenon DEF Exit
  <1> QED
    BY <1>1, <1>2, <1>3, <1>4, <1>5, <1>6, <1>7, <1>8, <1>9, <1>10, <1>11, <1>12, <1>13,
       <1>14, <1>15, <1>16, <1>17 DEF Calls, Progress

\* Every step leaves the heap in order, and the headers of the blocks of the
\* other threads as they were, unless it strays; and every step but the end of
\* the thread leaves within reach what is.
LEMMA StepGood ==
  ASSUME NEW X, ~RemoteFree, Good(X), FrontsGood, NEW t \in Thread,
         Calls(t) \/ Progress(t) \/ (Exit(t) /\ X = {}), ~strayed'
  PROVE  After(X, t)
  <1>1. CASE \E i \in Class : CallSmall(t, i)  BY <1>1, CallSmallGood
  <1>2. CASE \E n \in LargeSize : CallLarge(t, n)  BY <1>2, CallLargeGood
  <1>3. CASE \E b \in Freeable(t) : FreeSome(t, b)  BY <1>3, FreeSomeGood
  <1>4. CASE \E b \in Freeable(t) : FreeLast(t, b)  BY <1>4, FreeLastGood
  <1>5. CASE \E b \in Freeable(t) : FreeLarge(t, b)  BY <1>5, FreeLargeGood
  <1>6. CASE AcquireLocal(t)  BY <1>6, AcquireLocalGood
  <1>7. CASE Select(t)  BY <1>7, SelectGood
  <1>8. CASE TryLock(t)  BY <1>8, TryLockGood
  <1>9. CASE FillSmall(t)  BY <1>9, FillSmallGood
  <1>10. CASE FillLarge(t)  BY <1>10, FillLargeGood
  <1>11. CASE Clock(t)
    <2>1. Fronted(th[t], foreground[t])  BY DEF FrontsGood
    <2> QED  BY <1>11, <2>1, ClockGood
  <1>12. CASE ClockRefuses(t)
    <2>1. Fronted(th[t], foreground[t])  BY DEF FrontsGood
    <2> QED  BY <1>12, <2>1, ClockRefusesGood
  <1>13. CASE LockAccount(t)  BY <1>13, LockAccountGood
  <1>14. CASE Return(t)  BY <1>14, ReturnGood
  <1>15. CASE LockGiveBack(t)  BY <1>15, LockGiveBackGood
  <1>16. CASE GiveBack(t)  BY <1>16, GiveBackGood
  <1>17. CASE Exit(t) /\ X = {}
    <2>1. Good({})  BY <1>17
    <2> QED  BY <1>17, <2>1, ExitGood
  <1> QED
    BY <1>1, <1>2, <1>3, <1>4, <1>5, <1>6, <1>7, <1>8, <1>9, <1>10, <1>11, <1>12, <1>13,
       <1>14, <1>15, <1>16, <1>17 DEF Calls, Progress

-----------------------------------------------------------------------------
\* The invariant holds of the states of every behaviour in which each thread
\* frees its own blocks: until a list_del strays the heap is in order.
LEMMA GoodOrStrayed ==
  ASSUME ~RemoteFree, IInv, [Next]_vars
  PROVE  IInv'
  <1>1. CASE Next
    <2>1. PICK t \in Thread : Calls(t) \/ Progress(t) \/ Exit(t)  BY <1>1 DEF Next
    <2>2. CASE strayed  BY <2>1, <2>2, StrayKept DEF IInv
    <2>3. CASE ~strayed
      <3>1. Good({}) /\ FrontsGood  BY <2>3 DEF IInv
      <3>2. ~strayed' => After({}, t)  BY <2>1, <3>1, StepGood
      <3>3. FrontsGood'  BY <2>1, <3>1, FrontsKept DEF Good
      <3> QED  BY <3>2, <3>3 DEF IInv, After
    <2> QED  BY <2>2, <2>3
  <1>2. CASE UNCHANGED vars
    <2>1. /\ heap' = heap /\ foreground' = foreground /\ threshold' = threshold /\ owner' = owner
          /\ th' = th /\ live' = live /\ calls' = calls /\ strayed' = strayed
      BY <1>2 DEF vars
    <2>2. ASSUME Good({})  PROVE Good({})'
      <3>1. StateType'  BY <2>1, <2>2 DEF Good, StateType
      <3>2. LocksGood'
        <4>1. owner' \in [Area -> Thread \cup {NoOne}]  BY <2>1, <2>2 DEF Good, LocksGood
        <4>2. \A t \in Thread : Holds(th'[t], owner', t)  BY <2>1, <2>2 DEF Good, LocksGood
        <4>3. (\A t \in Thread : Holds(th[t], owner, t))' <=> \A t \in Thread : Holds(th'[t], owner', t)
          BY DEF Holds
        <4> QED  BY <4>1, <4>2, <4>3 DEF LocksGood
      <3>3. PICK K, C : HeapGood({}, heap, K, C, foreground, th, live)  BY <2>2 DEF Good
      <3>4. HeapGood({}, heap', K, C, foreground', th', live')  BY <2>1, <3>3
      <3> QED  BY <3>1, <3>2, <3>4 DEF Good
    <2>3. FrontsGood => FrontsGood'  BY <2>1 DEF FrontsGood, Fronted
    <2> QED  BY <2>1, <2>2, <2>3 DEF IInv
  <1> QED  BY <1>1, <1>2

\* As long as each thread frees its own blocks and no list_del strays, the
\* lists, headers, map, pages and calls fit together.
THEOREM Invariant ==
  ASSUME ~RemoteFree
  PROVE  Spec => []IInv
  <1>1. Init => IInv  BY InitGood, FrontsInit DEF IInv
  <1>2. IInv /\ [Next]_vars => IInv'  BY GoodOrStrayed
  <1> QED  BY <1>1, <1>2, PTL DEF Spec

-----------------------------------------------------------------------------
\* The blocks of a thread, and the piece of the pool a block lies in.
LEMMA BlocksInUse == \A t \in Thread : Blocks(th[t], live[t]) = InUse(t)
  BY DEF Blocks, InUse, Pending

PieceFor(b) == [at |-> b.span, pages |-> IF b.pos = 0 THEN b.size ELSE 1]

\* A block lies in a piece of the thread that has it, a small one in the cells
\* between the blocks before and behind it.
LEMMA BlockCells ==
  ASSUME NEW h, NEW k, NEW use, NEW b, BlockGood(h, k, use, b), b.span \in Spans
  PROVE  /\ PieceFor(b) \in k /\ PieceFor(b).at = b.span
         /\ Cells(b) \subseteq PagesOf(PieceFor(b)) \X (1..PageUnits)
  <1>1. CASE b.pos = 0
    <2>1. PieceFor(b) = [at |-> b.span, pages |-> b.size]  BY <1>1 DEF PieceFor
    <2>2. PieceFor(b) \in k  BY <1>1, <2>1 DEF BlockGood, LargeGood
    <2>3. PagesOf(PieceFor(b)) = ExtentOf(b.span, b.size)  BY <2>1 DEF PagesOf
    <2> QED  BY <1>1, <2>1, <2>2, <2>3 DEF Cells
  <1>2. CASE b.pos # 0
    <2>1. PieceFor(b) = One(b.span)  BY <1>2 DEF PieceFor, One
    <2>2. SmallGood(h, k, use, b)  BY <1>2 DEF BlockGood
    <2>3. PieceFor(b) \in k  BY <2>1, <2>2 DEF SmallGood
    <2>4. b.span \in PagesOf(PieceFor(b))
      <3>1. PICK s \in Spans : s = b.span  OBVIOUS
      <3>2. s \in Int /\ s \in s..s + 1 - 1  BY Sizes DEF Spans
      <3>3. PagesOf(PieceFor(b)) = s..s + 1 - 1
        BY <1>2, <3>1 DEF PieceFor, PagesOf, ExtentOf
      <3> QED  BY <3>1, <3>2, <3>3
    <2>5. PICK i, p : i \in Class /\ i = h.hdr[b.span].category /\ p = b.pos
      BY <2>2 DEF SmallGood, Serves
    <2>6. p \in 1..TotalBlocks(i) /\ b.size = i + 1  BY <2>2, <2>5 DEF SmallGood
    <2>7. i \in Nat /\ p \in Nat \ {0} /\ p * (i + 1) <= PageUnits /\ PageUnits \in Nat
      BY <2>5, <2>6, ClassBlocks, Sizes
    <2>8. (p - 1) * (i + 1) + 1..p * (i + 1) \subseteq 1..PageUnits
      <3>1. (p - 1) * (i + 1) \in Nat  BY <2>7
      <3>2. p * (i + 1) \in Nat  BY <2>7
      <3> QED  BY <2>7, <3>1, <3>2
    <2>9. Cells(b) = {b.span} \X ((p - 1) * (i + 1) + 1..p * (i + 1))
      BY <1>2, <2>5, <2>6 DEF Cells
    <2> QED  BY <2>1, <2>3, <2>4, <2>8, <2>9 DEF One
  <1> QED  BY <1>1, <1>2

\* Two small blocks of one size in one span share no cell, if their places differ.
LEMMA PlacesApart ==
  ASSUME NEW m \in Nat, NEW p \in Nat, NEW q \in Nat, p # q
  PROVE  (((p - 1) * m + 1)..p * m) \cap (((q - 1) * m + 1)..q * m) = {}
  <1>1. ASSUME NEW x \in Nat, NEW y \in Nat, x < y
        PROVE  (((x - 1) * m + 1)..x * m) \cap (((y - 1) * m + 1)..y * m) = {}
    <2>1. (y - 1) * m = x * m + (y - 1 - x) * m /\ (y - 1 - x) * m >= 0  BY <1>1
    <2>2. x * m \in Int /\ y * m \in Int /\ (y - 1) * m \in Int /\ (x - 1) * m \in Int
          /\ (y - 1 - x) * m \in Int
      OBVIOUS
    <2> QED  BY <2>1, <2>2
  <1>2. CASE p < q  BY <1>1, <1>2
  <1>3. CASE q < p  BY <1>1, <1>3
  <1> QED  BY <1>2, <1>3

\* Pieces of two threads, or two pieces of one, have no page in common.
LEMMA PiecesApart ==
  ASSUME NEW X, NEW h, NEW K, NEW C, NEW f, NEW l, NEW bl, HeapGood(X, h, K, C, f, l, bl),
         NEW t \in Thread, NEW u \in Thread, NEW d \in K[t], NEW e \in K[u],
         t # u \/ d # e
  PROVE  PagesOf(d) \cap PagesOf(e) = {}
  <1>1. d # e  BY DEF HeapGood
  <1>2. d \in Held(K) /\ e \in Held(K)  BY DEF Held
  <1>3. PICK S, L : Pool(Lowest, h, S, Held(K), L)  BY DEF HeapGood
  <1>4. Divides(h.free_start, Held(K) \cup Shelf(S), L)  BY <1>3 DEF Pool
  <1> QED  BY <1>1, <1>2, <1>4 DEF Divides

\* No two blocks have a cell in common.
LEMMA BlocksApart ==
  ASSUME NEW X, NEW h, NEW K, NEW C, NEW f, NEW l, NEW bl, HeapGood(X, h, K, C, f, l, bl),
         NEW t \in Thread, NEW u \in Thread, Blocks(l[t], bl[t]) \in SUBSET BlockType,
         NEW b \in Blocks(l[t], bl[t]), NEW d \in Blocks(l[u], bl[u]), Overlap(b, d)
  PROVE  t = u /\ b = d
  <1> DEFINE use == Blocks(l[t], bl[t])
  <1>1. b.span \in Spans /\ BlockGood(h, K[t], use, b)  BY HeaderFound
  <1>2. d.span \in Spans /\ BlockGood(h, K[u], Blocks(l[u], bl[u]), d)  BY HeaderFound
  <1>3. /\ PieceFor(b) \in K[t] /\ PieceFor(b).at = b.span
        /\ Cells(b) \subseteq PagesOf(PieceFor(b)) \X (1..PageUnits)
    BY <1>1, BlockCells
  <1>4. /\ PieceFor(d) \in K[u] /\ PieceFor(d).at = d.span
        /\ Cells(d) \subseteq PagesOf(PieceFor(d)) \X (1..PageUnits)
    BY <1>2, BlockCells
  <1>5. PagesOf(PieceFor(b)) \cap PagesOf(PieceFor(d)) # {}
    <2>1. PICK x : x \in Cells(b) /\ x \in Cells(d)  BY DEF Overlap
    <2> QED  BY <1>3, <1>4, <2>1
  <1>6. t = u /\ PieceFor(b) = PieceFor(d)  BY <1>3, <1>4, <1>5, PiecesApart
  <1>7. d \in use /\ d.span = b.span /\ BlockGood(h, K[t], use, d)  BY <1>2, <1>3, <1>4, <1>6
  <1> HIDE DEF use
  <1>8. BlocksGood(h, K[t], use)  BY DEF HeapGood, ThreadGood, use
  <1>9. CASE b.pos = 0
    <2>1. h.hdr[b.span].category = LARGE  BY <1>1, <1>9 DEF BlockGood, LargeGood
    <2>2. d.pos = 0
      <3>1. d.pos # 0 => h.hdr[d.span].category \in Class
        BY <1>7 DEF BlockGood, SmallGood, Serves
      <3>2. LARGE \notin Class  BY ClassBlocks
      <3> QED  BY <1>7, <2>1, <3>1, <3>2
    <2>3. use \in SUBSET BlockType /\ b \in use  BY DEF use
    <2> QED  BY <1>6, <1>7, <1>8, <1>9, <2>2, <2>3, MateOnce
  <1>10. CASE b.pos # 0
    <2>1. PICK i \in Class : i = h.hdr[b.span].category
      BY <1>1, <1>10 DEF BlockGood, SmallGood, Serves
    <2>2. d.pos # 0
      <3>1. d.pos = 0 => h.hdr[d.span].category = LARGE  BY <1>7 DEF BlockGood, LargeGood
      <3>2. LARGE \notin Class  BY ClassBlocks
      <3> QED  BY <1>7, <2>1, <3>1, <3>2
    <2>3. PICK p \in Nat, q \in Nat, m \in Nat :
            p = b.pos /\ q = d.pos /\ m = i + 1 /\ b.size = m /\ d.size = m
      <3>1. /\ b.pos \in 1..TotalBlocks(i) /\ b.size = i + 1
            /\ d.pos \in 1..TotalBlocks(i) /\ d.size = i + 1
        BY <1>1, <1>7, <1>10, <2>1, <2>2 DEF BlockGood, SmallGood
      <3>2. i \in Nat /\ TotalBlocks(i) \in Nat  BY ClassBlocks, Sizes
      <3> QED  BY <3>1, <3>2
    <2>4. /\ Cells(b) = {b.span} \X ((p - 1) * m + 1..p * m)
          /\ Cells(d) = {b.span} \X ((q - 1) * m + 1..q * m)
      BY <1>7, <1>10, <2>2, <2>3 DEF Cells
    <2>5. PICK x : x \in (p - 1) * m + 1..p * m /\ x \in (q - 1) * m + 1..q * m
      BY <2>4 DEF Overlap
    <2>6. p = q  BY <2>5, PlacesApart
    <2>7. use \in SUBSET BlockType /\ b \in use  BY DEF use
    <2> QED  BY <1>6, <1>7, <1>8, <2>3, <2>6, <2>7, MateOnce
  <1> QED  BY <1>9, <1>10

\* The blocks of a state in order are blocks.
LEMMA BlocksTyped ==
  ASSUME NEW X, Good(X), NEW t \in Thread
  PROVE  /\ Blocks(th[t], live[t]) \in SUBSET BlockType /\ IsFiniteSet(Blocks(th[t], live[t]))
         /\ Pending(t) \cap live[t] = {}
  <1>1. /\ th[t] \in CallType /\ live[t] \in SUBSET BlockType /\ IsFiniteSet(live[t])
    BY DEF Good, StateType
  <1>2. th[t].addr \in BlockType \cup {<<>>}  BY <1>1 DEF CallType
  <1>3. PICK k, c : CallGood(heap, k, c, foreground[t], th[t], live[t])  BY CallOf
  <1>4. th[t].addr # <<>> => th[t].addr \notin live[t]  BY <1>3 DEF CallGood
  <1>5. CASE th[t].addr = <<>>  BY <1>1, <1>5 DEF Blocks, Pending
  <1>6. CASE th[t].addr # <<>>
    <2>1. Blocks(th[t], live[t]) = live[t] \cup {th[t].addr}  BY <1>6 DEF Blocks
    <2>2. IsFiniteSet(live[t] \cup {th[t].addr})  BY <1>1, FS_AddElement, Zenon
    <2> QED  BY <1>1, <1>2, <1>4, <1>6, <2>1, <2>2 DEF Pending
  <1> QED  BY <1>5, <1>6

\* A state in order hands out no address that a block in use covers.
LEMMA GoodApart == Good({}) => NoOverlap
  <1>1. SUFFICES ASSUME Good({})  PROVE NoOverlap  OBVIOUS
  <1>2. PICK K, C : HeapGood({}, heap, K, C, foreground, th, live)  BY <1>1 DEF Good
  <1>3. ASSUME NEW t \in Thread, NEW u \in Thread, NEW b \in InUse(t), NEW d \in InUse(u),
               Overlap(b, d)
        PROVE  t = u /\ b = d
    <2>1. b \in Blocks(th[t], live[t]) /\ d \in Blocks(th[u], live[u])  BY BlocksInUse
    <2>2. Blocks(th[t], live[t]) \in SUBSET BlockType  BY <1>1, BlocksTyped
    <2> QED  BY <1>2, <1>3, <2>1, <2>2, BlocksApart
  <1>4. ASSUME NEW t \in Thread, NEW u \in Thread, NEW b \in Pending(t), NEW d \in live[u]
        PROVE  ~Overlap(b, d)
    <2>1. b \in InUse(t) /\ d \in InUse(u)  BY DEF InUse
    <2>2. Overlap(b, d) => t = u /\ b = d  BY <1>3, <2>1
    <2>3. Pending(t) \cap live[t] = {}  BY <1>1, BlocksTyped
    <2> QED  BY <2>2, <2>3
  <1> QED  BY <1>3, <1>4 DEF NoOverlap

-----------------------------------------------------------------------------
\* A span that serves has one free block for each place that no block is at.
LEMMA ServesCount ==
  ASSUME NEW h, NEW k, NEW use \in SUBSET BlockType, IsFiniteSet(use), BlocksGood(h, k, use),
         NEW b \in use, b.pos # 0
  PROVE  h.hdr[b.span].free_block_num
           = TotalBlocks(h.hdr[b.span].category) - Cardinality(Mates(use, b.span))
  <1> DEFINE s == b.span
             n == TotalBlocks(h.hdr[s].category)
             M == Mates(use, s)
             P == {d.pos : d \in M}
             at == [d \in M |-> d.pos]
  <1>1. Serves(h, use, s)  BY DEF BlocksGood, SmallGood
  <1>2. n \in 1..PageUnits /\ h.hdr[s].category # LARGE  BY <1>1, ClassBlocks DEF Serves
  <1>3. n \in Nat  BY <1>2, Sizes
  <1>4. \A d \in M : d \in use /\ d.pos \in 1..n
    <2>1. ASSUME NEW d \in M  PROVE d \in use /\ d.pos \in 1..n
      <3>1. d \in use /\ d.span = s  BY DEF Mates
      <3>2. d.pos # 0  BY <1>2, <3>1 DEF BlocksGood, LargeGood
      <3>3. SmallGood(h, k, use, d)  BY <3>1, <3>2 DEF BlocksGood
      <3> QED  BY <3>1, <3>3 DEF SmallGood
    <2> QED  BY <2>1
  <1>5. IsFiniteSet(P) /\ Cardinality(P) = Cardinality(M)
    <2>1. IsFiniteSet(M)
      <3>1. M \in SUBSET use  BY DEF Mates
      <3> QED  BY <3>1, FS_Subset, Zenon
    <2>2. at \in [M -> P]  OBVIOUS
    <2>3. \A x, y \in M : at[x] = at[y] => x = y
      <3>1. \A x, y \in M : x.pos = y.pos => x = y
        <4>1. TAKE x, y \in M
        <4>2. x \in use /\ y \in use /\ x.span = y.span  BY <1>4 DEF Mates
        <4> QED  BY <4>2, MateOnce
      <3> QED  BY <3>1
    <2>4. \A p \in P : \E x \in M : at[x] = p  OBVIOUS
    <2> HIDE DEF at, P, M
    <2> QED  BY <2>1, <2>2, <2>3, <2>4, Matched, Zenon
  <1>6. IsFiniteSet(1..n) /\ Cardinality(1..n) = n
    <2>1. 1 \in Int /\ n \in Int  BY <1>3
    <2>2. IsFiniteSet(1..n) /\ Cardinality(1..n) = IF 1 > n THEN 0 ELSE n - 1 + 1
      BY <2>1, FS_Interval, Zenon
    <2> QED  BY <1>2, <2>2
  <1>7. Cardinality((1..n) \ P) = n - Cardinality(P)
    <2>1. (1..n) \cap P = P  BY <1>4
    <2>2. Cardinality((1..n) \ P) = Cardinality(1..n) - Cardinality((1..n) \cap P)
      BY <1>6, FS_Difference, Zenon
    <2> QED  BY <1>6, <2>1, <2>2
  <1>8. h.hdr[s].free_block_num = Cardinality((1..n) \ P)  BY <1>1 DEF Serves
  <1> QED  BY <1>5, <1>7, <1>8

\* In a state in order, the header that a free will find is that of the span
\* of the block, and agrees with the blocks of the span in use.
LEMMA GoodDescribed == Good({}) => HeaderDescribesBlocks
  <1>1. SUFFICES ASSUME Good({})  PROVE HeaderDescribesBlocks  OBVIOUS
  <1>2. PICK K, C : HeapGood({}, heap, K, C, foreground, th, live)  BY <1>1 DEF Good
  <1>3. ASSUME NEW t \in Thread, NEW b \in InUse(t)
        PROVE  /\ span_extract_header(heap, AddressIn(b)) = b.span
               /\ IF b.pos = 0
                  THEN /\ heap.hdr[b.span].category = LARGE
                       /\ heap.hdr[b.span].page_num = b.size
                  ELSE /\ heap.hdr[b.span].category = b.size - 1
                       /\ heap.hdr[b.span].free_block_num
                            = TotalBlocks(heap.hdr[b.span].category)
                                - Cardinality({c \in InUse(t) : c.span = b.span})
                       /\ b.pos \notin heap.hdr[b.span].bitmap
    <2>1. Blocks(th[t], live[t]) = InUse(t)  BY BlocksInUse
    <2>2. InUse(t) \in SUBSET BlockType /\ IsFiniteSet(InUse(t))  BY <1>1, <2>1, BlocksTyped
    <2>3. b \in Blocks(th[t], live[t])  BY <2>1
    <2>4. /\ span_extract_header(heap, AddressIn(b)) = b.span
          /\ BlockGood(heap, K[t], InUse(t), b)
      BY <1>2, <2>1, <2>3, HeaderFound
    <2>5. BlocksGood(heap, K[t], InUse(t))  BY <1>2, <2>1 DEF HeapGood, ThreadGood
    <2>6. CASE b.pos = 0  BY <2>4, <2>6 DEF BlockGood, LargeGood
    <2>7. CASE b.pos # 0
      <3>1. SmallGood(heap, K[t], InUse(t), b)  BY <2>4, <2>7 DEF BlockGood
      <3>2. heap.hdr[b.span].category = b.size - 1
        <4>1. PICK i \in Class : i = heap.hdr[b.span].category /\ b.size = i + 1
          BY <3>1 DEF SmallGood, Serves
        <4>2. i \in Nat  BY ClassBlocks, Sizes
        <4> QED  BY <4>1, <4>2
      <3>3. heap.hdr[b.span].free_block_num
              = TotalBlocks(heap.hdr[b.span].category) - Cardinality(Mates(InUse(t), b.span))
        BY <2>2, <2>5, <2>7, ServesCount
      <3>4. Mates(InUse(t), b.span) = {c \in InUse(t) : c.span = b.span}  BY DEF Mates
      <3>5. b.pos \notin heap.hdr[b.span].bitmap
        <4>1. b \in Mates(InUse(t), b.span)  BY DEF Mates
        <4> QED  BY <3>1, <4>1 DEF SmallGood, Serves
      <3> QED  BY <2>4, <2>7, <3>2, <3>3, <3>4, <3>5
    <2> QED  BY <2>6, <2>7
  <1> QED  BY <1>3 DEF HeaderDescribesBlocks

-----------------------------------------------------------------------------
\* Every head is that of a free list or of a list of a cache.
LEMMA ListHeads ==
  /\ \A n \in FreeLists : \E a \in Area, i \in ListIndex : n = FreeList(a, i)
  /\ \A n \in Heads : \E t \in Thread, j \in ListNo : n = HeadOf(t, j)
  <1>1. ASSUME NEW n \in FreeLists
        PROVE  \E a \in Area, i \in ListIndex : n = FreeList(a, i)
    <2>1. /\ LARGE_BLOCK_NUM \in Nat \ {0} /\ AREA_NUM \in Nat \ {0}
          /\ AREA_NUM * LARGE_BLOCK_NUM \in Nat
      BY Sizes, HeapAssumption
    <2>2. PICK y \in Nat : n = -(y + 1) /\ y + 1 <= AREA_NUM * LARGE_BLOCK_NUM
      <3>1. n \in Int /\ n <= -1 /\ -(AREA_NUM * LARGE_BLOCK_NUM) <= n  BY <2>1 DEF FreeLists
      <3>2. -n - 1 \in Nat /\ n = -((-n - 1) + 1)  BY <3>1
      <3> QED  BY <2>1, <3>1, <3>2
    <2>3. PICK q \in Nat, r \in Nat : y = q * LARGE_BLOCK_NUM + r /\ r < LARGE_BLOCK_NUM
      <3>1. /\ y \div LARGE_BLOCK_NUM \in Nat /\ y % LARGE_BLOCK_NUM \in Nat
            /\ y % LARGE_BLOCK_NUM < LARGE_BLOCK_NUM
            /\ y = (y \div LARGE_BLOCK_NUM) * LARGE_BLOCK_NUM + (y % LARGE_BLOCK_NUM)
        BY <2>1, <2>2
      <3> QED  BY <3>1
    <2>4. q * LARGE_BLOCK_NUM < AREA_NUM * LARGE_BLOCK_NUM
      <3>1. q * LARGE_BLOCK_NUM \in Nat  BY <2>1
      <3> QED  BY <2>1, <2>2, <2>3, <3>1
    <2>5. q < AREA_NUM
      <3>1. SUFFICES ASSUME q >= AREA_NUM  PROVE FALSE  BY <2>1
      <3>2. q * LARGE_BLOCK_NUM >= AREA_NUM * LARGE_BLOCK_NUM
        <4>1. q * LARGE_BLOCK_NUM = AREA_NUM * LARGE_BLOCK_NUM + (q - AREA_NUM) * LARGE_BLOCK_NUM
              /\ (q - AREA_NUM) * LARGE_BLOCK_NUM >= 0
          BY <2>1, <3>1
        <4>2. (q - AREA_NUM) * LARGE_BLOCK_NUM \in Int  BY <2>1
        <4> QED  BY <2>1, <4>1, <4>2
      <3>3. q * LARGE_BLOCK_NUM \in Nat  BY <2>1
      <3> QED  BY <2>1, <2>4, <3>2, <3>3
    <2>6. q \in Area /\ r \in ListIndex  BY <2>1, <2>3, <2>5 DEF Area, ListIndex
    <2>7. n = FreeList(q, r)
      <3>1. q * LARGE_BLOCK_NUM \in Nat  BY <2>1
      <3> QED  BY <2>2, <2>3, <3>1 DEF FreeList
    <2> QED  BY <2>6, <2>7
  <1>2. ASSUME NEW n \in Heads
        PROVE  \E t \in Thread, j \in ListNo : n = HeadOf(t, j)
    <2> DEFINE W == 2 * PageUnits + 1
               A == AREA_NUM * LARGE_BLOCK_NUM
    <2>1. W \in Nat \ {0} /\ THREAD_NUM \in Nat \ {0} /\ A \in Nat /\ THREAD_NUM * W \in Nat
      BY Sizes, CallAssumption
    <2>2. PICK y \in Nat : n = -A - (y + 1) /\ y + 1 <= THREAD_NUM * W
      <3>1. n \in -A - THREAD_NUM * W..-A - 1  BY DEF Heads, CacheBase, CacheSize
      <3> HIDE DEF A, W
      <3>2. n \in Int /\ n <= -A - 1 /\ -A - THREAD_NUM * W <= n  BY <2>1, <3>1
      <3>3. -A - n - 1 \in Nat /\ n = -A - ((-A - n - 1) + 1)  BY <2>1, <3>2
      <3> QED  BY <2>1, <3>2, <3>3
    <2>3. PICK q \in Nat, r \in Nat : y = q * W + r /\ r < W
      <3> HIDE DEF W
      <3>1. y \div W \in Nat /\ y % W \in Nat /\ y % W < W /\ y = (y \div W) * W + (y % W)
        BY <2>1, <2>2
      <3> QED  BY <3>1
    <2>4. q < THREAD_NUM
      <3> HIDE DEF W
      <3>1. SUFFICES ASSUME q >= THREAD_NUM  PROVE FALSE  BY <2>1
      <3>2. q * W = THREAD_NUM * W + (q - THREAD_NUM) * W /\ (q - THREAD_NUM) * W >= 0
        BY <2>1, <3>1
      <3>3. (q - THREAD_NUM) * W \in Int /\ q * W \in Nat  BY <2>1
      <3> QED  BY <2>1, <2>2, <2>3, <3>2, <3>3
    <2>5. q + 1 \in Thread  BY <2>1, <2>4 DEF Thread
    <2>6. W - 1 - r \in ListNo
      <3>1. PageUnits \in Nat  BY Sizes
      <3> QED  BY <2>3, <3>1 DEF ListNo
    <2>7. HeadOf(q + 1, W - 1 - r) = (-A - (q + 1) * W) + (W - 1 - r)
      BY DEF HeadOf, CacheBase, CacheSize
    <2>8. (q + 1) * W = q * W + W /\ q * W \in Nat
      <3> HIDE DEF W
      <3> QED  BY <2>1
    <2>9. n = HeadOf(q + 1, W - 1 - r)
      <3> HIDE DEF W, A
      <3> QED  BY <2>1, <2>2, <2>3, <2>7, <2>8
    <2> QED  BY <2>5, <2>6, <2>9
  <1> QED  BY <1>1, <1>2

\* What a list_for_each from a head comes to.
On(h, n) == EntrySet(h, n, AREA_NUM * AreaPages)

\* A node on the list of head n, and the lists it is on.
OnFree(S, n, s)  == \E a \in Area, i \in ListIndex : n = FreeList(a, i) /\ s \in S[a][i]
OnOwned(C, n, s) == \E t \in Thread, j \in ListNo : n = HeadOf(t, j) /\ s \in C[t][j]

\* The lists a walk finds are those of the pools and the caches.
LEMMA ListFound ==
  ASSUME NEW X, NEW h, NEW K, NEW C, NEW S, NEW L, NEW t \in Thread, Base(X, h, K, C, S, L, t, C[t]),
         NEW n \in FreeLists \cup Heads
  PROVE  /\ Ring(h, n, On(h, n)) /\ On(h, n) \subseteq Spans
         /\ \A s \in On(h, n) : OnFree(S, n, s) \/ OnOwned(C, n, s)
         /\ \A s : OnFree(S, n, s) \/ OnOwned(C, n, s) => s \in On(h, n)
  <1>1. S \in Shelves /\ Shelved(h, S)  BY DEF Base, Pool
  <1>2. \A u \in Thread : ListsGood(h, u, K[u], C[u]) /\ C[u] \in Caches  BY DEF Base
  <1>3. \A m \in SUBSET Spans : Ring(h, n, m) => On(h, n) = m
    <2>1. TAKE m \in SUBSET Spans
    <2>2. HAVE Ring(h, n, m)
    <2>3. /\ IsFiniteSet(m) /\ AREA_NUM * AreaPages \in Nat
          /\ Cardinality(m) <= AREA_NUM * AreaPages
      BY ListFinite
    <2> QED  BY <2>2, <2>3, EntriesRing DEF On
  <1>4. \A a \in Area, i \in ListIndex : FreeList(a, i) \in FreeLists  BY FreeListHead
  <1>5. \A u \in Thread, j \in ListNo : HeadOf(u, j) \notin FreeLists  BY CacheHead
  <1>6. CASE n \in FreeLists
    <2>1. PICK a \in Area, i \in ListIndex : n = FreeList(a, i)  BY <1>6, ListHeads
    <2>2. Ring(h, n, S[a][i]) /\ S[a][i] \in SUBSET Spans  BY <1>1, <2>1 DEF Shelved, Shelves
    <2>3. On(h, n) = S[a][i]  BY <1>3, <2>2
    <2>4. \A b \in Area, j \in ListIndex : n = FreeList(b, j) => b = a /\ j = i
      BY <2>1, FreeListHead
    <2>5. \A s : OnFree(S, n, s) <=> s \in S[a][i]  BY <2>1, <2>4 DEF OnFree
    <2>6. \A s : ~OnOwned(C, n, s)  BY <1>5, <1>6 DEF OnOwned
    <2> QED  BY <2>2, <2>3, <2>5, <2>6
  <1>7. CASE n \notin FreeLists
    <2>1. PICK u \in Thread, j \in ListNo : n = HeadOf(u, j)  BY <1>7, ListHeads
    <2>2. Ring(h, n, C[u][j]) /\ C[u][j] \in SUBSET Spans
      BY <1>2, <2>1 DEF ListsGood, Caches
    <2>3. On(h, n) = C[u][j]  BY <1>3, <2>2
    <2>4. \A v \in Thread, i \in ListNo : n = HeadOf(v, i) => v = u /\ i = j
      BY <2>1, CacheHead
    <2>5. \A s : OnOwned(C, n, s) <=> s \in C[u][j]  BY <2>1, <2>4 DEF OnOwned
    <2>6. \A s : ~OnFree(S, n, s)  BY <1>4, <1>7 DEF OnFree
    <2> QED  BY <2>2, <2>3, <2>5, <2>6
  <1> QED  BY <1>6, <1>7

\* The span of a piece of a thread is on no list but those of its cache.
LEMMA HeldUnshelved ==
  ASSUME NEW X, NEW h, NEW K, NEW C, NEW S, NEW L, NEW t \in Thread, Base(X, h, K, C, S, L, t, C[t]),
         NEW u \in Thread, NEW e \in K[u], NEW n
  PROVE  ~OnFree(S, n, e.at)
  <1>1. Pool(Lowest, h, S, Held(K), L) /\ e \in Held(K)  BY DEF Base, Held
  <1>2. ~OnShelf(S, e.at)  BY <1>1, HeldPiece
  <1> QED  BY <1>2 DEF OnFree, OnShelf

\* No span is on two lists.
LEMMA OnOneList ==
  ASSUME NEW X, NEW h, NEW K, NEW C, NEW S, NEW L, NEW t \in Thread, Base(X, h, K, C, S, L, t, C[t]),
         NEW n \in FreeLists \cup Heads, NEW m \in FreeLists \cup Heads,
         NEW s \in On(h, n), s \in On(h, m)
  PROVE  n = m
  <1>1. /\ OnFree(S, n, s) \/ OnOwned(C, n, s)
        /\ OnFree(S, m, s) \/ OnOwned(C, m, s)
    BY ListFound
  <1>2. \A v \in Thread, j \in ListNo : s \in C[v][j] => One(s) \in K[v]
    BY DEF Base, ListsGood
  <1>3. One(s).at = s  BY DEF One
  <1>4. S \in Shelves /\ Shelved(h, S)  BY DEF Base, Pool
  <1>5. CASE OnFree(S, n, s) /\ OnFree(S, m, s)
    <2>1. PICK a \in Area, i \in ListIndex : n = FreeList(a, i) /\ s \in S[a][i]
      BY <1>5 DEF OnFree
    <2>2. PICK b \in Area, j \in ListIndex : m = FreeList(b, j) /\ s \in S[b][j]
      BY <1>5 DEF OnFree
    <2>3. <<a, i>> = <<b, j>>
      <3>1. (S[a][i] \cup {FreeList(a, i)}) \cap (S[b][j] \cup {FreeList(b, j)}) # {}
        BY <2>1, <2>2
      <3> QED  BY <1>4, <3>1, ShelfApart
    <2> QED  BY <2>1, <2>2, <2>3
  <1>6. CASE OnOwned(C, n, s) /\ OnOwned(C, m, s)
    <2>1. PICK u \in Thread, i \in ListNo : n = HeadOf(u, i) /\ s \in C[u][i]
      BY <1>6 DEF OnOwned
    <2>2. PICK v \in Thread, j \in ListNo : m = HeadOf(v, j) /\ s \in C[v][j]
      BY <1>6 DEF OnOwned
    <2>3. v = u
      <3>1. One(s) \in K[u] /\ One(s) \in K[v]  BY <1>2, <2>1, <2>2
      <3> QED  BY <3>1 DEF Base
    <2>4. \A x, y \in ListNo : x # y => C[u][x] \cap C[u][y] = {}  BY DEF Base, ListsGood
    <2>5. i = j  BY <2>1, <2>2, <2>3, <2>4
    <2> QED  BY <2>1, <2>2, <2>3, <2>5
  <1>7. \A x, y : ~(OnOwned(C, x, s) /\ OnFree(S, y, s))
    <2>1. SUFFICES ASSUME NEW x, NEW y, OnOwned(C, x, s)  PROVE ~OnFree(S, y, s)  OBVIOUS
    <2>2. PICK u \in Thread, i \in ListNo : s \in C[u][i]  BY <2>1 DEF OnOwned
    <2>3. One(s) \in K[u]  BY <1>2, <2>2
    <2>4. ~OnFree(S, y, One(s).at)  BY <2>3, HeldUnshelved
    <2> QED  BY <1>3, <2>4
  <1>8. ~(OnOwned(C, n, s) /\ OnFree(S, m, s)) /\ ~(OnOwned(C, m, s) /\ OnFree(S, n, s))
    BY <1>7
  <1> QED  BY <1>1, <1>5, <1>6, <1>8, Zenon

\* The places on lists of a heap, and what is on them.
Listings(h) == UNION {{n} \X On(h, n) : n \in FreeLists \cup Heads}
Seconds(P)  == {p[2] : p \in P}

\* As many spans are on lists as there are places on lists.
LEMMA ListedOnce ==
  ASSUME NEW X, NEW h, NEW K, NEW C, NEW S, NEW L, NEW t \in Thread, Base(X, h, K, C, S, L, t, C[t])
  PROVE  Cardinality(Seconds(Listings(h))) = Cardinality(Listings(h))
  <1> DEFINE listed == Listings(h)
             Q == {p[2] : p \in listed}
             snd == [p \in listed |-> p[2]]
  <1>1. \A p \in listed : /\ p = <<p[1], p[2]>> /\ p[1] \in FreeLists \cup Heads
                          /\ p[2] \in On(h, p[1])
    BY DEF Listings
  <1>2. \A n \in FreeLists \cup Heads : On(h, n) \subseteq Spans  BY ListFound
  <1>3. IsFiniteSet(listed)
    <2>1. IsFiniteSet(FreeLists \cup Heads)
      <3>1. AREA_NUM * LARGE_BLOCK_NUM \in Int /\ CacheBase(THREAD_NUM) \in Int
        <4>1. AREA_NUM * LARGE_BLOCK_NUM \in Int /\ THREAD_NUM * CacheSize \in Int
          BY Sizes, CallAssumption DEF CacheSize
        <4> QED  BY <4>1 DEF CacheBase
      <3>2. PICK x \in Int, y \in Int : x = -(AREA_NUM * LARGE_BLOCK_NUM) /\ y = CacheBase(THREAD_NUM)
        BY <3>1
      <3>3. FreeLists = x..-1 /\ Heads = y..x - 1 /\ -1 \in Int /\ x - 1 \in Int
        BY <3>2 DEF FreeLists, Heads
      <3>4. IsFiniteSet(x..-1) /\ IsFiniteSet(y..x - 1)  BY <3>3, FS_Interval, Zenon
      <3> QED  BY <3>3, <3>4, FS_Union, Zenon
    <2>2. IsFiniteSet(Spans)
      <3>1. Spans \in SUBSET Spans  OBVIOUS
      <3> QED  BY <3>1, ListFinite, Zenon
    <2>3. IsFiniteSet((FreeLists \cup Heads) \X Spans)  BY <2>1, <2>2, FS_Product, Zenon
    <2>4. listed \in SUBSET ((FreeLists \cup Heads) \X Spans)  BY <1>2 DEF Listings
    <2> QED  BY <2>3, <2>4, FS_Subset, Zenon
  <1>4. \A p, q \in listed : p[2] = q[2] => p = q
    <2>1. TAKE p, q \in listed
    <2>2. HAVE p[2] = q[2]
    <2>3. p[1] = q[1]  BY <1>1, <2>2, OnOneList
    <2> QED  BY <1>1, <2>2, <2>3
  <1> HIDE DEF Q
  <1>5. snd \in [listed -> Q]  BY DEF Q
  <1>6. \A p, q \in listed : snd[p] = snd[q] => p = q  BY <1>4
  <1>7. \A x \in Q : \E p \in listed : snd[p] = x  BY DEF Q
  <1> HIDE DEF snd
  <1>8. Cardinality(Q) = Cardinality(listed)
    BY ONLY ZenonT(60), <1>3, <1>5, <1>6, <1>7, Matched
  <1> QED  BY <1>8 DEF Q, Seconds

\* In a state in order every span is in one place.
LEMMA GoodPlaced == Good({}) => OnePlace
  <1>1. SUFFICES ASSUME Good({})  PROVE OnePlace  OBVIOUS
  <1>2. PICK K, C : HeapGood({}, heap, K, C, foreground, th, live)  BY <1>1 DEF Good
  <1>3. PICK t \in Thread : TRUE  BY CallAssumption DEF Thread
  <1>4. PICK S, L : Base({}, heap, K, C, S, L, t, C[t])  BY <1>2, BaseOf
  <1>5. \A u \in Thread : ThreadGood(heap, u, K[u], C[u], foreground[u], th[u], live[u])
    BY <1>2 DEF HeapGood
  <1> DEFINE heads  == FreeLists \cup Heads
             listed == UNION {{n} \X On(heap, n) : n \in heads}
             spare  == UNION {On(heap, n) : n \in FreeLists \cup {FreeSpans(u) : u \in Thread}}
  <1>6. RingsCoherent(heap, heads)
    <2>1. ASSUME NEW n \in heads, NEW x \in On(heap, n) \cup {n}  PROVE Linked(heap, x)
      <3>1. Ring(heap, n, On(heap, n))  BY <1>4, ListFound
      <3> QED  BY <2>1, <3>1 DEF Ring
    <2>2. heap.next[NULL] = NULL /\ heap.prev[NULL] = NULL  BY <1>4 DEF Base, Pool, Shelved
    <2> QED  BY <2>1, <2>2 DEF RingsCoherent, On
  <1>7. Cardinality({p[2] : p \in listed}) = Cardinality(listed)
    <2>1. Cardinality(Seconds(Listings(heap))) = Cardinality(Listings(heap))
      BY <1>4, ListedOnce
    <2>2. Listings(heap) = listed  BY DEF Listings
    <2> HIDE DEF listed
    <2> QED  BY <2>1, <2>2 DEF Seconds
  <1>8. ASSUME NEW u \in Thread, NEW i \in Class, foreground[u][i] \in {p[2] : p \in listed}
        PROVE  FALSE
    <2>1. PICK n \in heads : foreground[u][i] \in On(heap, n)  BY <1>8
    <2>2. PICK s : s = foreground[u][i]  OBVIOUS
    <2>3. s \in On(heap, n) /\ On(heap, n) \subseteq Spans /\ s # NULL
      <3>1. s \in On(heap, n) /\ On(heap, n) \subseteq Spans  BY <1>4, <2>1, <2>2, ListFound
      <3>2. NULL \notin Spans  BY LowestNodes, NodesIn
      <3> QED  BY <3>1, <3>2
    <2>4. One(s) \in K[u] /\ ~OnCache(C[u], s)
      BY <1>5, <2>2, <2>3 DEF ThreadGood, ForegroundGood
    <2>5. OnFree(S, n, s) \/ OnOwned(C, n, s)  BY <1>4, <2>3, ListFound
    <2>6. ~OnFree(S, n, s)
      <3>1. ~OnFree(S, n, One(s).at)  BY <1>4, <2>4, HeldUnshelved
      <3> QED  BY <3>1 DEF One
    <2>7. PICK v \in Thread, j \in ListNo : s \in C[v][j]  BY <2>5, <2>6 DEF OnOwned
    <2>8. One(s) \in K[v]  BY <1>4, <2>7 DEF Base, ListsGood
    <2>9. v = u  BY <1>4, <2>4, <2>8 DEF Base
    <2> QED  BY <2>4, <2>7, <2>9 DEF OnCache
  <1>9. ASSUME NEW u \in Thread, NEW b \in InUse(u), b.span \in spare  PROVE FALSE
    <2>1. PICK s, use : s = b.span /\ use = Blocks(th[u], live[u])  OBVIOUS
    <2>2. b \in use /\ use = InUse(u)  BY <2>1, BlocksInUse
    <2>3. s \in Spans /\ BlockGood(heap, K[u], use, b)
      <3>1. b \in Blocks(th[u], live[u])  BY <2>1, <2>2
      <3> QED  BY <1>2, <2>1, <3>1, HeaderFound
    <2>4. PieceFor(b) \in K[u] /\ PieceFor(b).at = s  BY <2>1, <2>3, BlockCells
    <2>5. PICK n \in FreeLists \cup {FreeSpans(v) : v \in Thread} : s \in On(heap, n)
      BY <1>9, <2>1
    <2>6. n \in heads
      <3>1. \A v \in Thread : FreeSpans(v) \in Heads  BY ListNumbers, CacheHead
      <3> QED  BY <3>1
    <2>7. OnFree(S, n, s) \/ OnOwned(C, n, s)  BY <1>4, <2>5, <2>6, ListFound
    <2>8. ~OnFree(S, n, s)
      <3>1. ~OnFree(S, n, PieceFor(b).at)  BY <1>4, <2>4, HeldUnshelved
      <3> QED  BY <2>4, <3>1
    <2>9. PICK v \in Thread, j \in ListNo : n = HeadOf(v, j) /\ s \in C[v][j]
      BY <2>7, <2>8 DEF OnOwned
    <2>10. One(s) \in K[v] /\ One(s).at = s  BY <1>4, <2>9 DEF Base, ListsGood, One
    <2>11. v = u
      <3>1. PICK S2, L2 : Base({}, heap, K, C, S2, L2, u, C[u])  BY <1>2, BaseOf
      <3>2. Apart(heap, K, S2, u, PieceFor(b))  BY <2>4, <3>1, HeldOne
      <3> QED  BY <2>4, <2>10, <3>2 DEF Apart
    <2>12. j = 0
      <3>1. n \notin FreeLists  BY <2>9, CacheHead
      <3>2. PICK w \in Thread : n = HeadOf(w, 0)  BY <2>5, <3>1, ListNumbers
      <3>3. 0 \in ListNo  BY ListNumbers
      <3>4. \A x \in Thread, i \in ListNo : HeadOf(v, j) = HeadOf(x, i) => v = x /\ j = i
        BY CacheHead
      <3> QED  BY <2>9, <3>2, <3>3, <3>4
    <2>13. Mates(use, s) = {}
      BY <1>5, <2>1, <2>9, <2>11, <2>12 DEF ThreadGood, SpareGood
    <2> QED  BY <2>1, <2>2, <2>13 DEF Mates
  <1>10. {foreground[u][i] : u \in Thread, i \in Class} \cap {p[2] : p \in listed} = {}
    <2> HIDE DEF listed
    <2> QED  BY <1>8
  <1>11. (UNION {{b.span : b \in InUse(u)} : u \in Thread}) \cap spare = {}
    <2> HIDE DEF spare
    <2> QED  BY <1>9
  <1> HIDE DEF heads
  <1> QED  BY <1>6, <1>7, <1>10, <1>11 DEF OnePlace, On, heads

-----------------------------------------------------------------------------
\* No address is handed out while a block of any thread covers it.
THEOREM BlocksStayApart ==
  ASSUME ~RemoteFree
  PROVE  Spec => []NoOverlapUnlessStray
  <1>1. IInv => NoOverlapUnlessStray  BY GoodApart DEF IInv, NoOverlapUnlessStray
  <1> QED  BY <1>1, Invariant, PTL

\* The header that a free finds describes the block.
THEOREM HeadersDescribeBlocks ==
  ASSUME ~RemoteFree
  PROVE  Spec => []HeaderDescribesBlocksUnlessStray
  <1>1. IInv => HeaderDescribesBlocksUnlessStray
    BY GoodDescribed DEF IInv, HeaderDescribesBlocksUnlessStray
  <1> QED  BY <1>1, Invariant, PTL

\* A span is on one list, in the foreground, or under blocks in use.
THEOREM SpansInOnePlace ==
  ASSUME ~RemoteFree
  PROVE  Spec => []OnePlaceUnlessStray
  <1>1. IInv => OnePlaceUnlessStray  BY GoodPlaced DEF IInv, OnePlaceUnlessStray
  <1> QED  BY <1>1, Invariant, PTL

\* In a behaviour in which no list_del strays the three hold of every state:
\* no address is handed out while a block covers it, ...
COROLLARY InOrderApart ==
  ASSUME ~RemoteFree
  PROVE  Spec /\ []NotYetStrayed => []NoOverlap
  <1>1. NoOverlapUnlessStray /\ NotYetStrayed => NoOverlap
    BY DEF NoOverlapUnlessStray, NotYetStrayed
  <1> QED  BY <1>1, BlocksStayApart, PTL

\* ... the header that hpnfree finds describes the block, ...
COROLLARY InOrderDescribed ==
  ASSUME ~RemoteFree
  PROVE  Spec /\ []NotYetStrayed => []HeaderDescribesBlocks
  <1>1. HeaderDescribesBlocksUnlessStray /\ NotYetStrayed => HeaderDescribesBlocks
    BY DEF HeaderDescribesBlocksUnlessStray, NotYetStrayed
  <1> QED  BY <1>1, HeadersDescribeBlocks, PTL

\* ... and every span is in one place.
COROLLARY InOrderPlaced ==
  ASSUME ~RemoteFree
  PROVE  Spec /\ []NotYetStrayed => []OnePlace
  <1>1. OnePlaceUnlessStray /\ NotYetStrayed => OnePlace
    BY DEF OnePlaceUnlessStray, NotYetStrayed
  <1> QED  BY <1>1, SpansInOnePlace, PTL

\* A block in use lies in the spans.
LEMMA CellsTyped ==
  ASSUME NEW X, Good(X), NEW t \in Thread, NEW b \in live[t]
  PROVE  Cells(b) \subseteq Spans \X (1..PageUnits)
  <1>1. PICK K, C : HeapGood(X, heap, K, C, foreground, th, live)  BY DEF Good
  <1>2. b \in Blocks(th[t], live[t])  BY DEF Blocks
  <1>3. b.span \in Spans /\ BlockGood(heap, K[t], Blocks(th[t], live[t]), b)
    BY <1>1, <1>2, HeaderFound
  <1>4. PieceFor(b) \in K[t] /\ Cells(b) \subseteq PagesOf(PieceFor(b)) \X (1..PageUnits)
    BY <1>3, BlockCells
  <1>5. PICK S, L : Pool(Lowest, heap, S, Held(K), L)  BY <1>1 DEF HeapGood
  <1>6. PieceFor(b) \in Held(K)  BY <1>4 DEF Held
  <1>7. PagesOf(PieceFor(b)) \subseteq Spans
    <2>1. heap.free_start \in FreeStarts  BY <1>5, PoolFree
    <2>2. Divides(heap.free_start, Held(K) \cup Shelf(S), L)  BY <1>5 DEF Pool
    <2>3. PieceFor(b) \in Piece /\ Fits(heap.free_start, PieceFor(b))
      BY <1>5, <1>6, <2>2, HeldPiece DEF Divides
    <2>4. PagesOf(PieceFor(b)) \subseteq CutSpans(heap.free_start)  BY <2>1, <2>3, PieceSpans
    <2> QED  BY <2>4 DEF CutSpans
  <1> QED  BY <1>4, <1>7

\* The state of HPNMalloc has its types.
LEMMA GoodTyped == Good({}) => TypeOK
  <1>1. SUFFICES ASSUME Good({})  PROVE TypeOK  OBVIOUS
  <1>2. PICK K, C : HeapGood({}, heap, K, C, foreground, th, live)  BY <1>1 DEF Good
  <1>3. PICK S, L : Pool(Lowest, heap, S, Held(K), L)  BY <1>2 DEF HeapGood
  <1>4. ASSUME NEW s \in Spans
        PROVE  /\ heap.hdr[s].category \in Class \cup {0, LARGE}
               /\ heap.hdr[s].bitmap \subseteq 1..PageUnits
               /\ heap.hdr[s].free_block_num \in 0..PageUnits
               /\ heap.hdr[s].wear_count \in Nat
    <2>1. HeaderGood(heap.hdr[s])  BY <1>2 DEF HeapGood, HeadersGood
    <2>2. heap.hdr[s] \in HeaderType  BY <1>3 DEF Pool, HeapType
    <2> QED  BY <2>1, <2>2 DEF HeaderGood, HeaderType
  <1>5. ASSUME NEW t \in Thread
        PROVE  /\ th[t].pc \in PCs
               /\ th[t].span \in Spans \cup {NULL}
               /\ threshold[t] = 0 \/ threshold[t] >= FIXED_THRESHOLD
               /\ \A b \in live[t] : Cells(b) \subseteq Spans \X (1..PageUnits)
    <2>1. th[t] \in CallType /\ threshold \in Thresholds  BY <1>1 DEF Good, StateType
    <2>2. threshold[t] = 0 \/ threshold[t] >= FIXED_THRESHOLD  BY <2>1 DEF Thresholds
    <2> QED  BY <1>1, <2>1, <2>2, CellsTyped DEF CallType
  <1>6. /\ foreground \in [Thread -> [Class -> Spans \cup {NULL}]]
        /\ calls \in [Thread -> 0..MaxCalls]
        /\ strayed \in BOOLEAN
    BY <1>1 DEF Good, StateType
  <1>7. owner \in [Area -> Thread \cup {NoOne}]  BY <1>1 DEF Good, LocksGood
  <1> QED  BY <1>4, <1>5, <1>6, <1>7 DEF TypeOK

\* The variables keep their types for as long as no list_del has strayed.
THEOREM TypesKept ==
  ASSUME ~RemoteFree
  PROVE  Spec => [](strayed \/ TypeOK)
  <1>1. IInv => strayed \/ TypeOK  BY GoodTyped DEF IInv
  <1> QED  BY <1>1, Invariant, PTL

-----------------------------------------------------------------------------
\* These steps leave the heap alone; the others show in the program counter
\* or in the blocks of their thread.
LEMMA QuietSteps ==
  ASSUME NEW t \in Thread,
         \/ \E i : CallSmall(t, i)
         \/ \E n : CallLarge(t, n)
         \/ \E b : FreeLarge(t, b)
         \/ Select(t) \/ TryLock(t) \/ LockAccount(t) \/ Return(t) \/ LockGiveBack(t) \/ Exit(t)
  PROVE  heap' = heap
  <1>1. \A i : CallSmall(t, i) => heap' = heap  BY Zenon DEF CallSmall
  <1>2. \A n : CallLarge(t, n) => heap' = heap  BY Zenon DEF CallLarge
  <1>3. \A b : FreeLarge(t, b) => heap' = heap  BY Zenon DEF FreeLarge
  <1>4. Select(t) => heap' = heap  BY Zenon DEF Select
  <1>5. TryLock(t) => heap' = heap  BY Zenon DEF TryLock
  <1>6. LockAccount(t) => heap' = heap  BY Zenon DEF LockAccount
  <1>7. Return(t) => heap' = heap  BY Zenon DEF Return
  <1>8. LockGiveBack(t) => heap' = heap  BY Zenon DEF LockGiveBack
  <1>9. Exit(t) => heap' = heap  BY Zenon DEF Exit
  <1> QED  BY <1>1, <1>2, <1>3, <1>4, <1>5, <1>6, <1>7, <1>8, <1>9

\* A free shows in the blocks of its thread.
LEMMA FreeingSeen ==
  ASSUME NEW X, ~RemoteFree, Good(X), NEW t \in Thread, NEW b \in Freeable(t),
         FreeSome(t, b) \/ FreeLast(t, b)
  PROVE  live'[t] # live[t]
  <1>1. th[t].pc = "idle" /\ live' = Without(b)
    <2>1. FreeSome(t, b) => At(t, "idle") /\ live' = Without(b)  BY Zenon DEF FreeSome
    <2>2. FreeLast(t, b) => At(t, "idle") /\ live' = Without(b)  BY Zenon DEF FreeLast
    <2> QED  BY <2>1, <2>2 DEF At
  <1>2. Gone(live, live', t, b)  BY <1>1, FreeOf
  <1> QED  BY <1>2 DEF Gone

\* The other steps that change the heap show in the program counter.
LEMMA GoingSeen ==
  ASSUME th \in [Thread -> CallType], NEW t \in Thread,
         \/ AcquireLocal(t) \/ FillSmall(t) \/ FillLarge(t)
         \/ Clock(t) \/ ClockRefuses(t) \/ GiveBack(t)
  PROVE  th'[t].pc # th[t].pc
  <1>1. ASSUME NEW r, Goto(t, r)  PROVE th'[t] = r  BY <1>1 DEF Goto
  <1>2. th[t] \in CallType  OBVIOUS
  <1>3. CASE AcquireLocal(t)
    <2>1. /\ At(t, "acquire")
          /\ \/ \E s : Goto(t, [th[t] EXCEPT !.pc = "clock", !.span = s])
             \/ Goto(t, [th[t] EXCEPT !.pc = "select"])
      BY <1>3, Zenon DEF AcquireLocal
    <2>2. th[t].pc = "acquire"  BY <2>1 DEF At
    <2>3. CASE \E s : Goto(t, [th[t] EXCEPT !.pc = "clock", !.span = s])
      <3>1. PICK s : th'[t] = [th[t] EXCEPT !.pc = "clock", !.span = s]  BY <1>1, <2>3
      <3>2. th'[t].pc = "clock"  BY <1>2, <3>1 DEF CallType
      <3> QED  BY <2>2, <3>2
    <2>4. CASE Goto(t, [th[t] EXCEPT !.pc = "select"])
      <3>1. th'[t] = [th[t] EXCEPT !.pc = "select"]  BY <1>1, <2>4
      <3>2. th'[t].pc = "select"  BY <1>2, <3>1 DEF CallType
      <3> QED  BY <2>2, <3>2
    <2> QED  BY <2>1, <2>3, <2>4
  <1>4. CASE FillSmall(t)
    <2>1. /\ At(t, "fill")
          /\ \E s : Goto(t, [th[t] EXCEPT !.pc = "clock", !.span = s])
      BY <1>4, Zenon DEF FillSmall
    <2>2. PICK s : th'[t] = [th[t] EXCEPT !.pc = "clock", !.span = s]  BY <1>1, <2>1
    <2>3. th'[t].pc = "clock"  BY <1>2, <2>2 DEF CallType
    <2> QED  BY <2>1, <2>3 DEF At
  <1>5. CASE FillLarge(t)
    <2>1. /\ At(t, "fill")
          /\ \E s, b : Goto(t, [th[t] EXCEPT !.pc = "account", !.span = s, !.addr = b])
      BY <1>5, Zenon DEF FillLarge
    <2>2. PICK s, b : th'[t] = [th[t] EXCEPT !.pc = "account", !.span = s, !.addr = b]
      BY <1>1, <2>1
    <2>3. th'[t].pc = "account"  BY <1>2, <2>2 DEF CallType
    <2> QED  BY <2>1, <2>3 DEF At
  <1>6. CASE Clock(t)
    <2>1. /\ At(t, "clock")
          /\ \E b : Goto(t, [th[t] EXCEPT !.pc = "account", !.addr = b])
      BY <1>6, Zenon DEF Clock
    <2>2. PICK b : th'[t] = [th[t] EXCEPT !.pc = "account", !.addr = b]  BY <1>1, <2>1
    <2>3. th'[t].pc = "account"  BY <1>2, <2>2 DEF CallType
    <2> QED  BY <2>1, <2>3 DEF At
  <1>7. CASE ClockRefuses(t)
    <2>1. /\ At(t, "clock")
          /\ \/ Goto(t, [th[t] EXCEPT !.pc = "giveback"])
             \/ Goto(t, [th[t] EXCEPT !.pc = "acquire", !.span = NULL])
      BY <1>7, Zenon DEF ClockRefuses
    <2>2. \/ th'[t] = [th[t] EXCEPT !.pc = "giveback"]
          \/ th'[t] = [th[t] EXCEPT !.pc = "acquire", !.span = NULL]
      BY <1>1, <2>1
    <2>3. th'[t].pc \in {"giveback", "acquire"}  BY <1>2, <2>2 DEF CallType
    <2> QED  BY <2>1, <2>3 DEF At
  <1>8. CASE GiveBack(t)
    <2>1. /\ At(t, "giving")
          /\ \/ Goto(t, Idle)
             \/ Goto(t, [th[t] EXCEPT !.pc = "acquire", !.span = NULL])
      <3>1. /\ At(t, "giving")
            /\ Goto(t, IF Large(t) THEN Idle ELSE [th[t] EXCEPT !.pc = "acquire", !.span = NULL])
        BY <1>8, Zenon DEF GiveBack
      <3>2. CASE Large(t)  BY <3>1, <3>2
      <3>3. CASE ~Large(t)  BY <3>1, <3>3
      <3> QED  BY <3>2, <3>3
    <2>2. \/ th'[t] = Idle
          \/ th'[t] = [th[t] EXCEPT !.pc = "acquire", !.span = NULL]
      BY <1>1, <2>1
    <2>3. Idle.pc = "idle"  BY DEF Idle
    <2>4. th'[t] = Idle => th'[t].pc = "idle"  BY <2>3
    <2>5. th'[t] = [th[t] EXCEPT !.pc = "acquire", !.span = NULL] => th'[t].pc = "acquire"
      BY <1>2 DEF CallType
    <2>6. th[t].pc = "giving"  BY <2>1 DEF At
    <2> QED  BY <2>2, <2>4, <2>5, <2>6
  <1> QED  BY <1>3, <1>4, <1>5, <1>6, <1>7, <1>8

\* A step in order leaves the headers of the blocks of every thread that it
\* is not a step of, or that has not moved, as they were.
LEMMA StepSpares ==
  ASSUME ~RemoteFree, Good({}), FrontsGood, NEW u \in Thread, Calls(u) \/ Progress(u) \/ Exit(u), ~strayed',
         NEW t \in Thread, th'[t] = th[t], live'[t] = live[t], NEW b \in InUse(t)
  PROVE  heap'.hdr[b.span] = heap.hdr[b.span]
  <1>1. CASE t # u
    <2>1. Untouched(heap, heap', u, th, live)  BY StepGood DEF After
    <2>2. b \in Blocks(th[t], live[t])  BY BlocksInUse
    <2> QED  BY <1>1, <2>1, <2>2 DEF Untouched
  <1>2. CASE t = u
    <2>1. ~ \E x \in Freeable(t) : FreeSome(t, x) \/ FreeLast(t, x)  BY FreeingSeen
    <2>2. ~(\/ AcquireLocal(t) \/ FillSmall(t) \/ FillLarge(t)
            \/ Clock(t) \/ ClockRefuses(t) \/ GiveBack(t))
      BY GoingSeen, CallOf
    <2>3. \/ \E i : CallSmall(t, i)
          \/ \E n : CallLarge(t, n)
          \/ \E x : FreeLarge(t, x)
          \/ Select(t) \/ TryLock(t) \/ LockAccount(t) \/ Return(t) \/ LockGiveBack(t) \/ Exit(t)
      BY <1>2, <2>1, <2>2 DEF Calls, Progress
    <2>4. heap' = heap  BY <2>3, QuietSteps
    <2> QED  BY <2>4
  <1> QED  BY <1>1, <1>2

\* A thread that takes no part in a step finds the headers of its blocks as
\* they were, although the threads work on the same pools without a common
\* lock.
THEOREM OthersLeftAlone ==
  ASSUME ~RemoteFree
  PROVE  Spec /\ []NotYetStrayed => OthersUntouched
  <1> DEFINE Calm == \A t \in Thread : th'[t] = th[t] /\ live'[t] = live[t] =>
                       \A b \in InUse(t) : heap'.hdr[b.span] = heap.hdr[b.span]
  <1>1. IInv /\ NotYetStrayed /\ NotYetStrayed' /\ [Next]_vars => [Calm]_vars
    <2>1. SUFFICES ASSUME IInv, NotYetStrayed, NotYetStrayed', Next  PROVE Calm
      OBVIOUS
    <2>2. PICK u \in Thread : Calls(u) \/ Progress(u) \/ Exit(u)  BY <2>1 DEF Next
    <2>3. Good({}) /\ FrontsGood /\ ~strayed'  BY <2>1 DEF IInv, NotYetStrayed
    <2> QED  BY <2>2, <2>3, StepSpares
  <1> QED  BY <1>1, Invariant, PTL DEF Spec, OthersUntouched

-----------------------------------------------------------------------------
\* The block a call returns is one there can be.
LEMMA BlockKnown ==
  ASSUME NEW X, Good(X), NEW t \in Thread, NEW b \in InUse(t)
  PROVE  b \in SmallBlocks \cup LargeBlocks
  <1>1. PICK K, C : HeapGood(X, heap, K, C, foreground, th, live)  BY DEF Good
  <1>2. b \in Blocks(th[t], live[t])  BY BlocksInUse
  <1>3. b.span \in Spans /\ BlockGood(heap, K[t], Blocks(th[t], live[t]), b)
    BY <1>1, <1>2, HeaderFound
  <1>4. b \in BlockType  BY <1>2, BlocksTyped
  <1>5. b = Block(b.span, b.pos, b.size)  BY <1>4 DEF BlockType, Block
  <1>6. CASE b.pos = 0
    <2>1. b.size \in LargeSize  BY <1>3, <1>6 DEF BlockGood, LargeGood
    <2> QED  BY <1>3, <1>5, <1>6, <2>1 DEF LargeBlocks
  <1>7. CASE b.pos # 0
    <2>1. PICK i \in Class : /\ b.pos \in 1..TotalBlocks(i) /\ b.size = i + 1
      BY <1>3, <1>7 DEF BlockGood, SmallGood, Serves
    <2> QED  BY <1>3, <1>5, <2>1 DEF SmallBlocks
  <1> QED  BY <1>6, <1>7

\* Only Return and the frees change what a thread holds.
LEMMA LiveKept ==
  ASSUME NEW t \in Thread, Calls(t) \/ Progress(t) \/ Exit(t)
  PROVE  \/ live' = live
         \/ Return(t)
         \/ \E b \in Freeable(t) : th[t].pc = "idle" /\ live' = Without(b)
  <1>1. \A i : CallSmall(t, i) => live' = live  BY Zenon DEF CallSmall
  <1>2. \A n : CallLarge(t, n) => live' = live  BY Zenon DEF CallLarge
  <1>3. \A b : FreeSome(t, b) => th[t].pc = "idle" /\ live' = Without(b)
    BY Zenon DEF FreeSome, At
  <1>4. \A b : FreeLast(t, b) => th[t].pc = "idle" /\ live' = Without(b)
    BY Zenon DEF FreeLast, At
  <1>5. \A b : FreeLarge(t, b) => th[t].pc = "idle" /\ live' = Without(b)
    BY Zenon DEF FreeLarge, At
  <1>6. AcquireLocal(t) => live' = live  BY Zenon DEF AcquireLocal
  <1>7. Select(t) => live' = live  BY Zenon DEF Select
  <1>8. TryLock(t) => live' = live  BY Zenon DEF TryLock
  <1>9. FillSmall(t) => live' = live  BY Zenon DEF FillSmall
  <1>10. FillLarge(t) => live' = live  BY Zenon DEF FillLarge
  <1>11. Clock(t) => live' = live  BY Zenon DEF Clock
  <1>12. ClockRefuses(t) => live' = live  BY Zenon DEF ClockRefuses
  <1>13. LockAccount(t) => live' = live  BY Zenon DEF LockAccount
  <1>14. LockGiveBack(t) => live' = live  BY Zenon DEF LockGiveBack
  <1>15. GiveBack(t) => live' = live  BY Zenon DEF GiveBack
  <1>16. Exit(t) => live' = live  BY Zenon DEF Exit
  <1> QED
    BY <1>1, <1>2, <1>3, <1>4, <1>5, <1>6, <1>7, <1>8, <1>9, <1>10, <1>11, <1>12, <1>13,
       <1>14, <1>15, <1>16 DEF Calls, Progress

\* The return of a call is a Malloc of the abstract allocator.
LEMMA ReturnMallocs ==
  ASSUME Good({}), NEW t \in Thread, Return(t)
  PROVE  Abstract!Malloc(t)
  <1>1. th[t].pc = "accounting" /\ live' = [live EXCEPT ![t] = @ \cup {th[t].addr}]
    BY Zenon DEF Return, At
  <1>2. PICK k, x : k \in SUBSET Piece /\ CallGood(heap, k, x, foreground[t], th[t], live[t])
    BY CallOf
  <1>3. th[t].addr # <<>>
    <2>1. th[t].addr \in BlockType  BY <1>1, <1>2 DEF CallGood, Answering
    <2> QED  BY <2>1, BlockThere
  <1>4. PICK b : b = th[t].addr  OBVIOUS
  <1>5. b \in Pending(t) /\ b \in InUse(t)  BY <1>3, <1>4 DEF Pending, InUse
  <1>6. b \in SmallBlocks \cup LargeBlocks  BY <1>5, BlockKnown
  <1>7. \A u \in Thread : \A c \in live[u] : Cells(b) \cap Cells(c) = {}
    BY <1>5, GoodApart DEF NoOverlap, Overlap
  <1>8. live' = [live EXCEPT ![t] = @ \cup {b}]  BY <1>1, <1>4
  <1> QED  BY <1>6, <1>7, <1>8 DEF Abstract!Malloc

\* A free is a Free of it.
LEMMA FreeFrees ==
  ASSUME NEW X, ~RemoteFree, Good(X), NEW t \in Thread, NEW b \in Freeable(t), th[t].pc = "idle",
         live' = Without(b)
  PROVE  Abstract!Free(t)
  <1>1. Gone(live, live', t, b) /\ live' \in [Thread -> SUBSET BlockType]  BY FreeOf
  <1>2. live \in [Thread -> SUBSET BlockType]  BY CallOf
  <1>3. live' = [live EXCEPT ![t] = @ \ {b}]  BY <1>1, <1>2 DEF Gone, Only
  <1>4. b \in live[t]  BY <1>1 DEF Gone
  <1> QED  BY <1>3, <1>4 DEF Abstract!Free

\* hpnmalloc and hpnfree implement the abstract allocator: seen from the
\* blocks in the hands of the threads, a call takes effect in one step, at
\* its return, and a free at its start.
THEOREM Implements ==
  ASSUME ~RemoteFree
  PROVE  Spec /\ []NotYetStrayed => ImplementsBlockAllocator
  <1>1. Init => Abstract!Init  BY DEF Init, Abstract!Init
  <1>2. IInv /\ NotYetStrayed /\ [Next]_vars => [Abstract!Next]_live
    <2>1. SUFFICES ASSUME IInv, NotYetStrayed, [Next]_vars
                   PROVE  Abstract!Next \/ live' = live
      OBVIOUS
    <2>2. Good({})  BY <2>1 DEF IInv, NotYetStrayed
    <2>3. CASE UNCHANGED vars  BY <2>3 DEF vars
    <2>4. CASE Next
      <3>1. PICK t \in Thread : Calls(t) \/ Progress(t) \/ Exit(t)  BY <2>4 DEF Next
      <3>2. CASE Return(t)  BY <2>2, <3>2, ReturnMallocs DEF Abstract!Next
      <3>3. CASE \E b \in Freeable(t) : th[t].pc = "idle" /\ live' = Without(b)
        BY <2>2, <3>3, FreeFrees DEF Abstract!Next
      <3> QED  BY <3>1, <3>2, <3>3, LiveKept
    <2> QED  BY <2>1, <2>3, <2>4
  <1> QED  BY <1>1, <1>2, Invariant, PTL DEF Spec, ImplementsBlockAllocator, Abstract!Spec

-----------------------------------------------------------------------------
\* The pages within the reach of thread t, with foreground f, call l and blocks
\* use on heap h, and those within the reach of anybody.
CacheOf(h, t, f, l) ==
  IF l.pc = "gone" THEN {}
  ELSE ({f[c] : c \in Class} \ {NULL}) \cup On(h, FreeSpans(t))
       \cup UNION {On(h, n) : n \in {Background(t, c) : c \in Class}
                                      \cup {NAvaliable(t, c) : c \in Class}}
PagesAt(h, s)   == ExtentOf(s, IF h.hdr[s].category = LARGE THEN h.hdr[s].page_num ELSE 1)
CallPages(h, l) == IF l.span = NULL THEN {} ELSE PagesAt(h, l.span)
PagesIn(b)      == IF b.pos = 0 THEN ExtentOf(b.span, b.size) ELSE {b.span}
ReachOf(h, t, f, l, use) ==
  CacheOf(h, t, f, l) \cup CallPages(h, l) \cup UNION {PagesIn(b) : b \in use}
PoolPages(h) ==
  UNION {ExtentOf(s, h.hdr[s].page_num) : s \in UNION {InCentral(h, a) : a \in Area}}
AllReach(h, f, l, bl) ==
  PoolPages(h) \cup UNION {ReachOf(h, t, f[t], l[t], Blocks(l[t], bl[t])) : t \in Thread}

\* They are the pages kept.
LEMMA KeptSeen ==
  /\ Kept = AllReach(heap, foreground, th, live)
  /\ \A t \in Thread : InCache(t) = CacheOf(heap, t, foreground[t], th[t])
  <1>1. \A t \in Thread : InCache(t) = CacheOf(heap, t, foreground[t], th[t])
    BY DEF InCache, CacheOf, At, On
  <1>2. \A s : PagesUnder(s) = PagesAt(heap, s)  BY DEF PagesUnder, PagesAt
  <1>3. \A t \in Thread : InUse(t) = Blocks(th[t], live[t])  BY BlocksInUse
  <1>4. ASSUME NEW x
        PROVE  x \in Kept <=> x \in AllReach(heap, foreground, th, live)
    <2>1. x \in Kept <=>
            \/ x \in PoolPages(heap)
            \/ \E t \in Thread : x \in InCache(t)
            \/ \E t \in Thread : th[t].span # NULL /\ x \in PagesUnder(th[t].span)
            \/ \E t \in Thread : \E b \in InUse(t) : x \in PagesIn(b)
      BY DEF Kept, PoolPages, PagesIn
    <2>2. x \in AllReach(heap, foreground, th, live) <=>
            \/ x \in PoolPages(heap)
            \/ \E t \in Thread : \/ x \in CacheOf(heap, t, foreground[t], th[t])
                                 \/ x \in CallPages(heap, th[t])
                                 \/ \E b \in Blocks(th[t], live[t]) : x \in PagesIn(b)
      BY DEF AllReach, ReachOf
    <2>3. \A t \in Thread : x \in CallPages(heap, th[t])
                              <=> th[t].span # NULL /\ x \in PagesAt(heap, th[t].span)
      BY DEF CallPages
    <2> QED  BY <1>1, <1>2, <1>3, <2>1, <2>2, <2>3, Zenon
  <1> QED  BY <1>1, <1>4

\* So they are after a step.
LEMMA KeptNext == Kept' = AllReach(heap', foreground', th', live')
  <1>1. (Kept = AllReach(heap, foreground, th, live))'  BY KeptSeen, PTL
  <1> QED  BY <1>1

\* A walk of a list of a cache finds what is on it.
LEMMA CacheWalk ==
  ASSUME NEW h, NEW t \in Thread, NEW k, NEW c \in Caches, ListsGood(h, t, k, c),
         NEW j \in ListNo
  PROVE  On(h, HeadOf(t, j)) = c[j]
  <1>1. Ring(h, HeadOf(t, j), c[j]) /\ c[j] \in SUBSET Spans  BY DEF ListsGood, Caches
  <1>2. PICK m \in SUBSET Spans : m = c[j]  BY <1>1
  <1>3. /\ IsFiniteSet(m) /\ AREA_NUM * AreaPages \in Nat
        /\ Cardinality(m) <= AREA_NUM * AreaPages
    BY <1>2, ListFinite
  <1> QED  BY <1>1, <1>2, <1>3, EntriesRing DEF On

\* The pieces of a thread start at different spans of theirs.
Owns(k) == \A e \in k : /\ e \in Piece /\ e.at \in Spans /\ e.at \in PagesOf(e)
                        /\ \A d \in k : d.at = e.at => d = e

\* The pieces of a thread in a heap in order are such.
LEMMA PiecesOwn ==
  ASSUME NEW X, NEW h, NEW K, NEW C, NEW f, NEW l, NEW bl, HeapGood(X, h, K, C, f, l, bl),
         NEW t \in Thread
  PROVE  Owns(K[t])
  <1>1. PICK S, L : Pool(Lowest, h, S, Held(K), L)  BY DEF HeapGood
  <1>2. \A e \in K[t] : e \in Held(K)  BY DEF Held
  <1>3. ASSUME NEW e \in Held(K)
        PROVE  /\ e \in Piece /\ e.at \in Spans /\ e.at \in PagesOf(e)
               /\ \A d \in Held(K) : d.at = e.at => d = e
    <2>1. e \in Piece /\ e.at \in Spans /\ \A d \in Held(K) : d.at = e.at => d = e
      BY <1>1, HeldPiece
    <2>2. h.free_start \in FreeStarts /\ Fits(h.free_start, e)
      <3>1. Divides(h.free_start, Held(K) \cup Shelf(S), L)  BY <1>1 DEF Pool
      <3>2. Fits(h.free_start, e)  BY <3>1 DEF Divides
      <3> QED  BY <1>1, <3>2, PoolFree
    <2> QED  BY <2>1, <2>2, PieceSpans
  <1> QED  BY <1>2, <1>3 DEF Owns

\* A piece of one page is its page.
LEMMA OnePage ==
  ASSUME NEW s \in Spans
  PROVE  PagesOf(One(s)) = {s} /\ One(s).at = s
  <1>1. s \in Int /\ s..s + 1 - 1 = {s}  BY Sizes DEF Spans
  <1> QED  BY <1>1 DEF PagesOf, One, ExtentOf

\* Span s is on a list of the cache of a thread that runs, or in its foreground.
Caching(c, f, l, s) ==
  l.pc # "gone" /\ (OnCache(c, s) \/ (s # NULL /\ \E i \in Class : s = f[i]))

\* So the model finds it in the cache.
LEMMA CacheReach ==
  ASSUME NEW h, NEW t \in Thread, NEW k, NEW c \in Caches, NEW f, NEW l, NEW bl,
         ThreadGood(h, t, k, c, f, l, bl), NEW x
  PROVE  x \in CacheOf(h, t, f, l) <=> Caching(c, f, l, x)
  <1>1. ListsGood(h, t, k, c) /\ ReachedGood(h, c, f, l, Blocks(l, bl))  BY DEF ThreadGood
  <1>2. \A j \in ListNo : On(h, HeadOf(t, j)) = c[j]  BY <1>1, CacheWalk
  <1>3. On(h, FreeSpans(t)) = c[0]  BY <1>2, ListNumbers
  <1>4. ASSUME NEW i \in Class
        PROVE  /\ On(h, Background(t, i)) = c[BackNo(i)] /\ BackNo(i) \in ListNo
               /\ On(h, NAvaliable(t, i)) = c[NotNo(i)] /\ NotNo(i) \in ListNo
    <2>1. i \in 0..PageUnits - 1  BY ClassBlocks
    <2> QED  BY <1>2, <2>1, ListNumbers
  <1>5. ASSUME NEW j \in ListNo, x \in c[j], j # 0
        PROVE  \E i \in Class : x \in On(h, Background(t, i)) \/ x \in On(h, NAvaliable(t, i))
    <2>1. PICK i \in 0..PageUnits - 1 : j = BackNo(i) \/ j = NotNo(i)  BY <1>5, ListNumbers
    <2>2. h.hdr[x].category = i  BY <1>1, <1>5, <2>1 DEF ListsGood
    <2>3. Reached(c, f, l, x)  BY <1>5 DEF Reached
    <2>4. h.hdr[x].category \in Class  BY <1>1, <2>3 DEF ReachedGood, Serves
    <2> QED  BY <1>4, <1>5, <2>1, <2>2, <2>4
  <1>6. OnCache(c, x) <=> \/ x \in On(h, FreeSpans(t))
                          \/ \E i \in Class : \/ x \in On(h, Background(t, i))
                                              \/ x \in On(h, NAvaliable(t, i))
    BY <1>3, <1>4, <1>5, ListNumbers DEF OnCache
  <1>7. x \in CacheOf(h, t, f, l) <=>
          /\ l.pc # "gone"
          /\ \/ x # NULL /\ \E i \in Class : x = f[i]
             \/ x \in On(h, FreeSpans(t))
             \/ \E i \in Class : x \in On(h, Background(t, i)) \/ x \in On(h, NAvaliable(t, i))
    BY DEF CacheOf
  <1> QED  BY <1>6, <1>7 DEF Caching

\* The pages of a block are the piece it lies in.
LEMMA BlockPiece ==
  ASSUME NEW h, NEW k, NEW use, NEW b, BlockGood(h, k, use, b), b.span \in Spans
  PROVE  PieceFor(b) \in k /\ PieceFor(b).at = b.span /\ PagesOf(PieceFor(b)) = PagesIn(b)
  <1>1. PieceFor(b) \in k /\ PieceFor(b).at = b.span  BY BlockCells
  <1>2. CASE b.pos = 0  BY <1>1, <1>2 DEF PieceFor, PagesOf, PagesIn
  <1>3. CASE b.pos # 0
    <2>1. PieceFor(b) = One(b.span)  BY <1>3 DEF PieceFor, One
    <2> QED  BY <1>1, <1>3, <2>1, OnePage DEF PagesIn
  <1> QED  BY <1>1, <1>2, <1>3

\* The pages of the span a call has in hand are a piece within reach.
LEMMA CallReach ==
  ASSUME NEW h, NEW t \in Thread, NEW k, Owns(k), NEW c, NEW f, NEW l, NEW bl,
         ThreadGood(h, t, k, c, f, l, bl), Fronted(l, f), l.span # NULL,
         \A b \in Blocks(l, bl) : b.span \in Spans /\ BlockGood(h, k, Blocks(l, bl), b)
  PROVE  \E e \in k : /\ e.at = l.span /\ PagesOf(e) = PagesAt(h, l.span)
                      /\ KeptAt(c, f, l, Blocks(l, bl), e.at)
  <1> DEFINE use == Blocks(l, bl)
             s   == l.span
  <1>1. CallGood(h, k, c, f, l, bl)  BY DEF ThreadGood
  <1>2. LARGE \notin Class  BY ClassBlocks
  <1>3. CASE l.pc = "clock"
    <2>1. One(s) \in k /\ h.hdr[s].category \in Class  BY <1>1, <1>3 DEF CallGood, ChosenGood
    <2>2. PagesAt(h, s) = PagesOf(One(s)) /\ One(s).at = s
      BY <1>2, <2>1 DEF PagesAt, PagesOf, One
    <2>3. KeptAt(c, f, l, use, s)  BY <1>3 DEF KeptAt
    <2> QED  BY <2>1, <2>2, <2>3
  <1>4. CASE l.pc \in GivingUp
    <2>1. Whole(h, s) \in k  BY <1>1, <1>4 DEF CallGood, GivenUpGood, Whole
    <2>2. PagesAt(h, s) = PagesOf(Whole(h, s)) /\ Whole(h, s).at = s
      BY DEF PagesAt, PagesOf, Whole
    <2>3. KeptAt(c, f, l, use, s)  BY <1>4 DEF KeptAt
    <2> QED  BY <2>1, <2>2, <2>3
  <1>5. CASE l.pc \in Answering
    <2>1. PICK b : b = l.addr  OBVIOUS
    <2>2. b \in BlockType /\ b.span = s  BY <1>1, <1>5, <2>1 DEF CallGood
    <2>3. b \in use
      <3>1. b # <<>>  BY <2>2, BlockThere
      <3> QED  BY <2>1, <3>1 DEF Blocks
    <2>4. BlockGood(h, k, use, b) /\ b.span \in Spans  BY <2>3
    <2>5. PieceFor(b) \in k /\ PieceFor(b).at = s /\ PagesOf(PieceFor(b)) = PagesIn(b)
      BY <2>2, <2>4, BlockPiece
    <2>6. PagesIn(b) = PagesAt(h, s)
      <3>1. CASE b.pos = 0
        BY <2>2, <2>4, <3>1 DEF BlockGood, LargeGood, PagesIn, PagesAt
      <3>2. CASE b.pos # 0
        <4>1. h.hdr[s].category \in Class
          BY <2>2, <2>4, <3>2 DEF BlockGood, SmallGood, Serves
        <4>2. PagesAt(h, s) = PagesOf(One(s))  BY <1>2, <4>1 DEF PagesAt, PagesOf, One
        <4>3. PagesOf(One(s)) = {s}  BY <2>2, <2>4, OnePage
        <4> QED  BY <2>2, <3>2, <4>2, <4>3 DEF PagesIn
      <3> QED  BY <3>1, <3>2
    <2>7. KeptAt(c, f, l, use, s)
      <3>1. b \in Mates(use, s)  BY <2>2, <2>3 DEF Mates
      <3> QED  BY <3>1 DEF KeptAt
    <2> QED  BY <2>5, <2>6, <2>7
  <1>6. l.pc \in {"clock"} \cup Answering \cup GivingUp  BY DEF Fronted
  <1> QED  BY <1>3, <1>4, <1>5, <1>6

\* A page is within the reach of a thread just if it is in a piece of the
\* thread that is.
LEMMA ThreadReach ==
  ASSUME NEW X, NEW h, NEW K, NEW C, NEW f, NEW l, NEW bl, HeapGood(X, h, K, C, f, l, bl),
         NEW t \in Thread, Fronted(l[t], f[t]), NEW x
  PROVE  x \in ReachOf(h, t, f[t], l[t], Blocks(l[t], bl[t]))
           <=> \E e \in K[t] : /\ x \in PagesOf(e)
                               /\ KeptAt(C[t], f[t], l[t], Blocks(l[t], bl[t]), e.at)
  <1>1. PICK k, c, u, r, o : k = K[t] /\ c = C[t] /\ u = f[t] /\ r = l[t] /\ o = bl[t]
    OBVIOUS
  <1>2. PICK use : use = Blocks(r, o)  OBVIOUS
  <1>3. ThreadGood(h, t, k, c, u, r, o) /\ c \in Caches  BY <1>1 DEF HeapGood
  <1>4. Owns(k)  BY <1>1, PiecesOwn
  <1>5. \A b \in use : b.span \in Spans /\ BlockGood(h, k, use, b)  BY <1>1, <1>2, HeaderFound
  <1>6. Fronted(r, u)  BY <1>1
  <1>7. x \in CacheOf(h, t, u, r) <=> Caching(c, u, r, x)
    BY <1>3, CacheReach
  <1>8. r.span # NULL => \E e \in k : /\ e.at = r.span /\ PagesOf(e) = PagesAt(h, r.span)
                                      /\ KeptAt(c, u, r, use, e.at)
    BY <1>2, <1>3, <1>4, <1>5, <1>6, CallReach
  <1>9. \A b \in use : /\ PieceFor(b) \in k /\ PieceFor(b).at = b.span
                       /\ PagesOf(PieceFor(b)) = PagesIn(b)
    BY <1>5, BlockPiece
  <1>10. \A s : OnCache(c, s) \/ (s # NULL /\ \E i \in Class : s = u[i]) => One(s) \in k
    BY <1>3 DEF ThreadGood, ListsGood, ForegroundGood, OnCache
  <1>11. \A s : One(s) \in k => s \in Spans /\ PagesOf(One(s)) = {s} /\ One(s).at = s
    <2>1. TAKE s
    <2>2. HAVE One(s) \in k
    <2>3. One(s).at \in Spans  BY <1>4, <2>2 DEF Owns
    <2>4. s \in Spans  BY <2>3 DEF One
    <2> QED  BY <2>4, OnePage
  <1>12. ASSUME x \in ReachOf(h, t, u, r, use)
         PROVE  \E e \in k : x \in PagesOf(e) /\ KeptAt(c, u, r, use, e.at)
    <2>1. CASE x \in CacheOf(h, t, u, r)
      <3>1. One(x) \in k /\ KeptAt(c, u, r, use, x)  BY <1>7, <1>10, <2>1 DEF KeptAt, Caching
      <3> QED  BY <1>11, <3>1
    <2>2. CASE x \in CallPages(h, r)
      <3>1. r.span # NULL /\ x \in PagesAt(h, r.span)  BY <2>2 DEF CallPages
      <3> QED  BY <1>8, <3>1
    <2>3. CASE \E b \in use : x \in PagesIn(b)
      <3>1. PICK b \in use : x \in PagesIn(b)  BY <2>3
      <3>2. b \in Mates(use, PieceFor(b).at)  BY <1>9, <3>1 DEF Mates
      <3>3. KeptAt(c, u, r, use, PieceFor(b).at)  BY <3>2 DEF KeptAt
      <3> QED  BY <1>9, <3>1, <3>3
    <2> QED  BY <1>12, <2>1, <2>2, <2>3 DEF ReachOf
  <1>13. ASSUME NEW e \in k, x \in PagesOf(e), KeptAt(c, u, r, use, e.at)
         PROVE  x \in ReachOf(h, t, u, r, use)
    <2>1. \A d \in k : d.at = e.at => d = e  BY <1>4 DEF Owns
    <2>2. CASE Caching(c, u, r, e.at)
      <3>1. One(e.at) \in k  BY <1>10, <2>2 DEF Caching
      <3>2. x = e.at  BY <1>11, <1>13, <2>1, <3>1
      <3> QED  BY <1>7, <2>2, <3>2 DEF ReachOf
    <2>3. CASE Mates(use, e.at) # {}
      <3>1. PICK b \in use : b.span = e.at  BY <2>3 DEF Mates
      <3>2. PieceFor(b) = e  BY <1>9, <2>1, <3>1
      <3> QED  BY <1>9, <1>13, <3>1, <3>2 DEF ReachOf
    <2>4. CASE r.pc \in {"clock"} \cup GivingUp /\ e.at = r.span
      <3>1. r.span # NULL
        <4>1. e.at \in Spans  BY <1>4 DEF Owns
        <4>2. NULL \notin Spans  BY LowestNodes, NodesIn
        <4> QED  BY <2>4, <4>1, <4>2
      <3>2. PagesOf(e) = PagesAt(h, r.span)  BY <1>8, <2>1, <2>4, <3>1
      <3> QED  BY <1>13, <3>1, <3>2 DEF ReachOf, CallPages
    <2> QED  BY <1>13, <2>2, <2>3, <2>4 DEF KeptAt, Caching
  <1> QED  BY <1>1, <1>2, <1>12, <1>13

\* What is on the free lists of a pool are the pages of the pieces shelved.
LEMMA PoolReach ==
  ASSUME NEW h, NEW S, NEW H, NEW L, Pool(Lowest, h, S, H, L), NEW x
  PROVE  x \in PoolPages(h) <=> \E e \in Shelf(S) : x \in PagesOf(e)
  <1>1. S \in Shelves /\ Shelved(h, S)  BY DEF Pool
  <1>2. ASSUME NEW a \in Area, NEW i \in ListIndex  PROVE Listed(h, a, i) = S[a][i]
    <2>1. PICK m \in SUBSET Spans : m = S[a][i]  BY <1>1 DEF Shelves
    <2>2. Ring(h, FreeList(a, i), m)  BY <1>1, <2>1 DEF Shelved
    <2>3. /\ IsFiniteSet(m) /\ AREA_NUM * AreaPages \in Nat
          /\ Cardinality(m) <= AREA_NUM * AreaPages
      BY ListFinite
    <2> QED  BY <2>1, <2>2, <2>3, EntriesRing DEF Listed
  <1>3. x \in PoolPages(h)
          <=> \E a \in Area, i \in ListIndex : \E s \in S[a][i] : x \in ExtentOf(s, h.hdr[s].page_num)
    BY <1>2 DEF PoolPages, InCentral
  <1>4. ASSUME NEW a \in Area, NEW i \in ListIndex, NEW s \in S[a][i],
               x \in ExtentOf(s, h.hdr[s].page_num)
        PROVE  \E e \in Shelf(S) : x \in PagesOf(e)
    <2>1. PICK e : e = [at |-> s, pages |-> i + 1]  OBVIOUS
    <2>2. e \in Shelf(S)  BY <1>1, <2>1, ShelfPieces
    <2>3. h.hdr[s].page_num = i + 1  BY <1>1 DEF Shelved
    <2>4. PagesOf(e) = ExtentOf(s, h.hdr[s].page_num)  BY <2>1, <2>3 DEF PagesOf
    <2> QED  BY <1>4, <2>2, <2>4
  <1>5. ASSUME NEW e \in Shelf(S), x \in PagesOf(e)
        PROVE  \E a \in Area, i \in ListIndex : \E s \in S[a][i] :
                 x \in ExtentOf(s, h.hdr[s].page_num)
    <2>1. PICK a, i, s : a = AreaOf(e.at) /\ i = e.pages - 1 /\ s = e.at  OBVIOUS
    <2>2. e \in Piece /\ s \in S[a][i]  BY <2>1 DEF Shelf
    <2>3. s \in Spans /\ e.pages \in 1..LARGE /\ LARGE \in Nat  BY <2>1, <2>2, Sizes DEF Piece
    <2>4. a \in Area /\ i \in ListIndex /\ i + 1 = e.pages
      <3>1. a \in Area  BY <2>1, <2>3, PageOfSpan
      <3>2. i \in 0..LARGE - 1 /\ i + 1 = e.pages  BY <2>1, <2>3
      <3> QED  BY <2>3, <3>1, <3>2, Sizes DEF ListIndex
    <2>5. h.hdr[s].page_num = e.pages  BY <1>1, <2>2, <2>4 DEF Shelved
    <2>6. x \in ExtentOf(s, h.hdr[s].page_num)  BY <1>5, <2>1, <2>5 DEF PagesOf
    <2> QED  BY <2>2, <2>4, <2>6
  <1> QED  BY <1>3, <1>4, <1>5

\* The pages within reach are those of the pieces shelved, and of the pieces of
\* the threads that are within their reach.
LEMMA AllReachOf ==
  ASSUME NEW X, NEW h, NEW K, NEW C, NEW f, NEW l, NEW bl, HeapGood(X, h, K, C, f, l, bl),
         \A t \in Thread : Fronted(l[t], f[t]),
         NEW S, NEW L, Pool(Lowest, h, S, Held(K), L), NEW x
  PROVE  x \in AllReach(h, f, l, bl)
           <=> \/ \E e \in Shelf(S) : x \in PagesOf(e)
               \/ \E t \in Thread : \E e \in K[t] :
                    /\ x \in PagesOf(e)
                    /\ KeptAt(C[t], f[t], l[t], Blocks(l[t], bl[t]), e.at)
  <1> DEFINE R(t) == x \in ReachOf(h, t, f[t], l[t], Blocks(l[t], bl[t]))
             Q(t) == \E e \in K[t] : /\ x \in PagesOf(e)
                                     /\ KeptAt(C[t], f[t], l[t], Blocks(l[t], bl[t]), e.at)
  <1>1. \A t \in Thread : R(t) <=> Q(t)
    <2>1. TAKE t \in Thread
    <2>2. Fronted(l[t], f[t])  BY <2>1
    <2> QED  BY <2>1, <2>2, ThreadReach
  <1>2. x \in PoolPages(h) <=> \E e \in Shelf(S) : x \in PagesOf(e)  BY PoolReach
  <1>3. x \in AllReach(h, f, l, bl) <=> x \in PoolPages(h) \/ \E t \in Thread : R(t)
    BY DEF AllReach
  <1> HIDE DEF R
  <1>4. x \in AllReach(h, f, l, bl)
          <=> (\E e \in Shelf(S) : x \in PagesOf(e)) \/ \E t \in Thread : Q(t)
    BY <1>1, <1>2, <1>3
  <1> QED  BY <1>4

\* Those pages can be kept: no piece out of reach has one of them, ...
LEMMA ReachGood ==
  ASSUME NEW h, NEW K, NEW C, NEW f, NEW l, NEW bl, HeapGood({}, h, K, C, f, l, bl),
         \A t \in Thread : Fronted(l[t], f[t])
  PROVE  HeapGood(AllReach(h, f, l, bl), h, K, C, f, l, bl)
  <1> DEFINE At2(t, e) == KeptAt(C[t], f[t], l[t], Blocks(l[t], bl[t]), e.at)
  <1>1. PICK S, L : Pool(Lowest, h, S, Held(K), L)  BY DEF HeapGood
  <1>2. PICK X : X = AllReach(h, f, l, bl)  OBVIOUS
  <1>3. \A x \in X : \/ \E e \in Shelf(S) : x \in PagesOf(e)
                     \/ \E t \in Thread : \E e \in K[t] : x \in PagesOf(e) /\ At2(t, e)
    <2>1. TAKE x \in X
    <2>2. x \in AllReach(h, f, l, bl)  BY <1>2, <2>1
    <2> QED  BY <1>1, <2>2, AllReachOf
  <1> HIDE DEF At2
  <1>4. /\ Divides(h.free_start, Held(K) \cup Shelf(S), L) /\ h.free_start \in FreeStarts
        /\ Held(K) \cap Shelf(S) = {}
    BY <1>1, PoolFree DEF Pool
  <1>5. \A t \in Thread : \A e \in K[t] : e \in Held(K)  BY DEF Held
  <1>6. InReach(X, h, L)
    <2>1. ASSUME NEW e \in Held(K) \cup Shelf(S), NEW x \in PagesOf(e)
          PROVE  x \in Retained(h.free_start, L)
      <3>1. e \in Piece /\ Fits(h.free_start, e) /\ x \notin L  BY <1>4 DEF Divides
      <3>2. x \in CutSpans(h.free_start)  BY <1>4, <3>1, PieceSpans
      <3> QED  BY <3>1, <3>2 DEF Retained
    <2> QED  BY <1>3, <1>5, <2>1 DEF InReach
  <1>7. ASSUME NEW t \in Thread
        PROVE  Recalls(X, K[t], C[t], f[t], l[t], Blocks(l[t], bl[t]))
    <2>1. ASSUME NEW e \in K[t], NEW x \in X, x \in PagesOf(e)  PROVE At2(t, e)
      <3>1. ASSUME NEW d \in Shelf(S), x \in PagesOf(d)  PROVE FALSE
        <4>1. d # e  BY <1>4, <1>5
        <4>2. PagesOf(d) \cap PagesOf(e) = {}  BY <1>4, <1>5, <4>1 DEF Divides
        <4> QED  BY <2>1, <3>1, <4>2
      <3>2. PICK u \in Thread : \E d \in K[u] : x \in PagesOf(d) /\ At2(u, d)
        BY <1>3, <2>1, <3>1
      <3>3. PICK d \in K[u] : x \in PagesOf(d) /\ At2(u, d)  BY <3>2
      <3>4. u = t /\ d = e
        <4>1. PagesOf(d) \cap PagesOf(e) # {}  BY <2>1, <3>3
        <4> QED  BY <4>1, PiecesApart
      <3> QED  BY <3>3, <3>4
    <2> QED  BY <2>1 DEF Recalls, At2
  <1>8. HeapGood(X, h, K, C, f, l, bl)
    <2>1. \E R, M : Pool(Lowest, h, R, Held(K), M) /\ InReach(X, h, M)  BY <1>1, <1>6
    <2>2. /\ K \in [Thread -> SUBSET Piece] /\ C \in [Thread -> Caches]
          /\ \A t, u \in Thread : t # u => K[t] \cap K[u] = {}
          /\ HeadersGood(h)
          /\ \A t \in Thread : ThreadGood(h, t, K[t], C[t], f[t], l[t], bl[t])
      BY DEF HeapGood
    <2> QED  BY <1>7, <2>1, <2>2 DEF HeapGood
  <1> QED  BY <1>2, <1>8

\* ... and the pages that are kept are among them.
LEMMA ReachKept ==
  ASSUME NEW X, NEW h, NEW K, NEW C, NEW f, NEW l, NEW bl, HeapGood(X, h, K, C, f, l, bl),
         \A t \in Thread : Fronted(l[t], f[t])
  PROVE  X \subseteq AllReach(h, f, l, bl)
  <1>1. PICK S, L : Pool(Lowest, h, S, Held(K), L) /\ InReach(X, h, L)  BY DEF HeapGood
  <1>2. SUFFICES ASSUME NEW x \in X  PROVE x \in AllReach(h, f, l, bl)  OBVIOUS
  <1>3. x \in CutSpans(h.free_start) /\ x \notin L  BY <1>1 DEF InReach, Retained
  <1>4. Divides(h.free_start, Held(K) \cup Shelf(S), L)  BY <1>1 DEF Pool
  <1>5. PICK e \in Held(K) \cup Shelf(S) : x \in PagesOf(e)  BY <1>3, <1>4 DEF Divides
  <1>6. ASSUME NEW t \in Thread, e \in K[t]
        PROVE  KeptAt(C[t], f[t], l[t], Blocks(l[t], bl[t]), e.at)
    <2>1. Recalls(X, K[t], C[t], f[t], l[t], Blocks(l[t], bl[t]))  BY DEF HeapGood
    <2>2. PagesOf(e) \cap X # {}  BY <1>5
    <2> QED  BY <1>6, <2>1, <2>2 DEF Recalls
  <1>7. \/ \E d \in Shelf(S) : x \in PagesOf(d)
        \/ \E t \in Thread : \E d \in K[t] :
             /\ x \in PagesOf(d)
             /\ KeptAt(C[t], f[t], l[t], Blocks(l[t], bl[t]), d.at)
    BY <1>5, <1>6 DEF Held
  <1> QED  BY <1>1, <1>7, AllReachOf

\* No step of a thread in a call, and no call and no free, puts a page out of
\* reach, ...
LEMMA StepKeeps ==
  ASSUME ~RemoteFree, Good({}), FrontsGood, NEW t \in Thread, Calls(t) \/ Progress(t), ~strayed'
  PROVE  Kept \subseteq Kept'
  <1>1. PICK K, C : HeapGood({}, heap, K, C, foreground, th, live)  BY DEF Good
  <1>2. PICK X : X = Kept  OBVIOUS
  <1>3. X = AllReach(heap, foreground, th, live)  BY <1>2, KeptSeen
  <1>4. \A u \in Thread : Fronted(th[u], foreground[u])  BY DEF FrontsGood
  <1>5. HeapGood(X, heap, K, C, foreground, th, live)  BY <1>1, <1>3, <1>4, ReachGood
  <1>6. Good(X)  BY <1>5 DEF Good
  <1>7. Good(X)'  BY <1>6, StepGood DEF After
  <1>8. FrontsGood'  BY <1>6, FrontsKept DEF Good
  <1>9. \A u \in Thread : Fronted(th'[u], foreground'[u])  BY <1>8 DEF FrontsGood, Fronted
  <1>10. PICK K2, C2 : HeapGood(X, heap', K2, C2, foreground', th', live')  BY <1>7 DEF Good
  <1>11. X \subseteq AllReach(heap', foreground', th', live')  BY <1>9, <1>10, ReachKept
  <1> QED  BY <1>2, <1>11, KeptNext

\* ... and the end of a thread does so only with its cache.
LEMMA ExitKeeps ==
  ASSUME Good({}), FrontsGood, NEW t \in Thread, Exit(t)
  PROVE  th'[t].pc = "gone" /\ Kept \ InCache(t) \subseteq Kept'
  <1>1. /\ th[t].pc = "idle" /\ Goto(t, [Idle EXCEPT !.pc = "gone"])
        /\ heap' = heap /\ foreground' = foreground /\ live' = live
    BY Zenon DEF Exit, At
  <1>2. th \in [Thread -> CallType]  BY DEF Good, StateType
  <1>3. /\ th'[t] = [Idle EXCEPT !.pc = "gone"]
        /\ \A u \in Thread \ {t} : th'[u] = th[u]
    BY <1>1, <1>2 DEF Goto
  <1>4. th'[t].pc = "gone" /\ th'[t].addr = <<>>  BY ONLY <1>3 DEF Idle
  <1>5. th[t].span = NULL  BY <1>1 DEF FrontsGood, Fronted, Answering, GivingUp
  <1>6. th[t].addr = <<>>
    <2>1. PICK k, c : CallGood(heap, k, c, foreground[t], th[t], live[t])  BY CallOf
    <2> QED  BY <1>1, <2>1 DEF CallGood, Answering
  <1>7. ASSUME NEW u \in Thread
        PROVE  ReachOf(heap, u, foreground[u], th[u], Blocks(th[u], live[u])) \ InCache(t)
                 \subseteq ReachOf(heap, u, foreground[u], th'[u], Blocks(th'[u], live[u]))
    <2>1. CASE u = t
      <3>1. CacheOf(heap, t, foreground[t], th[t]) = InCache(t)  BY KeptSeen
      <3>2. CallPages(heap, th[t]) = {}  BY <1>5 DEF CallPages
      <3>3. Blocks(th[t], live[t]) = Blocks(th'[t], live[t])  BY <1>4, <1>6 DEF Blocks
      <3> QED  BY <2>1, <3>1, <3>2, <3>3 DEF ReachOf
    <2>2. CASE u # t  BY <1>3, <2>2
    <2> QED  BY <2>1, <2>2
  <1>8. Kept = AllReach(heap, foreground, th, live) /\ Kept' = AllReach(heap, foreground, th', live)
    BY <1>1, KeptSeen, KeptNext
  <1>9. Kept \ InCache(t) \subseteq Kept'  BY <1>7, <1>8 DEF AllReach
  <1> QED  BY <1>4, <1>9

\* However the threads interleave, cuts, splits, refusals, revivals and
\* give-backs lose no page that was within reach, but for the cache of a
\* thread that ends.
THEOREM PagesStayKept ==
  ASSUME ~RemoteFree
  PROVE  Spec /\ []NotYetStrayed => PagesKept
  <1> DEFINE Ended == {u \in Thread : th'[u].pc = "gone"}
             Stay  == Kept \ UNION {InCache(t) : t \in Ended} \subseteq Kept'
  <1>1. IInv /\ NotYetStrayed /\ NotYetStrayed' /\ [Next]_vars => [Stay]_vars
    <2>1. SUFFICES ASSUME IInv, NotYetStrayed, NotYetStrayed', Next  PROVE Stay
      OBVIOUS
    <2>2. PICK t \in Thread : Calls(t) \/ Progress(t) \/ Exit(t)  BY <2>1 DEF Next
    <2>3. Good({}) /\ FrontsGood /\ ~strayed'  BY <2>1 DEF IInv, NotYetStrayed
    <2>4. CASE Calls(t) \/ Progress(t)
      <3>1. Kept \subseteq Kept'  BY <2>3, <2>4, StepKeeps
      <3> QED  BY <3>1
    <2>5. CASE Exit(t)
      <3>1. th'[t].pc = "gone" /\ Kept \ InCache(t) \subseteq Kept'  BY <2>3, <2>5, ExitKeeps
      <3>2. InCache(t) \subseteq UNION {InCache(u) : u \in Ended}  BY <3>1
      <3> QED  BY <3>1, <3>2
    <2> QED  BY <2>2, <2>4, <2>5
  <1> QED  BY <1>1, Invariant, PTL DEF Spec, PagesKept
=============================================================================
