----------------------------- MODULE HPNMalloc -----------------------------
(***************************************************************************)
(* hpnmalloc and hpnfree (src/r3/HPN/hpnmalloc.c) as concurrent threads run *)
(* them: each thread has a local cache of spans, the threads share the      *)
(* central pool of each area under the area's lock.  A step is the code     *)
(* between two points where other threads can matter: taking a lock, the    *)
(* critical section and its unlock, and the lock-free code in between,      *)
(* which touches only the thread's cache and the spans that cache owns.     *)
(*                                                                         *)
(* A thread frees the blocks it allocated, as the benchmarks do, or, with   *)
(* RemoteFree, any block.  A thread may end when no call of it is under     *)
(* way: nothing is done then, as thread_exit is commented out.              *)
(***************************************************************************)
EXTENDS SpanHeap

CONSTANTS
  THREAD_NUM,          \* number of threads
  Class,               \* size classes the threads ask for
  LargeSize,           \* page counts of the large blocks they ask for
  PAGE_FROM_POOL_NUM,  \* spare pages a fetch adds to the cache
  FIXED_THRESHOLD,
  RemoteFree,          \* a thread may free a block that another allocated
  MaxCalls             \* bound of the model on the calls of hpnmalloc per thread

ASSUME CallAssumption ==
  /\ THREAD_NUM \in Nat \ {0}
  /\ Class \subseteq 0..PageUnits - 1
  /\ LargeSize \subseteq 2..LARGE
  /\ PAGE_FROM_POOL_NUM \in Nat /\ FIXED_THRESHOLD \in Nat \ {0} /\ MaxCalls \in Nat
  /\ LARGE > PageUnits - 1
  /\ RemoteFree \in BOOLEAN

VARIABLES
  heap,       \* the heap record of SpanHeap, with the lists of the caches
  foreground, \* local_cache->foreground of each thread
  threshold,  \* local_cache->local_cache_wc_threshold of each thread
  owner,      \* the thread that holds the lock of each area, or NoOne
  th,         \* program counter and locals of each thread
  live,       \* the blocks each thread holds
  calls,      \* calls of hpnmalloc so far
  strayed     \* a list_del has written through stale links

vars == <<heap, foreground, threshold, owner, th, live, calls, strayed>>

Thread == 1..THREAD_NUM
NoOne  == 0

\* The list heads of a cache, numbered below those of the pools.
CacheSize        == 2 * PageUnits + 1
CacheBase(t)     == -(AREA_NUM * LARGE_BLOCK_NUM) - t * CacheSize
FreeSpans(t)     == CacheBase(t)
Background(t, c) == CacheBase(t) + 1 + c
NAvaliable(t, c) == CacheBase(t) + 1 + PageUnits + c
Heads            == CacheBase(THREAD_NUM)..-(AREA_NUM * LARGE_BLOCK_NUM) - 1

\* A block by where it lies: size is in units of 64 bytes for a small block,
\* in pages for a large one, whose pos is 0.
Block(s, pos, size) == [span |-> s, pos |-> pos, size |-> size]
Cells(b) ==
  IF b.pos = 0
  THEN ExtentOf(b.span, b.size) \X (1..PageUnits)
  ELSE {b.span} \X ((b.pos - 1) * b.size + 1..b.pos * b.size)

\* The address of a block, what hpnmalloc returns and hpnfree is given.
AddressIn(b) == AddressOf(b.span) + IF b.pos = 0 THEN 0 ELSE (b.pos - 1) * b.size

Idle == [pc |-> "idle", class |-> -1, pages |-> 0, span |-> NULL,
         order |-> <<>>, nvm_index |-> 0, addr |-> <<>>]

Init ==
  /\ heap = HeapInit(CacheBase(THREAD_NUM))
  /\ foreground = [t \in Thread |-> [c \in Class |-> NULL]]
  /\ threshold = [t \in Thread |-> 0]
  /\ owner = [a \in Area |-> NoOne]
  /\ th = [t \in Thread |-> Idle]
  /\ live = [t \in Thread |-> {}]
  /\ calls = [t \in Thread |-> 0]
  /\ strayed = FALSE

At(t, pc)       == th[t].pc = pc
Goto(t, record) == th' = [th EXCEPT ![t] = record]
Large(t)        == th[t].class = -1   \* the call is for a large block

\* Mutant: a critical section that ends without the unlock.
Unlock_skipped(a) == owner

Lock(a, t) == [owner EXCEPT ![a] = t]
Unlock(a)  == [owner EXCEPT ![a] = NoOne]

-----------------------------------------------------------------------------
\* hpnmalloc: a call for a small block, or for one of several pages.
CallSmall(t, c) ==
  /\ At(t, "idle") /\ calls[t] < MaxCalls
  /\ Goto(t, [Idle EXCEPT !.pc = "acquire", !.class = c, !.nvm_index = AREA_NUM])
  /\ calls' = [calls EXCEPT ![t] = @ + 1]
  /\ UNCHANGED <<heap, foreground, threshold, owner, live, strayed>>

CallLarge(t, n) ==
  /\ At(t, "idle") /\ calls[t] < MaxCalls
  /\ Goto(t, [Idle EXCEPT !.pc = "select", !.pages = n, !.nvm_index = AREA_NUM])
  /\ calls' = [calls EXCEPT ![t] = @ + 1]
  /\ UNCHANGED <<heap, foreground, threshold, owner, live, strayed>>

\* acquire_span_from_localcache: the foreground span, else the first of the
\* background, else the first spare page initialised for the class.
AcquireLocal(t) ==
  /\ At(t, "acquire")
  /\ LET c    == th[t].class
         bg   == Background(t, c)
         free == FreeSpans(t)
         Found(s) == Goto(t, [th[t] EXCEPT !.pc = "clock", !.span = s])
     IN  \/ /\ foreground[t][c] # NULL
            /\ Found(foreground[t][c])
            /\ UNCHANGED heap
         \/ /\ foreground[t][c] = NULL /\ ~list_empty(heap, bg)
            /\ Found(heap.next[bg])
            /\ heap' = list_del(heap, heap.next[bg])
         \/ /\ foreground[t][c] = NULL /\ list_empty(heap, bg) /\ ~list_empty(heap, free)
            /\ Found(heap.next[free])
            /\ heap' = span_init(list_del(heap, heap.next[free]), heap.next[free], c, c)
         \/ /\ foreground[t][c] = NULL /\ list_empty(heap, bg) /\ list_empty(heap, free)
            /\ Goto(t, [th[t] EXCEPT !.pc = "select"])
            /\ UNCHANGED heap
  /\ UNCHANGED <<foreground, threshold, owner, live, calls, strayed>>

\* The areas sorted by priority.  The priorities are read without a lock
\* while other threads may change them, so any order can come out.
Orders == {o \in [1..AREA_NUM -> Area] : \A i, j \in 1..AREA_NUM : i # j => o[i] # o[j]}

Select(t) ==
  /\ At(t, "select")
  /\ \E o \in Orders : Goto(t, [th[t] EXCEPT !.pc = "trylock", !.order = o])
  /\ UNCHANGED <<heap, foreground, threshold, owner, live, calls, strayed>>

\* pthread_mutex_trylock, from the last area of the order round to the first.
TryLock(t) ==
  /\ At(t, "trylock")
  /\ LET a == th[t].order[th[t].nvm_index]
     IN  \/ /\ owner[a] = NoOne
            /\ owner' = Lock(a, t)
            /\ Goto(t, [th[t] EXCEPT !.pc = "fill"])
         \/ /\ owner[a] # NoOne
            /\ Goto(t, [th[t] EXCEPT !.nvm_index = IF @ = 1 THEN AREA_NUM ELSE @ - 1])
            /\ UNCHANGED owner
  /\ UNCHANGED <<heap, foreground, threshold, live, calls, strayed>>

\* The spare pages of acquire_span_from_centralpool, one acquire_span and
\* list_add_tail each; "worst" is span_max_wear_count, and "ok" says that the
\* bound on the segments has not been met.
Batch(h, a, t, first) ==
  LET b[k \in 0..PAGE_FROM_POOL_NUM] ==
        IF k = 0 THEN [heap |-> h, worst |-> h.hdr[first].wear_count, ok |-> TRUE]
        ELSE LET p == b[k - 1]
             IN  IF p.ok /\ CanAcquire(p.heap, a, 0)
                 THEN LET r == acquire_span(p.heap, a, 0)
                      IN  [heap  |-> list_add_tail(r.heap, r.span, FreeSpans(t)),
                           worst |-> Max({p.worst, r.heap.hdr[r.span].wear_count}),
                           ok    |-> TRUE]
                 ELSE [p EXCEPT !.ok = FALSE]
  IN  b[PAGE_FROM_POOL_NUM]

\* The threshold reset_localcache_wc_threshold sets.  The difference of the
\* wear counts is unsigned: of a span worn beyond the maximum of the pool,
\* it is huge.
NewThreshold(h, a, worst) ==
  IF worst <= h.max_wc[a] /\ h.max_wc[a] - worst < FIXED_THRESHOLD
  THEN worst + FIXED_THRESHOLD ELSE h.max_wc[a]

\* Mutant: the span is added to the new list while still on the old one.
MoveFirst_kept(h, from, to) == list_add_tail(h, h.next[from], to)

MoveFirst(h, from, to) == list_add_tail(list_del(h, h.next[from]), h.next[from], to)

\* The first n spans of one list moved to another.
Moved(h, n, from, to) ==
  LET moved[k \in 0..n] == IF k = 0 THEN h ELSE MoveFirst(moved[k - 1], from, to)
  IN  moved[n]

\* The spans refused under the old threshold wait in the background again:
\* class by class, until the unavailable list is empty.
Revived(h, t) ==
  LET waiting(c) == Len(Entries(h, NAvaliable(t, c), AREA_NUM * AreaPages))
      revived[c \in 0..PageUnits] ==
        IF c = 0 THEN h
        ELSE Moved(revived[c - 1], waiting(c - 1), NAvaliable(t, c - 1), Background(t, c - 1))
  IN  revived[PageUnits]

\* acquire_span_from_centralpool and the unlock.
FillSmall(t) ==
  /\ At(t, "fill") /\ ~Large(t)
  /\ LET a == th[t].order[th[t].nvm_index]
         c == th[t].class
     IN  /\ CanAcquire(heap, a, 0)
         /\ \E r \in {acquire_span(heap, a, 0)} :
            \E b \in {Batch(span_init(r.heap, r.span, c, c), a, t, r.span)} :
            \E w \in {NewThreshold(b.heap, a, b.worst)} :
                /\ b.ok
                /\ heap' = IF w = threshold[t] THEN b.heap ELSE Revived(b.heap, t)
                /\ threshold' = [threshold EXCEPT ![t] = w]
                /\ Goto(t, [th[t] EXCEPT !.pc = "clock", !.span = r.span])
         /\ owner' = Unlock(a)
  /\ UNCHANGED <<foreground, live, calls, strayed>>

\* acquire_span_from_centralpool1 and the unlock.
FillLarge(t) ==
  /\ At(t, "fill") /\ Large(t)
  /\ LET a == th[t].order[th[t].nvm_index]
         n == th[t].pages
     IN  /\ CanAcquire(heap, a, n - 1)
         /\ \E r \in {acquire_span(heap, a, n - 1)} :
                /\ heap' = span_init(r.heap, r.span, n - 1, LARGE)
                /\ Goto(t, [th[t] EXCEPT !.pc = "account", !.span = r.span,
                                         !.addr = Block(r.span, 0, n)])
         /\ owner' = Unlock(a)
  /\ UNCHANGED <<foreground, threshold, live, calls, strayed>>

\* span_clock_allocate on the chosen span, now the foreground span, and
\* small_malloc's bookkeeping of the block it hands out.
Clock(t) ==
  /\ At(t, "clock")
  /\ LET s == th[t].span
         n == TotalBlocks(heap.hdr[s].category)
         r == Rescanned(heap.hdr[s], n)
         p == FirstFree(r.bitmap, r.cur_pos)
         d == HandedOut(r, n, p)
     IN  /\ ~Refuses(heap.hdr[s], n, threshold[t])
         /\ heap' = [heap EXCEPT !.hdr[s] = d]
         /\ foreground' = [foreground EXCEPT
              ![t][th[t].class] = IF d.free_block_num = 0 THEN NULL ELSE s]
         /\ Goto(t, [th[t] EXCEPT !.pc = "account",
                                  !.addr = Block(s, p, heap.hdr[s].category + 1)])
  /\ UNCHANGED <<threshold, owner, live, calls, strayed>>

\* span_clock_allocate refuses the span: it leaves whatever list it is on
\* for the unavailable list or, with every block free, for the pool.
ClockRefuses(t) ==
  /\ At(t, "clock")
  /\ LET s == th[t].span
         c == heap.hdr[s].category
         n == TotalBlocks(c)
         d == [heap.hdr[s] EXCEPT !.wear_count = @ + 1]
         g == list_del([heap EXCEPT !.hdr[s] = d], s)
     IN  /\ Refuses(heap.hdr[s], n, threshold[t])
         /\ IF d.free_block_num = n
            THEN heap' = g /\ Goto(t, [th[t] EXCEPT !.pc = "giveback"])
            ELSE /\ heap' = list_add_tail(g, s, NAvaliable(t, c))
                 /\ Goto(t, [th[t] EXCEPT !.pc = "acquire", !.span = NULL])
         /\ foreground' = [foreground EXCEPT ![t][c] = NULL, ![t][th[t].class] = NULL]
         /\ strayed' = (strayed \/ Strays(heap, s))
  /\ UNCHANGED <<threshold, owner, live, calls>>

\* The locked account of the call on the area of the span: the counter and
\* the priority it updates are read only by the order of the areas.
LockAccount(t) ==
  /\ At(t, "account") /\ owner[AreaOf(th[t].span)] = NoOne
  /\ owner' = Lock(AreaOf(th[t].span), t)
  /\ Goto(t, [th[t] EXCEPT !.pc = "accounting"])
  /\ UNCHANGED <<heap, foreground, threshold, live, calls, strayed>>

Return(t) ==
  /\ At(t, "accounting")
  /\ owner' = Unlock(AreaOf(th[t].span))
  /\ live' = [live EXCEPT ![t] = @ \cup {th[t].addr}]
  /\ Goto(t, Idle)
  /\ UNCHANGED <<heap, foreground, threshold, calls, strayed>>

-----------------------------------------------------------------------------
\* The blocks thread t may free, and the blocks of the threads without b.
Freeable(t) == IF RemoteFree THEN UNION {live[u] : u \in Thread} ELSE live[t]
Without(b)  == [u \in Thread |-> live[u] \ {b}]

\* Mutant: the bit before the block's.
BlockAt_before(s, addr) == (addr - AddressOf(s)) \div (heap.hdr[s].category + 1)

\* small_free on span s: the block at the freed address.
BlockAt(s, addr) == ((addr - AddressOf(s)) \div (heap.hdr[s].category + 1)) + 1

\* hpnfree of a block in a span that keeps blocks in use.
FreeSome(t, b) ==
  LET s == span_extract_header(heap, AddressIn(b))
      h == heap.hdr[s]
      n == TotalBlocks(h.category)
      d == Freed(h, n, BlockAt(s, AddressIn(b)))
      g == [heap EXCEPT !.hdr[s] = d]
  IN  /\ At(t, "idle") /\ b \in Freeable(t)
      /\ h.category # LARGE
      /\ d.free_block_num # n
      /\ heap' = IF d.free_block_num = 1 /\ h.wear_count < threshold[t]
                 THEN list_add_tail(g, s, Background(t, h.category)) ELSE g
      /\ live' = Without(b)
      /\ UNCHANGED <<foreground, threshold, owner, th, calls, strayed>>

\* hpnfree of the last block of a span: a worn span goes back to its pool,
\* another one becomes a spare page of the cache.
FreeLast(t, b) ==
  LET s == span_extract_header(heap, AddressIn(b))
      h == heap.hdr[s]
      n == TotalBlocks(h.category)
      d == Freed(h, n, BlockAt(s, AddressIn(b)))
      g == list_del([heap EXCEPT !.hdr[s] = d], s)
  IN  /\ At(t, "idle") /\ b \in Freeable(t)
      /\ h.category # LARGE
      /\ d.free_block_num = n
      /\ IF h.wear_count >= threshold[t]
         THEN heap' = g /\ Goto(t, [Idle EXCEPT !.pc = "giveback", !.span = s])
         ELSE heap' = list_add_tail(g, s, FreeSpans(t)) /\ UNCHANGED th
      /\ foreground' = [foreground EXCEPT
           ![t][h.category] = IF @ = s THEN NULL ELSE @]
      /\ strayed' = (strayed \/ Strays(heap, s))
      /\ live' = Without(b)
      /\ UNCHANGED <<threshold, owner, calls>>

\* hpnfree of a large block, up to the lock.
FreeLarge(t, b) ==
  /\ At(t, "idle") /\ b \in Freeable(t)
  /\ LET s == span_extract_header(heap, AddressIn(b))
     IN  /\ heap.hdr[s].category = LARGE
         /\ Goto(t, [Idle EXCEPT !.pc = "giveback", !.span = s])
  /\ live' = Without(b)
  /\ UNCHANGED <<heap, foreground, threshold, owner, calls, strayed>>

\* span_back_to_centralpool under the lock of the span's area.
LockGiveBack(t) ==
  /\ At(t, "giveback") /\ owner[AreaOf(th[t].span)] = NoOne
  /\ owner' = Lock(AreaOf(th[t].span), t)
  /\ Goto(t, [th[t] EXCEPT !.pc = "giving"])
  /\ UNCHANGED <<heap, foreground, threshold, live, calls, strayed>>

GiveBack(t) ==
  /\ At(t, "giving")
  /\ heap' = span_back_to_centralpool(heap, th[t].span)
  /\ owner' = Unlock(AreaOf(th[t].span))
  /\ Goto(t, IF Large(t) THEN Idle
             ELSE [th[t] EXCEPT !.pc = "acquire", !.span = NULL])
  /\ UNCHANGED <<foreground, threshold, live, calls, strayed>>

-----------------------------------------------------------------------------
\* The steps of a call once it is made.
Progress(t) ==
  \/ AcquireLocal(t) \/ Select(t) \/ TryLock(t) \/ FillSmall(t) \/ FillLarge(t)
  \/ Clock(t) \/ ClockRefuses(t) \/ LockAccount(t) \/ Return(t)
  \/ LockGiveBack(t) \/ GiveBack(t)

Calls(t) ==
  \/ \E c \in Class : CallSmall(t, c)
  \/ \E n \in LargeSize : CallLarge(t, n)
  \/ \E b \in Freeable(t) : FreeSome(t, b) \/ FreeLast(t, b) \/ FreeLarge(t, b)

\* The thread ends; its cache is left as it is.
Exit(t) ==
  /\ At(t, "idle")
  /\ Goto(t, [Idle EXCEPT !.pc = "gone"])
  /\ UNCHANGED <<heap, foreground, threshold, owner, live, calls, strayed>>

Next == \E t \in Thread : Calls(t) \/ Progress(t) \/ Exit(t)

Spec     == Init /\ [][Next]_vars
FairSpec == Spec /\ \A t \in Thread : WF_vars(Progress(t))

-----------------------------------------------------------------------------
PCs == {"idle", "acquire", "select", "trylock", "fill", "clock", "account",
        "accounting", "giveback", "giving", "gone"}

TypeOK ==
  /\ \A s \in Spans : /\ heap.hdr[s].category \in Class \cup {0, LARGE}
                      /\ heap.hdr[s].bitmap \subseteq 1..PageUnits
                      /\ heap.hdr[s].free_block_num \in 0..PageUnits
                      /\ heap.hdr[s].wear_count \in Nat
  /\ \A t \in Thread : /\ th[t].pc \in PCs
                       /\ th[t].span \in Spans \cup {NULL}
                       /\ threshold[t] = 0 \/ threshold[t] >= FIXED_THRESHOLD
                       /\ \A b \in live[t] : Cells(b) \subseteq Spans \X (1..PageUnits)
  /\ foreground \in [Thread -> [Class -> Spans \cup {NULL}]]
  /\ owner \in [Area -> Thread \cup {NoOne}]
  /\ calls \in [Thread -> 0..MaxCalls]
  /\ strayed \in BOOLEAN

Pending(t) == IF th[t].addr = <<>> THEN {} ELSE {th[t].addr}
InUse(t)   == live[t] \cup Pending(t)
Overlap(b, c) == Cells(b) \cap Cells(c) # {}

\* No address is handed out while a block of any thread still covers it.
NoOverlap ==
  /\ \A t, u \in Thread : \A b \in Pending(t), c \in live[u] : ~Overlap(b, c)
  /\ \A t, u \in Thread : \A b \in InUse(t), c \in InUse(u) :
       Overlap(b, c) => t = u /\ b = c

\* The header a later hpnfree will find describes the block: its address
\* leads through the map to the header of its span, which is of the block's
\* class or page count and agrees with the blocks of the span in use.
HeaderDescribesBlocks ==
  \A t \in Thread : \A b \in InUse(t) :
    LET h     == heap.hdr[b.span]
        mates == {c \in InUse(t) : c.span = b.span}
    IN  /\ span_extract_header(heap, AddressIn(b)) = b.span
        /\ IF b.pos = 0 THEN h.category = LARGE /\ h.page_num = b.size
           ELSE /\ h.category = b.size - 1
                /\ h.free_block_num = TotalBlocks(h.category) - Cardinality(mates)
                /\ b.pos \notin h.bitmap

\* A span is in one place: on one list at most, with coherent links; a
\* foreground span is on none; a span with a block in use is neither a spare
\* page of a cache nor in the pool.
OnePlace ==
  LET heads  == FreeLists \cup Heads
      On(l)  == EntrySet(heap, l, AREA_NUM * AreaPages)
      listed == UNION {{l} \X On(l) : l \in heads}
      spare  == UNION {On(l) : l \in FreeLists \cup {FreeSpans(t) : t \in Thread}}
  IN  /\ RingsCoherent(heap, heads)
      /\ Cardinality({p[2] : p \in listed}) = Cardinality(listed)
      /\ {foreground[t][c] : t \in Thread, c \in Class} \cap {p[2] : p \in listed} = {}
      /\ (UNION {{b.span : b \in InUse(t)} : t \in Thread}) \cap spare = {}

\* The same for as long as no list_del has strayed: stale links are the one
\* way the cache breaks, whatever is rescanned, refused, revived or recycled.
NoOverlapUnlessStray             == strayed \/ NoOverlap
HeaderDescribesBlocksUnlessStray == strayed \/ HeaderDescribesBlocks
OnePlaceUnlessStray              == strayed \/ OnePlace

\* The state constraint of the runs of these: nothing is followed further
\* once a list_del has strayed.
NotYetStrayed == ~strayed

\* For a search that is to come to a stray list_del sooner: until then all
\* calls are for the smallest class.
OneClassUntilStray == strayed \/ \A t \in Thread : th[t].class <= 0

\* For a search of what a free by another thread does when the span stays in
\* a cache: a thread that has fetched no span, whose threshold is still 0,
\* gives nothing back, and no call goes on from a block beyond the end of its
\* span.
RemoteStaysCached ==
  \A t \in Thread : /\ At(t, "giveback") => threshold[t] # 0
                    /\ \A b \in InUse(t) : b.pos * b.size <= PageUnits

\* A step of one thread leaves the header of every span in which another
\* thread holds a block as it was, although both work on the same pools.
OthersUntouched ==
  [][\A t \in Thread :
       th'[t] = th[t] /\ live'[t] = live[t] =>
         \A b \in InUse(t) : heap'.hdr[b.span] = heap.hdr[b.span]]_vars

\* The pages somebody can still get at: those of the spans on the lists of
\* the pools and in the caches of running threads, those of a span a call has
\* in hand, and those of the blocks in use.
PagesUnder(s) == ExtentOf(s, IF heap.hdr[s].category = LARGE THEN heap.hdr[s].page_num ELSE 1)
InCache(t) ==
  IF At(t, "gone") THEN {}
  ELSE ({foreground[t][c] : c \in Class} \ {NULL}) \cup EntrySet(heap, FreeSpans(t), AREA_NUM * AreaPages)
       \cup UNION {EntrySet(heap, l, AREA_NUM * AreaPages) :
                     l \in {Background(t, c) : c \in Class} \cup {NAvaliable(t, c) : c \in Class}}
Kept ==
  (UNION {ExtentOf(s, heap.hdr[s].page_num) : s \in UNION {InCentral(heap, a) : a \in Area}})
  \cup (UNION {InCache(t) : t \in Thread})
  \cup (UNION {PagesUnder(th[t].span) : t \in {u \in Thread : th[u].span # NULL}})
  \cup (UNION {IF b.pos = 0 THEN ExtentOf(b.span, b.size) ELSE {b.span} :
                 b \in UNION {InUse(t) : t \in Thread}})

\* No page is lost through cuts, splits, refusals, revivals and give-backs,
\* but for what is in the cache of a thread that ends.
PagesKept ==
  [][Kept \ UNION {InCache(t) : t \in {u \in Thread : th'[u].pc = "gone"}} \subseteq Kept']_vars

\* Every call of hpnmalloc and hpnfree returns: the locks are never nested,
\* so no thread waits for ever, and the trylock loop ends once the calls of
\* the other threads have.
CallsReturn == \A t \in Thread : []<>(At(t, "idle") \/ At(t, "gone"))
=============================================================================
