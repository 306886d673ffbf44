# HPNMalloc in TLA+

HPNMalloc is a memory allocator for non-volatile memory: besides handing out
blocks it is to spread the writes over the memory, whose cells wear out. This
directory specifies it in TLA+, model-checks the specifications with TLC and
proves part of them with TLAPS. The specifications follow the code of the
latest round: `src/src/r3/HPN` (`hpnmalloc.c`, `hpnmalloc.h`, `list.h`,
`wtcpa.c`) for HPNMalloc itself, and `src/src/r3/TCNVMalloc` and
`src/src/r3/nvmalloc` for two of the allocators it is compared with. Line
numbers below are lines of `hpnmalloc.c` unless another file is named.

## 1. The system

| Component | State | Operations | Hard behaviour |
|---|---|---|---|
| Span clock (a page cut into equal blocks) | `bitmap`, `cur_pos`, `free_block_num`, `wear_count` of `span_t` | `span_init`, `span_clock_allocate`, the bookkeeping of `small_malloc` and `small_free` | long mixed sequences of allocation and free; the hand starts over among live blocks; wear charged in two places; a span on no list |
| Intrusive lists (`list.h`) | `next`, `prev` in heads and spans | `INIT_LIST_HEAD`, `list_add`, `list_add_tail`, `list_del`, `list_empty` | `list_del` leaves stale links behind |
| Central pool, one per area | `free_start`, `free_end`, 257 free lists with `max_wear_page_index`, `max_wc_count`, the segments | `acquire_span`, `span_split`, `span_back_to_centralpool`, `central_pool_grow` | splitting a span still linked; an index pointing into a list; the last page of a segment |
| Local cache, one per thread | `foreground`, `background`, `n_avaliable_list`, `free_list`, `local_cache_wc_threshold` | `acquire_span_from_localcache`, `acquire_span_from_centralpool`, `reset_localcache_wc_threshold` | spans moving between six places; refused spans coming back when the threshold moves |
| Threads and locks | one mutex per area, a local cache per thread | `hpnmalloc`, `hpnfree` | trylock loops; the header of a block found by address; blocks freed by another thread |
| Choice of the area | `priority` of each area, from `max_wc_count` and the wear limit | the sort at 752-798, `recalculate_priority`, `init_priority` | priorities read without a lock |
| Address lookup | `span_map`, two levels | `span_extract_header`, `reset_span_map`, `central_pool_grow` | area, segment and page from an address; the table of a new segment filed at the right place |
| Lowest set bit | a table of 32 entries | `LOW1BIT` | a 64-bit word in two halves by a 32-bit multiplication |
| Initialisation | files, mappings, `global_state`, `thread_state` | `check_init`, `global_init`, `thread_init` | failures printed and ignored |
| TCNVMalloc | chunks, a heap per thread, a pool per area | `wa_malloc`, `wa_free`, `chunk_alloc_obj`, `lheap_replace_foreground`, `chunk_free_small`, `gpool_acquire_chunk` | a chunk is found by its state; growth across segments; chunks that change class |
| TCNVMalloc's queue and size tables | a heap in an array that grows and shrinks; two tables | `pq_insert`, `pq_delmin`; `maps_init`, `size2cls` | resizing by equality tests; boundaries of the tables |
| NVMalloc | a bitmap, headers in the blocks, lists of hints, a queue of freed blocks | `nvmalloc`, `nvfree`, `getFreeLocation`, `insertFreeLocation`, `incrementTime` | stale hints; regions split and merged over old headers; blocks that wait |
| CPMA, HPN1 | variants of HPNMalloc | | compared with HPNMalloc by the benchmarks |

How they interact: a thread serves a small block from the foreground span of
its class, else from the head of its background list, else from a spare page of
its cache, and with none left it locks an area and fetches a span and 16 spare
pages from the area's pool. A free finds the header through the span map and
works on the caller's cache; an emptied span becomes a spare page or, when worn,
goes back to its pool under the lock. A large block is a span of its own.

HPNMalloc, TCNVMalloc and NVMalloc do not call each other. TCNVMalloc gives each
thread one foreground chunk per class and lists of chunks with free blocks, and
takes chunks from the areas' pools; NVMalloc serves all threads under one mutex
from one address range.

What has to hold: no block is handed out twice; pages are neither lost nor in
two places; a list never leads to a span it does not hold; the wear counted
covers the writes; every call returns.

## 2. Modules

| Module | Models | Lines |
|---|---|---|
| `Span` | the header of a span, as pure operators on a record | 467-491, 683-737, 829-833, 963-1010 |
| `SpanClock` | the life of one span in one thread's cache | 612-681, 739-842, 963-1010 |
| `SpanClockProofs` | theorems about `SpanClock` | |
| `ListHead` | `list.h` on a memory of links | `list.h` |
| `AddressMap` | from an address to its area, segment, page and place in the span map | 33-76, 446-465, `hpnmalloc.h` 17-56 |
| `SpanHeap` | the central pools, as operators from heap to heap | 91-149, 174-330, 411-610 |
| `PageExtents` | abstract: runs of pages that never overlap | |
| `CentralPool`, `MCCentralPool` | the pools driven by any sequence of calls; the refinement of `PageExtents` | 540-658, 845-942, 963-1018 |
| `BlockAllocator` | abstract: malloc and free for concurrent threads | |
| `HPNMalloc`, `MCHPNMalloc` | threads, caches, locks over `SpanHeap`; the refinement of `BlockAllocator` | 342-409, 612-1035 |
| `BitScan` | how the clock finds the lowest free block, at 64 bits | 22-26, 683-737 |
| `AreaSelect` | the sort of the areas by priority, disturbed by other threads | 78-88, 752-798, `wtcpa.c` 19-48 |
| `TCNVMalloc`, `MCTCNVMalloc` | the chunk allocator; `BlockAllocator`, which it implements while no chunk serves a larger class than its own | `tcnvmalloc.c` 137-217, 312-639 |
| `SizeClasses` | its size tables, with the real constants | `tcnvmalloc.c` 234-267, 570-587 |
| `PriorityQueue` | its queue of worn chunks | `pq.c` |
| `NVMalloc`, `MCNVMalloc` | the allocator with hints and waiting; the refinement of `BlockAllocator` | `nvmalloc.c` 140-691 |
| `MCAlgorithms` | runs `BitScan`, `AreaSelect`, `SizeClasses` and `PriorityQueue`, one per behaviour | |
| `NatFacts` | lemmas on numbers, finite sets and iterated functions that the proofs share | |
| `SpanHeapProofs` | lemmas on `AddressMap`, `ListHead` and `SpanHeap` | |
| `CentralPoolProofs` | theorems about `CentralPool` | |
| `HPNMallocProofs` | theorems about `HPNMalloc` | |
| `TCNVMallocProofs` | theorems about `TCNVMalloc` | |
| `NVMallocProofs` | theorems about `NVMalloc` | |
| `AlgorithmsProofs` | theorems about the sort and the queue of `MCAlgorithms` | |

`SpanClock` takes the header operators of `Span`, and `SpanHeap` takes the same
ones together with `ListHead`, so the clock that is proved about is the clock
the composed model runs.

**Span and SpanClock.** Bit b - 1 of the code's bitmap is block b. `LOW1BIT` is
represented by its result, the lowest free block beyond the hand (33 when there
is none, which the code's table yields). `place` stands for the list or pointer
that reaches the span. The thread's other spans and the rest of the pool appear
only as `OtherFetch`, which sets the threshold to any value a fetch can produce
and revives a refused span if the threshold changed. `writes` and `base` are
history variables that count how often a block was handed out.

**ListHead, AddressMap and SpanHeap.** A span is the number of its first page, a
list head a negative number, `NULL` is 0. The links are real: `list_del` works on
whatever the entry's `next` and `prev` hold. Addresses count units of 64 bytes.
The span map is what the code has: `span_map` gives the table of a segment,
`entry` is the memory of all tables, `reset_span_map` writes one entry when a span
is initialised, and every free of every model finds its header with
`span_extract_header` from the address it is given, whatever an earlier split,
merge or growth has left in the map. The areas and their maps lie as far apart as
the bounds of the model need, as the constants in `hpnmalloc.h` do for terabytes.
`max_wear_page_index->prev` at line 146 is the first field of the list head it
belongs to, so `list_add` inserts after the indexed span, not before it. `bitmap`
and `page_num` share their place in the header (`hpnmalloc.h:100-104`): what a span
that goes back to its pool has left of its bitmap is `Returned`. The areas
differ only in their wear limits, which `SpanHeap` does not use.

**CentralPool.** Each call runs under the area's lock from end to end and is one
action. A small span may come back with any wear from `FIXED_THRESHOLD` up that
is not less than it had: `SpanClock` is what happens to it in between.

**HPNMalloc.** A thread is a program counter and locals (`th`). A step is the
code between two points at which other threads matter: a lock taken, a critical
section with its unlock, and the lock-free stretches, which touch only what the
thread's cache owns. The order of the areas is any order, a superset of what the
sort over unlocked priorities can give. `LockAccount` and `Return` are the
locked account of a call at 834-841; its counter and the priority it recomputes
are read only by that sort and are left out. `strayed` is a history variable: a
`list_del` has written through stale links of an entry that was on no list. With
`RemoteFree` a thread may free a block that another allocated; `small_free` then
works on the caller's cache, as in the code. `Exit` ends a thread between two
calls: `thread_exit` is commented out, so its cache is left as it is.

**BitScan.** A word is the set of its one bits. The mask by the hand, the isolation
of a bit by adding one to the complement, the halves, the multiplication and the
table are there at their real width, for every number of blocks a page is cut
into; `FreedBits` bounds which blocks are freed again. `Span` has only the result,
the lowest free block.

**AreaSelect.** Each comparison with its exchange is a step, and other threads
recalculate priorities between any two. Priorities are compared as the fractions
limit / wear, without the rounding of doubles; a wear of zero gives infinity. The
four limits are the constant `memory_wear_limit`; the run takes them scaled down, in
the order the code gives them (`ScaledLimits`).

**TCNVMalloc.** A call is one step: apart from the pools, which are locked, it
touches the heap of its thread alone, as each thread frees what it allocated.
Addresses are numbers, so that a chunk is found from an address by rounding down,
as `chunk_extract_header` does, and chunks may straddle segments. The truth value
that is compared with `WEAR_LIMIT` in `small_malloc` is compared here too. A call
with every area at its limit would run past the last area and is not made.

**PriorityQueue** drives the operations of `pq.c` as rounds r1 and r2 do; in r3 the
reaper that fills the queue is commented out, and `TCNVMalloc` leaves it out.
**SizeClasses** runs the two loops of `maps_init` with the real constants.

**NVMalloc.** Memory is counted in cells of `BASE_SIZE`; `header` has the size word
of every cell, which the checksum of the code tells from user data. The cells a
user has written may hold anything, and no walk may rely on them: `Occupied` sets
them to "no header". Time is the age of the waiting blocks, up to `Wait`. A call
that finds no memory keeps the mutex, as the code does, and nothing happens after.

## 3. Runs

| Run | Configuration | Bounds | What it shows |
|---|---|---|---|
| `span_clock` | `SpanClock.cfg` | 4 blocks, threshold step 2, wear up to 5 | `BlocksAccounted`, `RecycledIffEmpty`, `WearCountsEveryPass`, and `IInv`, the invariant the proofs use |
| `central_pool` | `CentralPool.cfg` | one area, 2 segments of 3 pages, spans of up to 3 pages, two levels of wear | `PagesPartitioned`, `ListsIndexed`, `IndexOnItsList`, `PoolWearBounded`, `LookupFindsHeader`, refinement of `PageExtents` |
| `central_pool_wear` | `CentralPoolWear.cfg` | the same, three levels of wear | violated: `WornLast` |
| `two_threads` | `HPNMalloc.cfg` | 2 threads, 2 calls each of `hpnmalloc`, small and two-page blocks, spans of two blocks, 3 segments of 4 pages | `NoOverlap`, `HeaderDescribesBlocks`, `OnePlace`, `OthersUntouched`, `PagesKept`, refinement of `BlockAllocator` |
| `cache_reuse` | `HPNMallocCache.cfg` | 1 thread, 9 calls, two classes of three blocks and of one | three of these for as long as no `list_del` has strayed |
| `cache_relink` | `HPNMallocRelink.cfg` | 1 thread, 9 calls, two classes, the code's threshold of 10 | violated: `NoOverlap` |
| `calls_return` | `HPNMallocLive.cfg` | 2 threads, 2 areas, 3 calls each for small blocks, spans of two, threshold of 2 | `CallsReturn`, through spans that fill up, rescans, refusals and the retries after them; `HeaderDescribesBlocks` with more than one area |
| `remote_free` | `HPNMallocRemote.cfg` | 2 threads, 3 calls each, each may free the other's blocks, the code's threshold of 10 | violated: `NoOverlap` |
| `tcnvmalloc` | `TCNVMalloc.cfg` | 2 threads with up to 2 blocks, 2 classes, 2 areas with room for some segments | `CountsAgree`, `PlaceTellsState`, `ChunksInPools`, `OnlyUndersizedOverlap` |
| `tcnvmalloc_reclass` | `TCNVMallocReclass.cfg` | the same with one thread | violated: `NoOverlap` |
| `nvmalloc` | `NVMalloc.cfg` | 6 cells, blocks of up to 3 where the exact lists end at 1, 2 hints, waits of one unit, failures of `mmap` | `BlocksAccounted`, `RegionsTiled`, `RegionsHinted`, `RestsBeforeReuse`, refinement of `BlockAllocator` |
| `algorithms` | `Algorithms.cfg` | 64-bit words; four areas with wear up to 2; the real size tables; a queue of 6 chunks | `ScanFindsLowest`, `TriedByPriority`, `SmallestClass`, `HoldsQueued`, `LeastWornFirst` |

**Why the bounds are enough.** A span of four blocks has blocks before, at and
behind the hand and a last one; wear up to 5 with steps of 2 lets it pass the
threshold, be refused, be revived and be recycled. Two segments of three pages
hold every case of `acquire_span`: a cut, an exact fit, a split with one and
with two pages left, growth and what growth abandons. In `two_threads` each
thread fetches, frees into its cache and gives a worn span back while the other is
at any point of a call; two calls suffice to wear a span of two blocks to the
threshold of 1, but none is refused. In `calls_return` a third call finds a span
whose hand has reached the end: it is scanned again and charged, is refused when it
has reached the threshold, and `acquire_span_from_localcache` or the loop at 854
tries once more. In `cache_reuse` the pool is so small that worn spans are fetched
again, the threshold rises, refused spans revive, and spans change class. The
give-back inside a call (697-704) is in the model but no run takes it: section 5
says why it cannot happen as long as each thread frees its own blocks. In
`remote_free` a span of two blocks is emptied by a thread that did not allocate
them and reused by both. `MaxCalls`, `MaxSegs`, `MaxWear`, `MaxLive`, `MaxCells`,
`MaxHints` and `FreedBits` bound the model, not the code; a call that would need a
further segment waits.

In `tcnvmalloc` a chunk holds two small blocks or one of the larger class, so
every chunk is filled, emptied, put on each list and reused for the other class
within two live blocks per thread, and a segment holds two chunks and a third of
one, so a chunk straddles a boundary at once. In `nvmalloc` six cells hold a
used block between two free regions, and regions that are split, wait and merge
with either neighbour; a free region of two cells, of which the last list holds the
hint, is passed by a request for three, and calls go on after it. In `algorithms` a queue of six chunks has three levels and
grows and shrinks twice; the edges of the word and of its halves are among
`FreedBits`; a wear of 0, 1 and 2 against four limits gives equal, reversed and
infinite priorities.

`cache_reuse` explores under the state constraint `NotYetStrayed`: after a
`list_del` has strayed the links are broken and a list head may be taken for a
span, which is no longer the program its author wrote. What happens then is the
question of `cache_relink`, which in turn explores under `OneClassUntilStray`:
until a `list_del` strays all calls are for the smallest class. That only brings
the search to the counterexample sooner; a behaviour it finds is one of the
unconstrained specification. `remote_free` explores under `RemoteStaysCached`, for
the same reason: it leaves out a thread that has fetched no span, whose threshold
of 0 makes it give at once to the pool what another thread still uses, and a call
that goes on after it was given a block beyond the end of its span, which the clock
yields when the hand has passed every block of a span that was emptied under it.
Both are open to the code; the counterexample needs neither. Deadlock checking is off in the runs of `HPNMalloc`:
a program that has made its `MaxCalls` calls and freed its blocks stops. In
`span_clock` and in the runs of `CentralPool` it is on.

**Fairness.** `calls_return` assumes weak fairness of each thread's steps inside
a call, that is, that the operating system keeps scheduling threads, and nothing
of the program's making of calls. A trylock loop is always enabled, so weak
fairness does not by itself give it the lock: it ends because the other threads
make finitely many calls (`MaxCalls`). With unboundedly many calls of others a
thread may starve; the code has no queue that would prevent it.

## 4. Where the code does not do what it says

1. **A block can be handed out twice** (`cache_relink`). `list_del` leaves the
   links of the deleted entry; the line that clears them is commented out
   (`list.h:59`). `small_free` and `span_clock_allocate` call it on spans that
   are on no list: the foreground span, or one taken off the background list.
   When that list has changed since, the call relinks spans that had left it. A
   span then is on two lists, is initialised afresh for one while it serves the
   other, and a block in use is returned by `hpnmalloc`. Theorems of
   `HPNMallocProofs` say that this is the only way for the cache to break as long
   as each thread frees its own blocks; `cache_reuse` shows it within its bounds.
2. **The order by wear is lost** (`central_pool_wear`). The loop at 120-127 is to
   clear the index of the other lists but assigns the index of the list itself,
   and `list_add` at 146 inserts behind the indexed span.
3. **A free by another thread breaks the allocator** (`remote_free`). `small_free`
   works on the cache of the thread that frees. When the last block of a span is
   freed by a thread that did not allocate it, and the wear is below that thread's
   threshold, the span becomes a spare page of that thread (984-992) while it stays
   the foreground span of the thread that allocated it. The one goes on allocating
   from it; the other initialises it afresh, with all its blocks free, and returns a
   block that is in use. The README claims support for threads; the benchmarks free
   in the allocating thread.
4. **TCNVMalloc hands out blocks that are too small** (`tcnvmalloc_reclass`). A
   chunk that was emptied keeps its class and block size when it serves a request of
   another class (`tcnvmalloc.c:361-366`; a comment at 360 leaves taking it off the
   free list as open). A request for a larger block then gets one that reaches into
   the next, which the benchmarks write (`exp_2.c:51` fills all the bytes it asked
   for). `OnlyUndersizedOverlap` says that this is the only way for blocks to
   overlap. What the bytes written then do to the chunk headers behind them the
   model does not follow: it is the state of the allocator up to that point.

Found while reading and modelling, and not the subject of a run:

5. **The file stops growing.** `next_nvm_start` is not advanced by
   `central_pool_grow` (415), so all segments after the first map the same part
   of the file. The mapping is private, so blocks do not alias.
6. **Wear below a full pass is not counted.** A span emptied before its hand
   reaches the end is initialised with the hand at the start and no charge, so its
   first block can be written without limit at wear 0. What does hold is
   `WearCountsEveryPass`, counted from the last `span_init`.
7. **TCNVMalloc.** The test for wear (`tcnvmalloc.c:488`) compares a truth value
   with the limit, so no chunk is retired. `used_mc` (`:377`) counts the data of
   chunks while whole segments are mapped: with the real constants an area maps
   1,080,033,280 of 1,073,741,824 bytes.
8. **NVMalloc.** A request larger than the exact lists drops every hint it looks
   at in the last list (`nvmalloc.c:332`), those at regions too small for it
   included, so these regions are lost until a neighbour is freed. `RegionsHinted`
   says that no other region is: `largest`, the most cells asked for so far, bounds
   the regions that may have been passed. A request that finds no memory returns
   with the mutex locked (`:636`).

Item 1 also makes precise what the other runs rely on: in `two_threads` and
`calls_return` no `list_del` strays within the bounds, so their properties hold
without the proviso there.

## 5. Proofs

Every theorem is proved for all values of the constants that the modules'
assumptions allow; the assumptions are those the code's own constants satisfy
(`AddressAssumption`, `HeapAssumption`, `PoolAssumption` and `CallAssumption` for
HPNMalloc, `TotalAssumption` and `WearAssumption` for the clock, `NVAssumption`,
`ChunkAssumption` and `GapAssumption` for TCNVMalloc, and `AlgorithmsAssumption`:
positive wear limits and a finite set of chunks). No property is inductive as it stands, so each module has an
inductive invariant, the lemmas that every action preserves it, and the
properties as its consequences.

**The clock (`SpanClockProofs`).** `Invariant`, `TypeCorrect`, `BlocksAreAccounted`,
`RecycledExactlyWhenEmpty`, `WearIsCounted`. The invariant `IInv` adds two facts.
`ListedHasFree`: a span that the cache reaches has a free block; without it
`FirstFree` of an exhausted span would be 33. `PassCharged`: the extra unit in
`WearCountsEveryPass` belongs to the blocks the hand has passed in the current
pass, and to none right after the end of a pass was charged; without it the next
rescan could not be shown to pay for them. On the way the proof shows that the
branch of `span_clock_allocate` for a refused span all of whose blocks are free
(697-704) is never taken: such a span has just been fetched with a threshold above
its wear, or is not reached.

**The pools (`SpanHeapProofs`, `CentralPoolProofs`).** `TypeCorrect`, `Partitioned`
(`PagesPartitioned`), `Indexed` (`ListsIndexed`), `IndexListed` (`IndexOnItsList`),
`WearBounded` (`PoolWearBounded`), `HeaderFound` (`LookupFindsHeader`), and
`Implements`, the refinement of `PageExtents`. The lemmas go up in layers:

- `Ring(L, head, S)`: the links of S and the head form one coherent ring that
  leaves no node of S out. `list_add`, `list_add_tail` and `list_del` of a node of
  the ring keep it a ring of S with the node more or less; a walk along `next`
  meets every node of S once.
- `MapPlace`: an address in the first page of a span leads to the span's own place
  in the map, however many segments the area has, and no other span's address does.
- `Shelved(h, S)`: each free list is the ring of the spans S assigns to it, all of
  its page count, none more worn than `max_wc`, its index among them.
- `Divides(free, E, lost)`: the pages cut are divided among the pieces of E and what
  growth left behind, with no overlap, each piece within a segment.
- `Pool`: the four together, with the pieces of H out of the pool. `AcquirePool`
  says of every path through `acquire_span` (a cut, a list's first span whole, a
  split, a growth) that it takes one piece nobody holds; `InitedPool`, `WornPool`
  and `ReturnPool` say the same of the other operations.

The invariant of `CentralPool` is that some assignment S makes the heap such a
pool for the spans held. The assignment is not a variable of the model: it is
what the proof carries along.

**HPNMalloc (`HPNMallocProofs`).** For any number of threads, areas, segments,
pages and classes, when each thread frees the blocks it allocated (`~RemoteFree`;
with frees by others the properties are false, see `remote_free`) and until a
`list_del` strays (after that they are false too, see `cache_relink`):
`BlocksStayApart` (`NoOverlapUnlessStray`), `HeadersDescribeBlocks`
(`HeaderDescribesBlocksUnlessStray`), `SpansInOnePlace` (`OnePlaceUnlessStray`),
`TypesKept` (`TypeOK`), `OthersLeftAlone` (`OthersUntouched`), `PagesStayKept`
(`PagesKept`) and `Implements`, the refinement of `BlockAllocator`. The last three
are stated of the behaviours in which no `list_del` strays, `[]NotYetStrayed`, as
`cache_reuse` explores them.

The invariant `IInv` says that, unless a `list_del` has strayed, the pieces of
memory out of the pools can be divided among the threads, K, and the spans on the
lists of each cache told, C, in such a way that

- the pools are in order with the pieces of all K out (`Pool`), and no two threads
  share a piece;
- each list of a cache is the ring of its spans in C, all of them pieces of the
  thread, of the class of the list (`ListsGood`), and no foreground span is on any
  (`ForegroundGood`);
- a span from which the thread may still be served has a free block, and its header
  has a zero bit exactly where a block of the thread is (`ReachedGood`, `Serves`);
  a spare page has no block in use (`SpareGood`);
- each block lies in a piece of its thread, which the header of its span describes
  (`BlocksGood`);
- a call knows what it has in hand: the span it has chosen is on no list, the block
  it returns is not one of the thread's, a span it gives back is in no place of the
  cache (`CallGood`), and a thread in a critical section has the lock (`LocksGood`).

`CallGood` is what makes it inductive: a span is in no place of the cache between
two steps of a call, and another thread runs in between. K and C are not variables
of the code; each action's lemma (`ClockGood`, `FreeLastGood`, `FillSmallGood`...)
says how they change. Most steps change one thread's part alone, and `Local` and
`Spared` say, once for all of them, that nobody else notices: what a thread relinks
is nodes of its own lists, what it writes are headers of its own pieces. `Spared`
is also where `OthersLeftAlone` comes from. The fetch of 16 spare pages and the
revival of the refused spans are loops inside one step; their invariant is
`Filled`, which holds after each round of either.

For `PagesStayKept` the invariant takes a set X of pages as a parameter, `Good(X)`:
a page of X is in the pool or behind its end (`InReach`), or the cache or the call of
the thread that has its piece leads to it (`Recalls`). X is chosen as the pages kept
before a step, and each action's lemma carries it over; the pools lose no page
because a piece that is split, merged or cut leaves its pages within reach
(`Retained`). One more fact is needed, `Fronted`: while a call looks for a span and
asks its clock, no other span is in the foreground of the class; otherwise the one
that takes its place there would leave it on no list. The empty X gives the other
theorems.

**TCNVMalloc (`TCNVMallocProofs`).** For any number of threads and areas and any
sizes of chunk, segment and class: `Invariant`, `TypeCorrect`, `CountsRight` (`CountsAgree`),
`Placed` (`PlaceTellsState`), `PoolsRight` (`ChunksInPools`), `OverlapsRight`
(`OnlyUndersizedOverlap`) and `Implements` (`ImplementsWhenSized`): as long as every
block in use fits the blocks its chunk is cut into, `wa_malloc` and `wa_free` are a
refinement of `BlockAllocator`. `ChunkAssumption` asks that a segment has room for
two chunks and that `WEAR_LIMIT` is above one (it is 50000), so that no chunk is
retired; `GapAssumption` that the areas lie further apart than the chunks reach
which an area's capacity allows (16 terabytes against one gigabyte). The invariant
`IInv` has four parts.

- `HeaderGood`: the blocks in use and the freed ones of a chunk are together exactly
  the blocks in front of its untouched end (`Carved`), and `dlist` has no block
  twice. `CountsAgree` is what this says of the numbers.
- `PlaceGood`: the state of a chunk, and the place it is in, of its owner alone. Here
  the emptied chunk is the hard case: it keeps its class, and serves any.
- `LiveGood`: blocks in use are of chunks their holder owns, so that a free, which
  finds the chunk by rounding an address down, works on the caller's heap.
- `PoolGood`: with n chunks given out a pool has mapped at most n + 1 segments
  and passed at most one more chunk per growth, so its free end stays short
  of the next area and `used_mc` is the data of n chunks.

Every call is proved to preserve it on the operators of the code (`AllocGood`,
`FreeGood`), as a function from heaps to heaps, and the step of the specification is
then the state that function gives. `OnlyUndersizedOverlap` follows from it: two
blocks of a chunk lie a block of the chunk apart, and two chunks their own length.
`Implements` takes the sizes asked for, not those of the chunks; its proviso is what
`tcnvmalloc_reclass` shows to fail.

**NVMalloc (`NVMallocProofs`).** `TypeCorrect`, `Accounted` (`BlocksAccounted`),
`Rested` (`RestsBeforeReuse`), `Implements`, the refinement of
`BlockAllocator`, `RegionsStayTiled` (`RegionsTiled`) and `RegionsStayHinted`
(`RegionsHinted`), requests of every size included. The invariant `IInv` relates the three records the code keeps of a
block: the bits are exactly those of the blocks in use and of those that wait, the
headers tell their sizes, and no two of them overlap; a free cell has rested for
the whole wait and a cell of a waiting block for at least the block's age. For
the safety of blocks no fact about the hints is needed: a hint is only where the
search starts, and what it finds is free by the bitmap, so a stale hint can lose
memory but never hand out a block twice.

Which memory may be lost takes two further invariants. `TInv`: some set of cells
tiles the free regions: each region starts with a cell of it, and from a cell of it
a header, past free cells only, reaches the next or the end of the region.
`RegionsTiled` alone is not inductive: headers of earlier blocks remain in the
middle of a region, and which of them a walk goes by depends on how the region
came about, so the set has to be carried along. `HInv`: for every whole free region
that is in an exact list, or at least as large as the largest request so far, a hint
in the list for its size leads to it. It holds because a search drops only hints at
regions smaller than its list promises or at none; in the last list, whose regions
have many sizes, it also drops hints at regions too small for the request, and
these are the regions `largest` excepts (4.8).

**The algorithms (`AlgorithmsProofs`).** `SortedByPriority` (`TriedByPriority`),
`QueueHolds` (`HoldsQueued`) and `LeastWornTaken` (`LeastWornFirst`), for any four
limits and any wear, `ScanRight` (`ScanFindsLowest`), for every bitmap of 64
bits and every place of the hand, and `SmallestClassFound` (`SmallestClass`). The
sort of the areas keeps each area at some place whatever other threads do to the
priorities meanwhile, so that no area is tried twice and none is passed over, and
keeps its sorted part sorted unless a priority has changed since. The
queue is a heap but for one place while `swim` and `sink` move an element, and the
loops end because the place moves to a parent or a child. For the scan, what
`w & (~w + 1)` isolates is the lowest bit of the word, the table tells of each power
of two which it is, and the code looks in the half that has the bit. For the size
classes, the class the loops have reached is the smallest for the size they are at:
the class moves by one while the size moves by 8, or by 512, and the sizes of the
classes lie at least that far apart and are multiples of it.

Induction over numbers is done through sets: the numbers for which a fact holds
contain 0 and the successor of each (`InductionUpTo` in `NatFacts`), and a
recursive function of a `LET` is shown to exist by `IteratesExists` or
`FollowsExists` before anything is said about its values.

**What stays model-checked.** The liveness property `CallsReturn`, which is outside
what the prover handles. The properties of the runs that expect a violation are
false.

## 6. Not modelled

- In HPNMalloc: `calloc` and `realloc`, which the README of the repository lists
  and the code does not have; failures of `mmap` and `posix_fallocate`, which are
  printed and ignored, so that the first access to the segment faults; memory
  accesses of two threads on one header, below the steps of a call; the doubles
  behind the priorities.
- In TCNVMalloc: large blocks, which are an `mmap` and a `munmap` each; the heap of
  a thread that ends, which its chunks go on naming; a free by another thread,
  which the code itself marks as open. In NVMalloc: the checksum, the cache
  flushes, and `nvmalloc_exit`.
- CPMA, which is next in the plan, and HPN1, HPNMalloc without the priorities.
- The earlier rounds `r1` and `r2` and `src/src/other_malloc` and `src/src/test`,
  copies of the same allocators at an earlier time.
- The benchmarks, the scripts, and the instrumentation tools under `src/tools`,
  which are a vendored copy of Intel Pin with its libraries. They are nearly all
  of the repository's lines, and none of its logic: a model of the allocators
  covers a small part of the repository however complete it is.

## 7. Plan

Done: the clock of a span with its proofs; lists, address map, pools; HPNMalloc
with its locks, frees by other threads and ends of threads; `BitScan` and
`AreaSelect`; TCNVMalloc with its queue and tables; NVMalloc; the proofs of section
5. In this order, next:

1. CPMA. Points to look at: `span_split` passes 256 to a parameter of eight bits
   (`cpma.c:403`), `small_free` clears the foreground of its class whichever span
   it empties (`cpma.c:702`), and the trylock loop may step past the last area
   (`cpma.c:643`).
2. Frees by another thread of HPNMalloc, split into their memory accesses.
