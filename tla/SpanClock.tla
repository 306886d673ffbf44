----------------------------- MODULE SpanClock -----------------------------
(***************************************************************************)
(* The life of one span of small blocks in one thread's cache: fetched from *)
(* the central pool, carved into blocks by span_clock_allocate, emptied by  *)
(* small_free, parked and fetched again.  "place" is the list or pointer    *)
(* that reaches the span; "none" is a span no list reaches.                 *)
(*                                                                         *)
(* The thread's other spans and the pool's other traffic appear only        *)
(* through the wear threshold that every fetch recomputes.                  *)
(***************************************************************************)
EXTENDS Span

CONSTANTS
  Total,            \* total_block_num of the span's size class
  FIXED_THRESHOLD,  \* least wear a fetch allows its spans
  MaxWear           \* bound of the model on wear counts and thresholds

ASSUME TotalAssumption == Total \in 1..64
ASSUME WearAssumption ==
  /\ FIXED_THRESHOLD \in Nat \ {0}
  /\ MaxWear \in Nat
  /\ FIXED_THRESHOLD <= MaxWear

VARIABLES
  span,         \* the header
  place,        \* what reaches the span
  wc_threshold, \* local_cache_wc_threshold
  used,         \* blocks the program holds
  writes,       \* times each block was handed out since the last span_init
  base          \* wear_count at the last span_init

vars == <<span, place, wc_threshold, used, writes, base>>

Block  == 1..Total
Places == {"central", "free_list", "foreground", "background", "n_avaliable", "none"}

TypeOK ==
  /\ span \in SpanState(Total, MaxWear)
  /\ place \in Places
  /\ wc_threshold \in 0..MaxWear
  /\ used \subseteq Block
  /\ writes \in [Block -> Nat]
  /\ base \in 0..MaxWear

\* A span that acquire_span has cut from the untouched end of a segment.
Init ==
  /\ span = [bitmap |-> {}, cur_pos |-> 0, free_block_num |-> 0, wear_count |-> 0]
  /\ place = "central"
  /\ wc_threshold = 0
  /\ used = {}
  /\ writes = [b \in Block |-> 0]
  /\ base = 0

-----------------------------------------------------------------------------
\* Thresholds a fetch can set: the batch includes this span, so the largest
\* wear of the batch is at least this span's, and both branches of
\* reset_localcache_wc_threshold add FIXED_THRESHOLD or more to it.
FetchThresholds == (span.wear_count + FIXED_THRESHOLD)..MaxWear

\* A batch fetched for the thread leaves this span on the cache's free list.
FetchSpare ==
  /\ place = "central"
  /\ wc_threshold' \in FetchThresholds
  /\ place' = "free_list"
  /\ UNCHANGED <<span, used, writes, base>>

\* A batch without this span moves the threshold, and a new threshold moves
\* the worn spans back among those that serve allocations.
OtherFetch ==
  /\ wc_threshold' \in FIXED_THRESHOLD..MaxWear
  /\ place' = IF place = "n_avaliable" /\ wc_threshold' # wc_threshold
              THEN "background" ELSE place
  /\ UNCHANGED <<span, used, writes, base>>

\* The places small_malloc takes a span from, and the header it finds there.
Fresh    == place \in {"free_list", "central"}
Reaches  == place \in {"foreground", "background", "free_list", "central"}
Acquired == IF Fresh THEN SpanInit(span, Total) ELSE span
Thresholds == IF place = "central" THEN FetchThresholds ELSE {wc_threshold}

WritesSoFar == IF Fresh THEN [b \in Block |-> 0] ELSE writes
BaseNow     == IF Fresh THEN span.wear_count ELSE base

\* small_malloc on this span: span_clock_allocate hands out a block.
Malloc ==
  /\ Reaches
  /\ \E wc \in Thresholds :
       LET s   == Rescanned(Acquired, Total)
           pos == FirstFree(s.bitmap, s.cur_pos)
       IN  /\ ~Refuses(Acquired, Total, wc)
           /\ s.wear_count < MaxWear
           /\ wc_threshold' = wc
           /\ span' = HandedOut(s, Total, pos)
           /\ place' = IF span'.free_block_num = 0 THEN "none" ELSE "foreground"
           /\ used' = used \cup {pos}
           /\ writes' = [WritesSoFar EXCEPT ![pos] = @ + 1]
           /\ base' = BaseNow

\* Mutant: a refused span goes to the pool whatever it holds.
ParkedRecycled(s) == "central"

\* Where span_clock_allocate puts the span it refuses.
Parked(s) == IF s.free_block_num = Total THEN "central" ELSE "n_avaliable"

\* small_malloc on this span: the clock would have to start over and the
\* span is too worn, so it goes back to the pool or among the unavailable.
MallocRefused ==
  /\ Reaches
  /\ span.wear_count < MaxWear
  /\ \E wc \in Thresholds :
       /\ Refuses(Acquired, Total, wc)
       /\ wc_threshold' = wc
  /\ span' = [Acquired EXCEPT !.wear_count = @ + 1]
  /\ place' = Parked(Acquired)
  /\ writes' = WritesSoFar
  /\ base' = BaseNow
  /\ UNCHANGED used

\* small_free of block b.
Free(b) ==
  /\ b \in used
  /\ used' = used \ {b}
  /\ span' = Freed(span, Total, b)
  /\ place' = CASE span'.free_block_num = Total /\ span.wear_count >= wc_threshold -> "central"
                [] span'.free_block_num = Total /\ span.wear_count <  wc_threshold -> "free_list"
                [] span'.free_block_num = 1 /\ Total # 1
                     /\ span.wear_count < wc_threshold -> "background"
                [] OTHER -> place
  /\ UNCHANGED <<wc_threshold, writes, base>>

Next ==
  \/ FetchSpare
  \/ OtherFetch
  \/ Malloc
  \/ MallocRefused
  \/ \E b \in Block : Free(b)

Spec == Init /\ [][Next]_vars
-----------------------------------------------------------------------------
\* Every block of a span in use is either held by the program or free in the
\* bitmap, never both and never neither, and free_block_num counts the free
\* ones: span_clock_allocate hands out no block twice and small_free loses none.
BlocksAccounted ==
  ~Fresh => /\ span.bitmap \cup used = Block
            /\ span.bitmap \cap used = {}
            /\ span.free_block_num = Cardinality(span.bitmap)

\* The span is recycled (free list or central pool) exactly while the program
\* holds none of its blocks: small_free and the refusal of the clock neither
\* recycle a span under a live block nor strand an empty one.
RecycledIffEmpty == Fresh <=> used = {}

\* Since the last span_init no block was handed out more often than the wear
\* counted since then, plus the pass the hand is on: wear_count stands for
\* the number of times the page was written.
WearCountsEveryPass ==
  \A b \in Block : writes[b] <= span.wear_count - base + 1

\* The inductive form of WearCountsEveryPass: the extra unit belongs to the
\* blocks the hand has already passed.
PassCharged ==
  \A b \in Block :
    writes[b] <= span.wear_count - base
                 + (IF b <= span.cur_pos /\ span.cur_pos < Total THEN 1 ELSE 0)

\* A span that a list or the foreground pointer of the cache reaches has a
\* free block, so the scan of span_clock_allocate always finds one.
ListedHasFree ==
  place \in {"foreground", "background", "n_avaliable"} => span.bitmap # {}

IInv ==
  /\ TypeOK
  /\ BlocksAccounted
  /\ RecycledIffEmpty
  /\ ListedHasFree
  /\ PassCharged
=============================================================================
