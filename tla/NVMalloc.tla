------------------------------ MODULE NVMalloc ------------------------------
(***************************************************************************)
(* The allocator nvmalloc (src/r3/nvmalloc/nvmalloc.c): a bitmap of the     *)
(* cells in use, headers in the blocks, lists of hints at free regions, and *)
(* a queue of freed blocks that wait before they may be allocated again.    *)
(*                                                                         *)
(* Every call runs under one mutex and is one step.  Memory is counted in   *)
(* cells of BASE_SIZE bytes and addressed from start_address; "header" is   *)
(* the size word of every cell, positive in a block in use, negative in a   *)
(* free or waiting one, 0 where there is none: the checksum that nvmalloc.c *)
(* keeps in the word tells a header from the user's data.                   *)
(***************************************************************************)
EXTENDS Integers, SequencesExt, FiniteSetsExt

CONSTANTS
  NR_SIZES,        \* lists of hints of exact sizes; one more takes the larger
  MaxSize,         \* bound of the model on the cells of a request
  InitCells,       \* nrPages of nvmalloc_init
  NEW_ALLOC_PAGES, \* cells of a growth
  MaxCells,        \* bound of the model on the memory
  MaxHints,        \* bound of the model on the hints in all lists
  Wait,            \* dont_allocate_wait
  MmapMayFail

ASSUME NVAssumption ==
  /\ {NR_SIZES, MaxSize, InitCells, NEW_ALLOC_PAGES} \subseteq Nat \ {0}
  /\ MaxCells \in Nat /\ MaxHints \in Nat /\ Wait \in Nat
  /\ InitCells <= MaxCells
  /\ MmapMayFail \in BOOLEAN

VARIABLES
  bitmap,        \* the cells whose bit is set
  header,
  free_zone,     \* everything from here on is free
  end_address,
  free_lists,    \* free_lists[n]: hints filed for regions of n cells
  dont_allocate, \* the queue of freed blocks: [at, age]
  mtx,           \* "free", or "kept" by a call that has returned
  live,          \* the blocks in use
  rested,        \* for checking: the time since each cell was freed, up to Wait
  largest        \* for checking: the most cells a request has asked for so far

vars == <<bitmap, header, free_zone, end_address, free_lists, dont_allocate,
          mtx, live, rested, largest>>

Cell     == 0..MaxCells - 1
Cells(b) == b.at..b.at + b.size - 1
Later(age, d) == Min({Wait, age + d})

\* nvmalloc_init.
Init ==
  /\ bitmap = {}
  /\ header = [c \in Cell |-> 0]
  /\ free_zone = 0
  /\ end_address = InitCells
  /\ free_lists = [n \in 1..NR_SIZES + 1 |-> <<>>]
  /\ dont_allocate = <<>>
  /\ mtx = "free"
  /\ live = {}
  /\ rested = [c \in Cell |-> Wait]
  /\ largest = 0

\* The state as a record, for the operators of the code.
Memory == [bitmap |-> bitmap, header |-> header, free_zone |-> free_zone,
           end_address |-> end_address, free_lists |-> free_lists,
           dont_allocate |-> dont_allocate]

Becomes(m) ==
  /\ SumFunction([n \in DOMAIN m.free_lists |-> Len(m.free_lists[n])]) <= MaxHints
  /\ bitmap' = m.bitmap
  /\ header' = m.header
  /\ free_zone' = m.free_zone
  /\ end_address' = m.end_address
  /\ free_lists' = m.free_lists
  /\ dont_allocate' = m.dont_allocate

-----------------------------------------------------------------------------
\* The list for regions of n cells.
getBestFit(n) == IF n > NR_SIZES THEN NR_SIZES + 1 ELSE n

isFreeForward(m, at) ==
  IF at >= m.free_zone THEN 0
  ELSE Min({c \in m.bitmap \cup {m.free_zone} : c >= at}) - at

\* Mutant: a location behind the free zone is looked at all the same.
isFreeBackward_zone(m, at) ==
  at - 1 - Max({-1} \cup {c \in m.bitmap : c < at})

isFreeBackward(m, at) ==
  IF at > m.free_zone THEN 0
  ELSE at - 1 - Max({-1} \cup {c \in m.bitmap : c < at})

\* The free region a hint leads to, as it now is.
Region(m, hint) ==
  LET back == isFreeBackward(m, hint)
  IN  [at |-> hint - back, size |-> isFreeForward(m, hint) + back]

FileHint(m, n, at) == [m EXCEPT !.free_lists[getBestFit(n)] = Append(@, at)]

\* The headers the walk over a region comes to, jumping from each by its
\* size; it stops at a header that is not that of a free block.
Walk(m, r) ==
  LET Jump(c) == IF c < r.at + r.size /\ m.header[c] < 0 THEN c - m.header[c] ELSE c
      step[i \in 0..r.size] ==
        IF i = 0 THEN r.at ELSE CHOOSE c \in {Jump(p) : p \in {step[i - 1]}} : TRUE
  IN  {step[i] : i \in 0..r.size}

\* The walk passes only headers of free blocks and ends with the region;
\* otherwise getFreeLocation exits with "Header corruption detected!".
Tiled(m, r) == r.at + r.size = Max(Walk(m, r))

-----------------------------------------------------------------------------
\* The first hint, from the list for n cells upwards, at a region that is
\* large enough: <<list, position>>.
Hints(m, n)  == UNION {{l} \X DOMAIN m.free_lists[l] : l \in getBestFit(n)..NR_SIZES + 1}
Fitting(m, n) == {h \in Hints(m, n) : Region(m, m.free_lists[h[1]][h[2]]).size >= n}
FirstOf(S)   == CHOOSE h \in S : \A g \in S : h[1] < g[1] \/ (h[1] = g[1] /\ h[2] <= g[2])

\* Every hint looked at is dropped, those at regions too small included.
Dropped(m, n, h) ==
  [m EXCEPT !.free_lists = [l \in DOMAIN @ |->
     IF l \in getBestFit(n)..h[1] - 1 THEN <<>>
     ELSE IF l = h[1] THEN SubSeq(@[l], h[2] + 1, Len(@[l]))
     ELSE @[l]]]

\* Mutants: no header written behind the block; no hint at the rest.
TakeFrom_headless(m, r, n) == IF r.size = n THEN m ELSE FileHint(m, r.size - n, r.at + n)
TakeFrom_unhinted(m, r, n) ==
  IF r.size = n \/ r.at + n \in Walk(m, r) THEN m
  ELSE [m EXCEPT !.header[r.at + n] = n - r.size]

\* The front of a region is taken: the rest gets a header, unless there is
\* one at that very place, and a hint.
TakeFrom(m, r, n) ==
  IF r.size = n THEN m
  ELSE FileHint(IF r.at + n \in Walk(m, r) THEN m
                ELSE [m EXCEPT !.header[r.at + n] = n - r.size],
                r.size - n, r.at + n)

\* Mutant: always the same number of pages.
Grown_least(m, n) == [m EXCEPT !.end_address = @ + NEW_ALLOC_PAGES]

\* getMoreMemory.
Grown(m, n) == [m EXCEPT !.end_address = @ + Max({NEW_ALLOC_PAGES, n})]

\* The block's header; the user's data may look like anything in its cells.
Occupied(m, b) ==
  [m EXCEPT !.bitmap = @ \cup Cells(b),
            !.header = [c \in Cell |-> IF c = b.at THEN b.size
                                       ELSE IF c \in Cells(b) THEN 0 ELSE @[c]]]

-----------------------------------------------------------------------------
\* insertFreeLocation: the region joins the free zone, or gets a header from
\* the block on and hints at its start and, if different, at the block.
insertFreeLocation(m, at, fwd, total) ==
  IF at + fwd >= m.free_zone /\ at < m.free_zone
  THEN [m EXCEPT !.free_zone = at + fwd - total, !.header[at] = 0]
  ELSE LET g == FileHint([m EXCEPT !.header[at] = -fwd], total, at + fwd - total)
       IN  IF fwd = total THEN g ELSE FileHint(g, fwd, at)

\* extendFreeLocation and insertFreeLocation of the block at the head of the
\* queue.
Drained(m) ==
  LET at == Head(m.dont_allocate).at
      g  == [m EXCEPT !.dont_allocate = Tail(@),
                      !.bitmap = @ \ (at..at - m.header[at] - 2)]
      fwd == isFreeForward(g, at)
  IN  insertFreeLocation(g, at, fwd, fwd + isFreeBackward(g, at))

\* Mutant: the wait of the last block freed is looked at.
incrementTime_last(m) ==
  IF m.dont_allocate = <<>> \/ Last(m.dont_allocate).age < Wait - 1 THEN m ELSE Drained(m)

\* incrementTime: at most one block leaves the queue, once its wait is over.
incrementTime(m) ==
  IF m.dont_allocate = <<>> \/ Head(m.dont_allocate).age < Wait THEN m ELSE Drained(m)

\* Time passes, by rdtsc, before a call looks at the queue.
Elapsed(m, d) ==
  [m EXCEPT !.dont_allocate = [i \in DOMAIN @ |->
                                [at |-> @[i].at, age |-> Later(@[i].age, d)]]]

-----------------------------------------------------------------------------
\* The most cells asked for, with a request of n cells.
Larger(n) == IF n > largest THEN n ELSE largest

\* The rest of nvmalloc once getFreeLocation has found block b.
Allocate(m, b, d) ==
  /\ Becomes(incrementTime(Elapsed(Occupied(m, b), d)))
  /\ live' = live \cup {b}
  /\ largest' = Larger(b.size)
  /\ rested' = [c \in Cell |-> Later(rested[c], d)]
  /\ UNCHANGED mtx

\* nvmalloc that takes a free region.
MallocRegion(n, d) ==
  /\ mtx = "free"
  /\ Fitting(Memory, n) # {}
  /\ LET h == FirstOf(Fitting(Memory, n))
         r == Region(Memory, free_lists[h[1]][h[2]])
     IN  /\ Tiled(Memory, r)
         /\ Allocate(TakeFrom(Dropped(Memory, n, h), r, n), [at |-> r.at, size |-> n], d)

\* Every hint for n cells or more has been dropped.
Searched(n) == Dropped(Memory, n, <<NR_SIZES + 2, 0>>)

\* nvmalloc that takes the block from the free zone, growing it if need be.
MallocZone(n, d) ==
  /\ mtx = "free"
  /\ Fitting(Memory, n) = {}
  /\ LET m == IF free_zone + n > end_address THEN Grown(Searched(n), n) ELSE Searched(n)
     IN  /\ m.end_address <= MaxCells
         /\ Allocate([m EXCEPT !.free_zone = @ + n], [at |-> free_zone, size |-> n], d)

\* nvmalloc that finds no memory: it returns NULL and keeps the mutex.
MallocFails(n) ==
  /\ MmapMayFail
  /\ mtx = "free"
  /\ Fitting(Memory, n) = {}
  /\ free_zone + n > end_address
  /\ Becomes(Searched(n))
  /\ mtx' = "kept"
  /\ largest' = Larger(n)
  /\ UNCHANGED <<live, rested>>

putInDNAList(m, at) ==
  [m EXCEPT !.header[at] = -(@ + 1),
            !.dont_allocate = Append(@, [at |-> at, age |-> 0])]

\* nvfree; it exits when the header of the block is not intact.
Free(b, d) ==
  /\ mtx = "free"
  /\ header[b.at] > 0
  /\ Becomes(incrementTime(Elapsed(putInDNAList(Memory, b.at), d)))
  /\ live' = live \ {b}
  /\ rested' = [c \in Cell |-> Later(IF c \in Cells(b) THEN 0 ELSE rested[c], d)]
  /\ UNCHANGED <<mtx, largest>>

Next ==
  \/ \E n \in 1..MaxSize : \/ \E d \in 0..Wait : MallocRegion(n, d) \/ MallocZone(n, d)
                           \/ MallocFails(n)
  \/ \E b \in live, d \in 0..Wait : Free(b, d)

Spec == Init /\ [][Next]_vars

-----------------------------------------------------------------------------
TypeOK ==
  /\ bitmap \subseteq Cell
  /\ header \in [Cell -> -(MaxCells + 1)..MaxCells]
  /\ free_zone \in 0..end_address /\ end_address \in InitCells..MaxCells
  /\ \A n \in 1..NR_SIZES + 1 : free_lists[n] \in Seq(0..MaxCells)
  /\ dont_allocate \in Seq([at : Cell, age : 0..Wait])
  /\ live \subseteq [at : Cell, size : 1..MaxSize]
  /\ largest \in 0..MaxSize

\* The blocks that wait, as their headers describe them.
Waiting == {[at |-> w.at, size |-> -header[w.at] - 1] : w \in ToSet(dont_allocate)}

\* The set bits are those of the blocks in use and of those that wait, no two
\* of which overlap, and each has its header: what nvfree and incrementTime
\* will take the size of a block to be.
BlocksAccounted ==
  /\ \A b \in live : header[b.at] = b.size
  /\ Cardinality(Waiting) = Len(dont_allocate)
  /\ bitmap = UNION {Cells(b) : b \in live \cup Waiting}
  /\ \A b, c \in live \cup Waiting : b # c => Cells(b) \cap Cells(c) = {}

\* The free regions below the free zone, each as large as it can be.
FreeRegions ==
  LET free == 0..free_zone - 1 \ bitmap
  IN  {[at |-> c, size |-> isFreeForward(Memory, c)] : c \in {x \in free : x - 1 \notin free}}

\* Every free region is tiled by the headers in it, however it came about by
\* splitting and merging, so no search ends in "Header corruption detected!",
\* and none borders on the free zone.
RegionsTiled ==
  /\ \A r \in FreeRegions : Tiled(Memory, r)
  /\ free_zone > 0 => free_zone - 1 \in bitmap

\* A search drops every hint it passes (nvmalloc.c:332), also at a region of
\* the last list that is too small for it: regions larger than the exact lists
\* hold, but smaller than a request there has been, may be lost to nvmalloc.
\* Every other free region has a hint that leads to it in the list where a
\* request of its size looks first, although hints are dropped freely and may
\* point into blocks, behind the free zone or at a region that has changed.
RegionsHinted ==
  \A r \in FreeRegions :
    r.size <= NR_SIZES \/ r.size >= largest =>
      \E i \in 1..Len(free_lists[getBestFit(r.size)]) :
        Region(Memory, free_lists[getBestFit(r.size)][i]) = r

\* No cell is allocated again before the wait is over since it was freed.
RestsBeforeReuse == [][\A b \in live' \ live : \A c \in Cells(b) : rested[c] = Wait]_vars
=============================================================================
