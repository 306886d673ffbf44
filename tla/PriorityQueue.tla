--------------------------- MODULE PriorityQueue ---------------------------
(***************************************************************************)
(* The priority queue of worn chunks (TCNVMalloc/src/pq.c): a binary heap   *)
(* in an array that doubles when full and halves when a quarter full.  The  *)
(* reaper files a returned chunk with one more unit of wear and             *)
(* gpool_acquire_chunk takes the least worn one.                            *)
(*                                                                         *)
(* "heap" holds the entries pq[1 .. nalloc]; pq[0] is never used, and what  *)
(* lies beyond nalloc is never read.  "size" is the length of the array.    *)
(***************************************************************************)
EXTENDS Naturals, SequencesExt, FiniteSets

CONSTANTS
  Chunk,    \* the chunks
  InitSize, \* PQ_DEFAULT_SIZE
  MaxWear   \* bound of the model on wear_tot

VARIABLES
  pq,       \* [heap, size]
  wear_tot, \* wear of each chunk
  queued    \* for checking: the chunks filed and not yet taken out

vars == <<pq, wear_tot, queued>>

nalloc(q)   == Len(q.heap)
chunk_comp(i, j) == wear_tot[i] < wear_tot[j]

Init ==
  /\ pq = [heap |-> <<>>, size |-> InitSize + 1]
  /\ wear_tot = [c \in Chunk |-> 0]
  /\ queued = {}

-----------------------------------------------------------------------------
exch(h, i, j) == [h EXCEPT ![i] = h[j], ![j] = h[i]]

\* swim: while the entry beats its parent, wear giving the order.
swim(h, k, wear) ==
  LET Up(s)     == [heap |-> exch(s.heap, s.at, s.at \div 2), at |-> s.at \div 2]
      Rises(s)  == s.at > 1 /\ wear[s.heap[s.at]] < wear[s.heap[s.at \div 2]]
      up[i \in 0..k] ==
        IF i = 0 THEN [heap |-> h, at |-> k]
        ELSE CHOOSE s \in {IF Rises(p) THEN Up(p) ELSE p : p \in {up[i - 1]}} : TRUE
  IN  up[k].heap

\* The child sink compares with: the right one only if it beats the left.
Child(h, k) ==
  IF 2 * k < Len(h) /\ chunk_comp(h[2 * k + 1], h[2 * k]) THEN 2 * k + 1 ELSE 2 * k

\* Mutant: the left child always.
sink_left(h, k) ==
  LET Sinks(s)  == 2 * s.at <= Len(h) /\ chunk_comp(s.heap[2 * s.at], s.heap[s.at])
      Down(s)   == [heap |-> exch(s.heap, s.at, 2 * s.at), at |-> 2 * s.at]
      down[i \in 0..Len(h)] ==
        IF i = 0 THEN [heap |-> h, at |-> k]
        ELSE CHOOSE s \in {IF Sinks(p) THEN Down(p) ELSE p : p \in {down[i - 1]}} : TRUE
  IN  down[Len(h)].heap

\* sink: while a child beats the entry.
sink(h, k) ==
  LET Sinks(s)  == 2 * s.at <= Len(h) /\ chunk_comp(s.heap[Child(s.heap, s.at)], s.heap[s.at])
      Down(s)   == [heap |-> exch(s.heap, s.at, Child(s.heap, s.at)), at |-> Child(s.heap, s.at)]
      down[i \in 0..Len(h)] ==
        IF i = 0 THEN [heap |-> h, at |-> k]
        ELSE CHOOSE s \in {IF Sinks(p) THEN Down(p) ELSE p : p \in {down[i - 1]}} : TRUE
  IN  down[Len(h)].heap


Grown(q)  == IF nalloc(q) + 1 = q.size THEN 2 * q.size ELSE q.size
Shrunk(q) ==
  IF nalloc(q) > 0 /\ nalloc(q) <= (q.size - 1) \div 4 THEN q.size \div 2 ELSE q.size

pq_min(q) == q.heap[1]

pq_insert(q, c, wear) ==
  [heap |-> swim(Append(q.heap, c), nalloc(q) + 1, wear), size |-> Grown(q)]

\* Mutant: the last entry dropped, the first left in place.
pq_delmin_last(q) ==
  LET rest == [q EXCEPT !.heap = Front(q.heap)]
  IN  [heap |-> sink(rest.heap, 1), size |-> Shrunk(rest)]

pq_delmin(q) ==
  LET rest == [q EXCEPT !.heap = Front(exch(q.heap, 1, nalloc(q)))]
  IN  [heap |-> IF rest.heap = <<>> THEN <<>> ELSE sink(rest.heap, 1),
       size |-> Shrunk(rest)]

-----------------------------------------------------------------------------
\* reap_chunk: a chunk off the pool's free list wears and is filed.
Reap(c) ==
  /\ c \notin queued /\ wear_tot[c] < MaxWear
  /\ wear_tot' = [wear_tot EXCEPT ![c] = @ + 1]
  /\ pq' = pq_insert(pq, c, wear_tot')
  /\ queued' = queued \cup {c}

\* gpool_acquire_chunk with the untouched memory used up.
TakeMin ==
  /\ nalloc(pq) > 0
  /\ pq' = pq_delmin(pq)
  /\ queued' = queued \ {pq_min(pq)}
  /\ UNCHANGED wear_tot

Next == TakeMin \/ \E c \in Chunk : Reap(c)

Spec == Init /\ [][Next]_vars

-----------------------------------------------------------------------------
\* The chunks in the heap are those filed and not taken out, each once: exch,
\* swim, sink and the two resizes neither lose nor copy an entry.  The array
\* has room for them and the unused pq[0]: pq_insert tests for a full array
\* by equality, so one missed step would write past its end for good.
HoldsQueued ==
  /\ nalloc(pq) < pq.size
  /\ ToSet(pq.heap) = queued
  /\ nalloc(pq) = Cardinality(queued)

\* What gpool_acquire_chunk takes is a least worn chunk of those that wait,
\* whatever the order in which they came back.
LeastWornFirst ==
  [][\A c \in queued \ queued' : \A d \in queued : wear_tot[c] <= wear_tot[d]]_vars
=============================================================================
