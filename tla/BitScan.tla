------------------------------- MODULE BitScan -------------------------------
(***************************************************************************)
(* How span_clock_allocate finds the next free block of a span (hpnmalloc.c *)
(* with LOW1BIT): the lowest set bit of a 64-bit word beyond the hand is    *)
(* isolated, and its place is read from a table of 32 entries by a de       *)
(* Bruijn multiplication, for the lower or for the upper half of the word.  *)
(*                                                                         *)
(* A word is the set of its one bits.  Module Span has the result, FirstFree*)
(* and Rescans; here is the way to it, at the real width.                   *)
(***************************************************************************)
EXTENDS Integers, FiniteSetsExt

CONSTANT FreedBits  \* bound of the model on the blocks that are freed again

VARIABLES
  bitmap,   \* the free blocks of the span
  cur_pos,
  last_pos  \* number of the last block

vars == <<bitmap, cur_pos, last_pos>>

Bits == 0..63
Half == 0..31

\* MASK >> (64 - total_block_num), for a page cut into blocks of k * 64 bytes.
Full(n) == 0..n - 1
Totals  == {64 \div k : k \in 1..64}

Init ==
  /\ last_pos \in Totals
  /\ bitmap = Full(last_pos)
  /\ cur_pos = 0

-----------------------------------------------------------------------------
bitmap_auxiliary_array ==
  <<1, 2, 29, 3, 30, 15, 25, 4, 31, 23, 21, 16, 26, 18, 5, 9,
    32, 28, 14, 24, 22, 20, 17, 8, 27, 13, 19, 7, 12, 6, 11, 10>>
DeBruijn == 125613361  \* 0x077CB531

\* (X * DeBruijn) >> 27 in 32 bits, for X = 2^k.
TableIndex(k) ==
  IF k <= 27 THEN (DeBruijn \div 2^(27 - k)) % 32 ELSE ((DeBruijn % 32) * 2^(k - 27)) % 32

\* LOW1BIT of a half with one bit at most.
LOW1BIT(half) ==
  bitmap_auxiliary_array[1 + IF half = {} THEN 0 ELSE TableIndex(CHOOSE k \in half : TRUE)]

PlusOne(w) ==
  IF w = Bits THEN {}
  ELSE LET zero == Min(Bits \ w) IN (w \ (0..zero - 1)) \cup {zero}

\* w & (~w + 1).
Isolated(w) == w \cap PlusOne(Bits \ w)

Ahead(w, pos) == w \cap {b \in Bits : b >= pos}

\* The hand is at the end, or no bit beyond it is set.  At the end the shift
\* by cur_pos may be one by 64; what it yields is not looked at.
Restarts == cur_pos = last_pos \/ Ahead(bitmap, cur_pos) = {}
Start    == IF Restarts THEN 0 ELSE cur_pos

\* Mutant: the upper half looked up as the lower one.
Scan_low(w) ==
  LET one == Isolated(w) IN LOW1BIT({b % 32 : b \in one})

Scan(w) ==
  LET one == Isolated(w)
  IN  IF one \cap Half # {} THEN LOW1BIT(one \cap Half)
      ELSE LOW1BIT({b - 32 : b \in one}) + 32

\* span_clock_allocate of a span with a free block; the charge for the wear
\* is in module Span.
Malloc ==
  /\ bitmap # {}
  /\ LET pos == Scan(Ahead(bitmap, Start))
     IN  cur_pos' = pos /\ bitmap' = bitmap \ {pos - 1}
  /\ UNCHANGED last_pos

\* small_free; an emptied span is initialised before its next use.
Free(b) ==
  /\ b \in Full(last_pos) \ bitmap
  /\ bitmap' = bitmap \cup {b}
  /\ cur_pos' = IF bitmap' = Full(last_pos) THEN 0 ELSE cur_pos
  /\ UNCHANGED last_pos

Next == Malloc \/ \E b \in FreedBits : Free(b)

Spec == Init /\ [][Next]_vars

-----------------------------------------------------------------------------
\* The block handed out is the lowest free one from the hand on, for spans of
\* every number of blocks and with free blocks at the edges of the halves and
\* of the word: never one in use, and none is skipped.
ScanFindsLowest ==
  bitmap # {} => Scan(Ahead(bitmap, Start)) = Min(Ahead(bitmap, Start)) + 1
=============================================================================
