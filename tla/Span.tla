-------------------------------- MODULE Span --------------------------------
(***************************************************************************)
(* The header of a span (hpnmalloc.h, struct span and its                   *)
(* small_block_bitmap): one page cut into equal blocks that a clock hand    *)
(* walks over.  The operators are pure: each takes the fields of a header   *)
(* and returns the header the code leaves behind.  Block b is the bit b - 1 *)
(* of the code's 64-bit bitmap; a set bit is a free block.                  *)
(***************************************************************************)
EXTENDS Integers, FiniteSets

SpanState(n, maxWear) ==
  [bitmap : SUBSET (1..n), cur_pos : 0..n, free_block_num : 0..n, wear_count : 0..maxWear]

\* The small-block half of span_init: every block free, the hand at the
\* start, and wear_count left alone.
SpanInit(s, n) ==
  [s EXCEPT !.bitmap = 1..n, !.cur_pos = 0, !.free_block_num = n]

\* The hand is at the end of the span, or no block beyond it is free.
Rescans(s, n) == s.cur_pos = n \/ \A b \in s.bitmap : b <= s.cur_pos

\* A rescan costs one unit of wear; at the threshold it is refused.
Refuses(s, n, threshold) == Rescans(s, n) /\ s.wear_count + 1 >= threshold

\* Mutant: a rescan that is not charged.
RescannedUncharged(s, n) == IF Rescans(s, n) THEN [s EXCEPT !.cur_pos = 0] ELSE s

Rescanned(s, n) ==
  IF Rescans(s, n) THEN [s EXCEPT !.wear_count = @ + 1, !.cur_pos = 0] ELSE s

IsLowest(b, S) == b \in S /\ \A c \in S : b <= c

\* The lowest free block beyond the hand.  With no such block both halves of
\* the bitmap are zero, and LOW1BIT(0) + 32 = 33 is what the code computes.
FirstFree(bitmap, cur_pos) ==
  LET ahead == {b \in bitmap : b > cur_pos}
  IN  IF ahead = {} THEN 33 ELSE CHOOSE b \in ahead : IsLowest(b, ahead)

\* Mutants: free_block_num not decremented; the end of a pass not charged.
HandedOutUncounted(s, n, pos) ==
  [s EXCEPT !.cur_pos = pos, !.bitmap = @ \ {pos},
            !.wear_count = IF pos = n THEN @ + 1 ELSE @]
HandedOutUncharged(s, n, pos) ==
  [s EXCEPT !.cur_pos = pos, !.bitmap = @ \ {pos}, !.free_block_num = @ - 1]

\* The header after block pos is handed out: the hand moves onto it, and
\* reaching the last block costs another unit of wear.
HandedOut(s, n, pos) ==
  [s EXCEPT !.cur_pos        = pos,
            !.bitmap         = @ \ {pos},
            !.wear_count     = IF pos = n THEN @ + 1 ELSE @,
            !.free_block_num = @ - 1]

\* Mutants: the bit of the freed block is never set; the block is not counted.
FreedLost(s, n, pos) == [s EXCEPT !.free_block_num = @ + 1]
FreedUncounted(s, n, pos) == [s EXCEPT !.bitmap = @ \cup {pos}]

\* small_free's bookkeeping.  The bit of the block that empties the span is
\* not set again: the span is initialised afresh before its next use.
Freed(s, n, pos) ==
  [s EXCEPT !.free_block_num = @ + 1,
            !.bitmap = IF s.free_block_num + 1 = n THEN @ ELSE @ \cup {pos}]
=============================================================================
