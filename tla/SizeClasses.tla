---------------------------- MODULE SizeClasses ----------------------------
(***************************************************************************)
(* The size classes of TCNVMalloc (tcnvmalloc.c): maps_init fills the two   *)
(* tables that size2cls looks a request up in, one loop after the other,    *)
(* both driven by the class reached so far.                                 *)
(***************************************************************************)
EXTENDS Naturals

VARIABLES
  phase,     \* the loop maps_init is in, or "done"
  cur_size,
  cur_class,
  sizemap,   \* class of sizes up to 1024, in steps of 8
  sizemap2   \* class of sizes up to 65536, in steps of 512

Slot  == 0..255
Slot2 == 0..127

vars == <<phase, cur_size, cur_class, sizemap, sizemap2>>

CHUNK_DATA_SIZE     == 16 * 4096
DEFAULT_BLOCK_CLASS == 48
LARGE_CLASS         == 100

\* cls2size: 16 to 256 in steps of 8, then one and a half and twice 2^k * 256;
\* the entries the loops leave alone are zero.
Class == 0..127
cls2size ==
  [c \in Class |-> IF c <= 30 THEN 16 + 8 * c
                   ELSE IF c > 46 THEN 0
                   ELSE IF (c - 31) % 2 = 0 THEN 384 * 2^((c - 31) \div 2)
                   ELSE 512 * 2^((c - 31) \div 2)]

Init ==
  /\ phase = "sizemap"
  /\ cur_size = 8
  /\ cur_class = 0
  /\ sizemap = [i \in Slot |-> 0]
  /\ sizemap2 = [i \in Slot2 |-> 0]

-----------------------------------------------------------------------------
\* The class moves on by one at most, however far the size has moved.
Advanced(size, c) == IF size > cls2size[c] THEN c + 1 ELSE c

FillSizemap ==
  /\ phase = "sizemap"
  /\ LET c == Advanced(cur_size, cur_class)
     IN  /\ cur_class' = c
         /\ sizemap' = [sizemap EXCEPT ![(cur_size - 1) \div 8] = c]
  /\ IF cur_size + 8 <= 1024
     THEN cur_size' = cur_size + 8 /\ UNCHANGED phase
     ELSE cur_size' = 1024 /\ phase' = "sizemap2"
  /\ UNCHANGED sizemap2

FillSizemap2 ==
  /\ phase = "sizemap2"
  /\ LET c == Advanced(cur_size, cur_class)
     IN  /\ cur_class' = c
         /\ sizemap2' = [sizemap2 EXCEPT ![(cur_size - 1) \div 512] = c]
  /\ cur_size' = cur_size + 512
  /\ phase' = IF cur_size + 512 <= 65536 THEN phase ELSE "done"
  /\ UNCHANGED sizemap

Next == FillSizemap \/ FillSizemap2

Spec == Init /\ [][Next]_vars

\* Mutant: the boundary between the tables belongs to the second.
size2cls_boundary(size) ==
  IF size < 1024 THEN sizemap[(size - 1) \div 8]
  ELSE IF size <= 65536 THEN sizemap2[size \div 512]
  ELSE LARGE_CLASS

size2cls(size) ==
  IF size <= 1024 THEN sizemap[(size - 1) \div 8]
  ELSE IF size <= 65536 THEN sizemap2[(size - 1) \div 512]
  ELSE LARGE_CLASS

-----------------------------------------------------------------------------
\* A request is served from the smallest class that holds it, a class of
\* which a chunk holds at least one block, and only a request larger than
\* every class is a large one.  The two tables agree with the one list of
\* classes at every byte, the boundaries between classes and between the
\* tables included.
SmallestClass ==
  phase = "done" =>
    /\ \A size \in 1..CHUNK_DATA_SIZE :
         LET c == size2cls(size)
         IN  /\ c < DEFAULT_BLOCK_CLASS
             /\ size <= cls2size[c]
             /\ c = 0 \/ cls2size[c - 1] < size
             /\ cls2size[c] <= CHUNK_DATA_SIZE
    /\ size2cls(CHUNK_DATA_SIZE + 1) = LARGE_CLASS
=============================================================================
