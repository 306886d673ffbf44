--------------------------- MODULE BlockAllocator ---------------------------
(***************************************************************************)
(* What malloc and free promise to concurrent threads: a block handed out   *)
(* shares no cell with a block in use, and only its holder gives it back.   *)
(***************************************************************************)
CONSTANTS
  Thread,
  Blocks,    \* the blocks there can be
  Cells(_)   \* the cells of memory a block covers

VARIABLE inUse  \* the blocks of each thread

Init == inUse = [t \in Thread |-> {}]

Malloc(t) ==
  \E b \in Blocks :
    /\ inUse' = [inUse EXCEPT ![t] = @ \cup {b}]
    /\ \A u \in Thread : \A c \in inUse[u] : Cells(b) \cap Cells(c) = {}

Free(t) == \E b \in inUse[t] : inUse' = [inUse EXCEPT ![t] = @ \ {b}]

Next == \E t \in Thread : Malloc(t) \/ Free(t)
Spec == Init /\ [][Next]_inUse
=============================================================================
