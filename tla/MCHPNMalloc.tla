---------------------------- MODULE MCHPNMalloc ----------------------------
(***************************************************************************)
(* HPNMalloc for TLC: the abstract allocator it implements.                 *)
(***************************************************************************)
EXTENDS HPNMalloc

SmallBlocks == UNION {{Block(s, k, c + 1) : s \in Spans, k \in 1..TotalBlocks(c)} : c \in Class}
LargeBlocks == {Block(s, 0, n) : s \in Spans, n \in LargeSize}

Abstract == INSTANCE BlockAllocator
  WITH Blocks <- SmallBlocks \cup LargeBlocks, Cells <- Cells, inUse <- live

\* hpnmalloc and hpnfree implement malloc and free.
ImplementsBlockAllocator == Abstract!Spec
=============================================================================
