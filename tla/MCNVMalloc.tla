----------------------------- MODULE MCNVMalloc -----------------------------
(***************************************************************************)
(* NVMalloc for TLC: the abstract allocator.                                *)
(***************************************************************************)
EXTENDS NVMalloc

Blocks == [at : Cell, size : 1..MaxSize]

Abstract == INSTANCE BlockAllocator
  WITH Thread <- {"caller"}, Blocks <- Blocks, Cells <- Cells,
       inUse <- [t \in {"caller"} |-> live]

\* nvmalloc and nvfree implement malloc and free: waiting, splitting and
\* merging never let a block overlap one in use.
ImplementsBlockAllocator == Abstract!Spec
=============================================================================
