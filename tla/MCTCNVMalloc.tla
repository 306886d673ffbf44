---------------------------- MODULE MCTCNVMalloc ----------------------------
(***************************************************************************)
(* TCNVMalloc for TLC: classes and areas, and the abstract allocator.       *)
(***************************************************************************)
EXTENDS TCNVMalloc

TwoClasses == <<1, 2>>
TwoAreas   == <<12, 8>>

Places == {[at |-> x, size |-> n] : x \in 1..Len(hardware_mc) * PoolGap, n \in ToSet(Size)}

Abstract == INSTANCE BlockAllocator
  WITH Thread <- Thread, Blocks <- Places, Cells <- Cells,
       inUse <- live

\* wa_malloc and wa_free implement malloc and free, as long as no chunk serves
\* a class larger than the one it is cut for.
ImplementsWhenSized == [](\A b \in AllLive : ~Undersized(b)) => Abstract!Spec
=============================================================================
