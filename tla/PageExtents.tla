---------------------------- MODULE PageExtents ----------------------------
(***************************************************************************)
(* What a page allocator promises: it hands out runs of pages that overlap  *)
(* nothing it has handed out before and not got back.                       *)
(***************************************************************************)
EXTENDS Integers

CONSTANTS
  LastPage,  \* the pages are 0..LastPage
  MaxRun     \* most pages of one extent

VARIABLE alloc  \* the extents in use

Extent   == [first : 0..LastPage, pages : 1..MaxRun]
Pages(e) == e.first..e.first + e.pages - 1

Init == alloc = {}

Acquire ==
  \E e \in Extent :
    /\ \A f \in alloc : Pages(e) \cap Pages(f) = {}
    /\ alloc' = alloc \cup {e}

Release == \E e \in alloc : alloc' = alloc \ {e}

Next == Acquire \/ Release
Spec == Init /\ [][Next]_alloc
=============================================================================
