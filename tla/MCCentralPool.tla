--------------------------- MODULE MCCentralPool ---------------------------
(***************************************************************************)
(* CentralPool on one area, for TLC.                                        *)
(***************************************************************************)
EXTENDS CentralPool

CONSTANT TheArea

Abstract == INSTANCE PageExtents
  WITH LastPage <- AreaPages - 1, MaxRun <- LARGE, alloc <- AllocOf(TheArea)

\* The pool implements the abstract allocator: every extent acquire_span
\* returns is free of all the extents in use.
ImplementsPageExtents == Abstract!Spec
=============================================================================
