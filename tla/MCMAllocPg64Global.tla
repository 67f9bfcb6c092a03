------------------------- MODULE MCMAllocPg64Global -------------------------
(* A Vec64 on MAllocPg64 next to a collection on the global allocator, for TLC. *)
EXTENDS MAllocPg64Global

CONSTANTS c1, c2

=============================================================================
