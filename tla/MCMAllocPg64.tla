---------------------------- MODULE MCMAllocPg64 ----------------------------
(* A small instance of MAllocPg64 and its contract for TLC. *)
EXTENDS MAllocPg64Contract, TLC

CONSTANTS c1, c2

Symmetry == Permutations({c1, c2})

=============================================================================
