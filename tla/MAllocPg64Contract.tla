------------------------- MODULE MAllocPg64Contract -------------------------
(***************************************************************************)
(* MAllocPg64 keeps the contract of an allocator.  The bytes of a block    *)
(* are read from the memory at its address in every state, so the mapping  *)
(* fails as soon as memory is taken from under an owner, or a client's     *)
(* call touches another client's block.                                    *)
(***************************************************************************)
EXTENDS MAllocPg64

CONSTANT NoRequest

\* The request of a client that is not in a call is none that it could make.
ASSUME NoRequestAssumption == NoRequest \notin [op : Ops, old : Nat, new : Nat]

Contract == INSTANCE BlockContract WITH
    request <- [c \in Clients |->
                  IF Idle(c) THEN NoRequest
                  ELSE [op |-> call[c].op, old |-> call[c].old, new |-> call[c].new]],
    size <- [c \in Clients |-> block[c].size],
    bytes <- [c \in Clients |->
                [i \in 0 .. block[c].len - 1 |-> memory[block[c].at + i]]]

\* A returned block has at least the size asked for and holds what the trait
\* says: what was in the old one up to the smaller size, zeros where they are
\* promised.  A call that fails leaves the block as it was, in each regime and
\* with refusals at every kernel call, whatever other clients do meanwhile.
KeepsContract == Contract!Spec

=============================================================================
