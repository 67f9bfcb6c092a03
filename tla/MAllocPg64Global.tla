-------------------------- MODULE MAllocPg64Global --------------------------
(***************************************************************************)
(* The global allocator MAllocPg64Global of src/src/global.rs.  It has     *)
(* handlers of its own over the same helpers of mmap_alloc.rs, with one    *)
(* `realloc` for growing and shrinking that decides by the sizes.  What a  *)
(* handler does equally in both files is the action of MAllocPg64.         *)
(*                                                                         *)
(* GlobalAlloc asks for the very layout that the block was allocated with, *)
(* so a client names the size it asked for last.                           *)
(*                                                                         *)
(* Installed as the global allocator it serves the other collections of a  *)
(* process, while each Vec64 calls MAllocPg64 itself (lib.rs, Vec64Alloc): *)
(* both work on one address space.                                         *)
(***************************************************************************)
EXTENDS MAllocPg64Contract

CONSTANT Globals     \* the clients that call the global allocator

ASSUME GlobalsAssumption == Globals \subseteq Clients

GlobalRequest(c) ==
    /\ Request(c)
    /\ Owns(c) => call'[c].old = block[c].size
    /\ call'[c].op # "grow_zeroed"

\* alloc and alloc_zeroed
alloc(c) == AllocateOnHeap(c) \/ AllocateMapped(c)

dealloc(c) == Deallocate(c)

\* realloc, with both sizes on the heap
reallocOnHeap(c) == GrowOnHeap(c) \/ ShrinkOnHeap(c)

reallocToMmap(c) == GrowToMmap(c)

reallocToHeap(c) == ShrinkToHeap(c)

\* realloc, with both sizes mapped
reallocWithin(c) == GrowWithin(c) \/ ShrinkWithin(c)

reallocFromGiant(c) == ShrinkFromGiant(c)

reallocTail(c) == ShrinkTail(c)

\* Mutant: the old pages are left behind by a growth that moves.
reallocRemap_Leaves(c) ==
    /\ At(c, {"grow"}, "start") /\ BothMapped(c) /\ ~SameExtent(c)
    /\ \/ \E a \in Places :
             /\ do_mmap(a, call[c].new, mapped_size(call[c].new))
             /\ Returns(c, a, mapped_size(call[c].new))
       \/ Fails(c)

\* Growing remaps, and gives up when the kernel refuses: there is no fresh
\* mapping and no copy as in MAllocPg64::grow.
reallocRemap(c) ==
    /\ At(c, {"grow"}, "start") /\ BothMapped(c) /\ ~SameExtent(c)
    /\ \/ \E a \in Addresses :
             /\ mremap(block[c].at, mapped_size(call[c].old),
                       a, mapped_size(call[c].new))
             /\ Returns(c, a, mapped_size(call[c].new))
       \/ Fails(c)

realloc_steps(c) ==
    \/ reallocOnHeap(c) \/ reallocToMmap(c) \/ reallocToHeap(c)
    \/ reallocWithin(c) \/ reallocFromGiant(c) \/ reallocTail(c) \/ reallocRemap(c)
    \/ CopyOver(c) \/ ReleaseOld(c)

GlobalNext ==
    \/ \E c \in Globals : GlobalRequest(c) \/ alloc(c) \/ dealloc(c) \/ realloc_steps(c)
    \/ \E c \in Clients \ Globals : Request(c) \/ Step(c)
    \/ \E c \in Clients : Write(c)

GlobalSpec == Init /\ [][GlobalNext]_vars

=============================================================================
