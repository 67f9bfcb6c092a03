------------------------------ MODULE PageSizes ------------------------------
(***************************************************************************)
(* The size arithmetic of src/src/mmap_alloc.rs.  The allocator keeps no   *)
(* record of a block: which regime the block lives in (heap, huge pages,   *)
(* gigantic pages) and how far its mapping extends is computed anew from   *)
(* the size in every call.                                                 *)
(*                                                                         *)
(* Both page sizes are powers of two in the code and rounding is done with *)
(* a mask; rounding needs no more than that they are positive.  A Layout   *)
(* is at most isize::MAX bytes, so `size + page - 1` does not wrap.        *)
(***************************************************************************)
EXTENDS Integers

CONSTANTS
    HugePage,        \* HUGE_PAGE, which build.rs generates
    GiganticPage,    \* GIGANTIC_PAGE
    GiantPages       \* the cargo feature giant_pages

ASSUME HugePageAssumption == HugePage \in Nat \ {0}
ASSUME GiganticPageAssumption ==
    GiganticPage \in Nat \ {0} /\ GiganticPage % HugePage = 0
ASSUME GiantPagesAssumption == GiantPages \in BOOLEAN

\* Whether a block of this size is mapped rather than taken from the heap.
uses_mmap(size) == size >= HugePage

\* Whether a block of this size is mapped with gigantic pages.
uses_giant_pages(size) == GiantPages /\ size >= GiganticPage

RoundUp(size, page) == ((size + page - 1) \div page) * page

\* Mutant: the mask is added whole, so a multiple is rounded up too.
mapped_size_OffByOne(size) ==
    IF uses_giant_pages(size)
    THEN RoundUp(size + 1, GiganticPage)
    ELSE RoundUp(size + 1, HugePage)

\* The bytes mapped for a block of this size.
mapped_size(size) ==
    IF uses_giant_pages(size)
    THEN RoundUp(size, GiganticPage)
    ELSE IF size = 0 THEN HugePage ELSE RoundUp(size, HugePage)

\* The length of the block that the allocator returns for this size.
BlockSize(size) == IF uses_mmap(size) THEN mapped_size(size) ELSE size

=============================================================================
