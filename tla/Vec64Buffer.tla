----------------------------- MODULE Vec64Buffer -----------------------------
(***************************************************************************)
(* The buffer of a Vec64<T> (src/src/vec64.rs) in an address space of      *)
(* bytes, and the page-moving kernel calls that Vec64 makes behind the     *)
(* allocator's back.                                                       *)
(*                                                                         *)
(* An element is a token t that occupies elem consecutive bytes; byte k of *)
(* it is the pair <<t, k>>, so an element that is moved in part, or over   *)
(* another one, can be told from a whole one.                              *)
(***************************************************************************)
EXTENDS AddressSpace, Sequences

CONSTANTS
    Page,        \* the system page size, sysconf(_SC_PAGESIZE)
    MaxTokens,   \* bound: how many elements there ever are
    Torn         \* what is read where no whole element lies

ASSUME PageAssumption == Page \in Nat \ {0} /\ HugePage % Page = 0
ASSUME MaxTokensAssumption == MaxTokens \in Nat

Tokens == 1 .. MaxTokens

ASSUME TornAssumption == Torn \notin Tokens

\* A buffer: its address, the size of an element and the capacity.
Buffer(at, elem, cap) == [at |-> at, elem |-> elem, cap |-> cap]

CapBytes(b) == b.cap * b.elem

\* The bytes that the allocator has taken for the buffer.
Extents(b) == Extent(b.at, BlockSize(CapBytes(b)))

KindOf(size) == IF ~uses_mmap(size) THEN "heap"
                ELSE IF uses_giant_pages(size) THEN "giant" ELSE "pages"

\* The address of element i, counted from 0.
ElementAddress(b, i) == b.at + i * b.elem

ReadsAs(a, elem, t) == \A k \in 0 .. elem - 1 : memory[a + k] = <<t, k>>

ElementAt(a, elem) ==
    IF \E t \in Tokens : ReadsAs(a, elem, t)
    THEN CHOOSE t \in Tokens : ReadsAs(a, elem, t) ELSE Torn

\* The elements lo .. hi-1 of the buffer, in order.
Elements(b, lo, hi) ==
    [i \in 1 .. hi - lo |-> ElementAt(ElementAddress(b, lo + i - 1), b.elem)]

\* mem with the elements of the sequence s in the buffer from element lo on.
Stored(mem, b, lo, s) ==
    [x \in Addresses |->
        IF x \in Extent(ElementAddress(b, lo), Len(s) * b.elem)
        THEN LET y == x - ElementAddress(b, lo)
             IN <<s[y \div b.elem + 1], y % b.elem>>
        ELSE mem[x]]

\* What the allocator's deallocate does with the buffer; it ignores what munmap
\* answers.
Deallocates(b) ==
    IF uses_mmap(CapBytes(b))
    THEN Unmaps(b.at, mapped_size(CapBytes(b)))
    ELSE free(b.at, CapBytes(b))

-----------------------------------------------------------------------------
(* Kernel calls on pages *)

Aligned(x) == x % Page = 0

\* mremap of n bytes from a onto b with MREMAP_FIXED: whatever was mapped at b
\* is replaced, unless that would split a gigantic page.  With MREMAP_DONTUNMAP
\* (keep) the source stays mapped, as pages that read as zeros.
mremap_fixed(a, n, b, keep) ==
    /\ Aligned(a) /\ Aligned(n) /\ Aligned(b)
    /\ Extent(a, n) \cap Extent(b, n) = {}
    /\ Covers(a, n, "pages") /\ ~Splits(b, n)
    /\ mapping' = Painted(Painted(mapping, a, n, IF keep THEN "pages" ELSE "none"),
                          b, n, "pages")
    /\ memory' = [x \in Addresses |->
          IF x \in Extent(b, n) THEN memory[a + x - b]
          ELSE IF x \in Extent(a, n) THEN IF keep THEN Zero ELSE Junk
          ELSE memory[x]]

\* madvise with MADV_FREE: the pages stay mapped, and from now on the kernel may
\* replace what they hold by zeros at any time until they are written again.
madvise_free(a, n) ==
    /\ memory' = Painted(memory, a, n, Junk)
    /\ UNCHANGED mapping

=============================================================================
