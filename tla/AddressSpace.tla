---------------------------- MODULE AddressSpace ----------------------------
(***************************************************************************)
(* The memory of the process as the kernel and the system heap manage it:  *)
(* what src/src/mmap_alloc.rs and src/src/global.rs call, modelled from    *)
(* how they use it.  Every call is one step for the other threads, because *)
(* the kernel changes mappings under a lock of its own.                    *)
(*                                                                         *)
(* Each call may be refused.  The caller's module states the refusal: it   *)
(* leaves this state as it is.  A call that succeeds may place a mapping   *)
(* at any free address of Places.                                          *)
(***************************************************************************)
EXTENDS PageSizes

CONSTANTS
    Top,       \* bound: addresses are 0 .. Top-1
    Places,    \* bound: the addresses at which a new block may be placed
    Zero,      \* the content of a byte that the kernel or calloc has zeroed
    Junk       \* the content of a byte that nobody has initialised

ASSUME TopAssumption == Top \in Nat \ {0}
ASSUME PlacesAssumption == Places \subseteq 0 .. Top - 1

VARIABLES
    mapping,   \* mapping[a]: who provides the byte at address a
    memory     \* memory[a]: its content

Addresses == 0 .. Top - 1

\* "lost" are pages that the process has tried to unmap: no one will again.
Kinds == {"none", "heap", "pages", "giant", "lost"}

Extent(a, n) == a .. a + n - 1

Covers(a, n, kind) ==
    /\ Extent(a, n) \subseteq Addresses
    /\ \A x \in Extent(a, n) : mapping[x] = kind

Painted(f, a, n, v) == [x \in Addresses |-> IF x \in Extent(a, n) THEN v ELSE f[x]]

\* The block of n bytes at a becomes one of m bytes at b that keeps its first
\* bytes; further bytes hold v.
Transfer(a, n, b, m, kind, v) ==
    /\ mapping' = Painted(Painted(mapping, a, n, "none"), b, m, kind)
    /\ memory' = [x \in Addresses |->
          IF x \in Extent(b, m) THEN IF x - b < n THEN memory[a + x - b] ELSE v
          ELSE IF x \in Extent(a, n) THEN Junk ELSE memory[x]]

\* copy_nonoverlapping of n bytes.
memcpy(a, b, n) ==
    memory' = [x \in Addresses |->
                  IF x \in Extent(b, n) THEN memory[a + x - b] ELSE memory[x]]

AddressSpaceInit ==
    /\ mapping = [x \in Addresses |-> "none"]
    /\ memory = [x \in Addresses |-> Junk]

-----------------------------------------------------------------------------
(* The kernel *)

\* An anonymous private mapping of n bytes at a.  Gigantic pages start at a
\* multiple of their size.
mmap(a, n, kind) ==
    /\ a \in Places /\ Covers(a, n, "none")
    /\ kind = "giant" => a % GiganticPage = 0
    /\ mapping' = Painted(mapping, a, n, kind)
    /\ memory' = Painted(memory, a, n, Zero)

\* A gigantic page cannot be unmapped in part: the kernel refuses with EINVAL.
Splits(a, n) ==
    /\ \E x \in Extent(a, n) \cap Addresses : mapping[x] = "giant"
    /\ a % GiganticPage # 0 \/ n % GiganticPage # 0

munmap(a, n) ==
    IF Splits(a, n)
    THEN UNCHANGED <<mapping, memory>>
    ELSE /\ mapping' = Painted(mapping, a, n, "none")
         /\ memory' = Painted(memory, a, n, Junk)

\* munmap refused with ENOMEM: adjacent mappings are one for the kernel, and it
\* may not split it any more (vm.max_map_count).  The pages stay.
munmap_refused(a, n) ==
    /\ mapping' = Painted(mapping, a, n, "lost")
    /\ UNCHANGED memory

\* The pages left behind by a refused munmap.
Lost == {x \in Addresses : mapping[x] = "lost"}

\* munmap by a caller that ignores the result.
Unmaps(a, n) == munmap(a, n) \/ munmap_refused(a, n)

\* mremap with MREMAP_MAYMOVE from n to m > n bytes, in place or to b.  The
\* source must be one mapping, and the kernel does not grow gigantic pages.
mremap(a, n, b, m) ==
    /\ Covers(a, n, "pages")
    /\ \/ b = a /\ Covers(a + n, m - n, "none")
       \/ b \in Places /\ Covers(b, m, "none")
    /\ Transfer(a, n, b, m, "pages", Zero)

-----------------------------------------------------------------------------
(* The heap: std::alloc and System *)

\* alloc and alloc_zeroed, v being the content of the new block.
malloc(a, n, v) ==
    /\ a \in Places /\ Covers(a, n, "none")
    /\ mapping' = Painted(mapping, a, n, "heap")
    /\ memory' = Painted(memory, a, n, v)

realloc(a, n, b, m) ==
    /\ Covers(a, n, "heap")
    /\ \/ b = a /\ Covers(a + n, m - n, "none")
       \/ b \in Places /\ Covers(b, m, "none")
    /\ Transfer(a, n, b, m, "heap", Junk)

\* dealloc: undefined for what is not a heap block, and then gives nothing back.
free(a, n) ==
    IF Covers(a, n, "heap")
    THEN /\ mapping' = Painted(mapping, a, n, "none")
         /\ memory' = Painted(memory, a, n, Junk)
    ELSE UNCHANGED <<mapping, memory>>

=============================================================================
