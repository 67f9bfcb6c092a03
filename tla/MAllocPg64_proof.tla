-------------------------- MODULE MAllocPg64_proof --------------------------
(***************************************************************************)
(* For any number of clients, sizes and addresses: every mapped byte has   *)
(* one owner, but for what the kernel would not unmap, the regime that a   *)
(* handler computes from a size is the one the block is in, and the        *)
(* allocators implement the contract of a block.                           *)
(*                                                                         *)
(* The theorems hold for all sizes without giant_pages.  With it they hold *)
(* for the Steady ones; a block just below 1 GB, whose mapping rounds up   *)
(* to 1 GB, is taken for a gigantic one when it is handed back by its      *)
(* length, and for these sizes GiganticPagesWhole is violated.             *)
(*                                                                         *)
(* A step of client c changes what c owns and the mapping of just that.    *)
(* The argument for the other clients is therefore the same for all        *)
(* actions (Frame); the invariant adds what kind of memory each block and  *)
(* each destination of a relocation lies in (ClientOK).                    *)
(*                                                                         *)
(* To its caller a step of client c is one of five things (Outcome), and   *)
(* it leaves the memory of all others as it is (Touches), whose part of    *)
(* the contract therefore stutters.  Ownership makes the difference        *)
(* between the two: a step may do to its own client's memory what it       *)
(* likes.  Between the steps of a relocation the invariant says what the   *)
(* destination holds already (BuildOK).  MAllocPg64Global shares the steps *)
(* and so the proof.                                                       *)
(***************************************************************************)
EXTENDS MAllocPg64Global, PageSizes_proof

\* The sizes that are not made gigantic by rounding alone: with giant_pages the
\* sizes just below 1 GB are left out, and without none is.
Steady == {s \in Sizes : uses_giant_pages(BlockSize(s)) => uses_giant_pages(s)}

\* The kinds of memory that a block of this size may lie in: one of gigantic
\* size that has grown there lies on ordinary pages.
Regimes(size) ==
    IF ~uses_mmap(size) THEN {"heap"}
    ELSE IF uses_giant_pages(size) THEN {"pages", "giant"} ELSE {"pages"}

Given == {"heap", "pages", "giant"}

\* n bytes from a on are memory of one kind, which suits a block of this size.
Lies(a, n, size) ==
    \E kind \in Regimes(size) :
        Covers(a, n, kind) /\ (kind = "giant" => a % GiganticPage = 0)

BlockOK(c) ==
    Owns(c) => /\ block[c].size \in Steady /\ block[c].at \in Addresses
               /\ block[c].len = BlockSize(block[c].size)
               /\ Lies(block[c].at, block[c].len, block[c].size)

Changing == Growing \cup {"shrink"}

\* What a call in progress is about, and where it builds.
CallOK(c) ==
    \/ Idle(c)
    \/ /\ call[c].op \in Acquiring /\ call[c].stage = "start"
       /\ ~Owns(c) /\ call[c].new \in Steady
    \/ /\ call[c].op = "deallocate" /\ call[c].stage = "start"
       /\ Owns(c) /\ call[c].old \in Fitting(c)
    \/ /\ call[c].op \in Changing /\ call[c].stage \in Stages
       /\ Owns(c) /\ call[c].old \in Fitting(c) /\ call[c].new \in Steady
       /\ IF call[c].op = "shrink" THEN call[c].new < call[c].old
                                   ELSE call[c].new > call[c].old
       /\ call[c].stage = "remap_failed" => uses_mmap(call[c].new)
       /\ Building(c) => Lies(call[c].dest, BlockSize(call[c].new), call[c].new)

\* A client moves between two places that have nothing in common.
Apart(c) == Extent(block[c].at, block[c].len) \cap Destination(c) = {}

ClientOK(c) == BlockOK(c) /\ CallOK(c) /\ Apart(c)

Disjoint == \A c, d \in Clients : c # d => OwnedBy(c) \cap OwnedBy(d) = {}

NothingLeaked ==
    \A x \in Addresses : mapping[x] \notin {"none", "lost"} =>
                            \E c \in Clients : x \in OwnedBy(c)

Ownership == (\A c \in Clients : ClientOK(c)) /\ Disjoint /\ NothingLeaked

IInv == TypeOK /\ Ownership

\* The step of one client: what it gives up is unmapped, or the kernel keeps
\* it; what it gets was free; the rest stays.
Moves(c) ==
    /\ \A d \in Clients \ {c} : block'[d] = block[d] /\ call'[d] = call[d]
    /\ \A x \in Addresses :
          /\ x \notin OwnedBy(c) /\ x \notin OwnedBy(c)' => mapping'[x] = mapping[x]
          /\ x \in OwnedBy(c) /\ x \notin OwnedBy(c)' => mapping'[x] \in {"none", "lost"}
          /\ x \notin OwnedBy(c) /\ x \in OwnedBy(c)' => mapping[x] = "none"

SpaceOK == mapping \in [Addresses -> Kinds] /\ memory \in [Addresses -> Bytes]

\* What a step does to the mappings: these addresses are given up, those are
\* taken.
Exchanges(gone, got) ==
    \A x \in Addresses :
        /\ x \notin gone \cup got => mapping'[x] = mapping[x]
        /\ x \in gone \ got => mapping'[x] \in {"none", "lost"}
        /\ x \in got \ gone => mapping[x] = "none"

\* The addresses hold memory of one of these kinds after the step.
Provides(a, n, kinds) ==
    \E kind \in kinds :
        /\ Extent(a, n) \subseteq Addresses /\ \A x \in Extent(a, n) : mapping'[x] = kind
        /\ kind = "giant" => a % GiganticPage = 0

-----------------------------------------------------------------------------
(* Sizes *)

LEMMA BlockSizes ==
    ASSUME NEW n \in Nat \ {0}
    PROVE  BlockSize(n) \in Nat \ {0} /\ BlockSize(n) >= n
  <1>1. CASE uses_mmap(n)
    <2>1. mapped_size(n) \in Nat /\ mapped_size(n) >= n
      BY MappingHoldsBlock
    <2> QED
      BY <1>1, <2>1 DEF BlockSize
  <1>2. CASE ~uses_mmap(n)
    BY <1>2 DEF BlockSize
  <1> QED
    BY <1>1, <1>2

\* A size that fits a block tells its regime and its length.
LEMMA FittingSize ==
    ASSUME NEW n \in Steady, NEW s \in n .. BlockSize(n)
    PROVE  /\ s \in Nat \ {0} /\ s <= BlockSize(n)
           /\ BlockSize(s) = BlockSize(n) /\ Regimes(s) = Regimes(n)
           /\ uses_mmap(s) <=> uses_mmap(n)
           /\ uses_giant_pages(s) <=> uses_giant_pages(n)
  <1>0. n \in Nat \ {0} /\ BlockSize(n) \in Nat
    BY SizesAssumption, BlockSizes DEF Steady
  <1>1. s \in Nat \ {0} /\ n <= s /\ s <= BlockSize(n)
    BY <1>0
  <1>2. BlockSize(s) = BlockSize(n) /\ (uses_mmap(s) <=> uses_mmap(n))
    <2>1. CASE uses_mmap(n)
      <3>1. s <= mapped_size(n)
        BY <1>1, <2>1 DEF BlockSize
      <3>2. uses_mmap(s) /\ mapped_size(s) = mapped_size(n)
        BY <1>0, <1>1, <2>1, <3>1, ExtentIsStable
      <3> QED
        BY <2>1, <3>2 DEF BlockSize
    <2>2. CASE ~uses_mmap(n)
      <3>1. s = n
        BY <1>0, <1>1, <2>2 DEF BlockSize
      <3> QED
        BY <3>1
    <2> QED
      BY <2>1, <2>2
  <1>3. uses_giant_pages(s) <=> uses_giant_pages(n)
    <2>1. uses_giant_pages(n) => uses_giant_pages(s)
      BY <1>0, <1>1, GiganticPageAssumption DEF uses_giant_pages
    <2>2. uses_giant_pages(s) => uses_giant_pages(BlockSize(n))
      BY <1>0, <1>1, GiganticPageAssumption DEF uses_giant_pages
    <2> QED
      BY <2>1, <2>2 DEF Steady
  <1> QED
    BY <1>1, <1>2, <1>3 DEF Regimes

LEMMA SteadySizes == Steady \subseteq Nat \ {0}
  BY SizesAssumption DEF Steady

LEMMA WithoutGiantPages == ~GiantPages => Steady = Sizes
  BY DEF Steady, uses_giant_pages

\* A mapping of gigantic pages is a whole number of them.
LEMMA GiganticWhole ==
    ASSUME NEW n \in Nat, uses_giant_pages(n)
    PROVE  mapped_size(n) % GiganticPage = 0
  <1>1. PICK k \in Nat : RoundUp(n, GiganticPage) = k * GiganticPage
    BY GiganticPageAssumption, RoundUpBounds
  <1>2. (k * GiganticPage) % GiganticPage = 0
    BY GiganticPageAssumption, SMT
  <1> QED
    BY <1>1, <1>2 DEF mapped_size

LEMMA WholeParts ==
    ASSUME NEW a \in Nat, NEW m \in Nat, NEW n \in Nat, m <= n,
           a % GiganticPage = 0, m % GiganticPage = 0, n % GiganticPage = 0
    PROVE  (a + m) % GiganticPage = 0 /\ (n - m) % GiganticPage = 0
  <1> DEFINE i == a \div GiganticPage
             j == m \div GiganticPage
             k == n \div GiganticPage
  <1>1. i \in Int /\ j \in Int /\ k \in Int
    BY GiganticPageAssumption
  <1>2. a = i * GiganticPage /\ m = j * GiganticPage /\ n = k * GiganticPage
    BY GiganticPageAssumption, SMT
  <1>3. a + m = (i + j) * GiganticPage /\ n - m = (k - j) * GiganticPage
    BY <1>1, <1>2, GiganticPageAssumption, SMT
  <1>4. \A l \in Int : (l * GiganticPage) % GiganticPage = 0
    BY GiganticPageAssumption, SMT
  <1>5. i + j \in Int /\ k - j \in Int
    BY <1>1
  <1> QED
    BY <1>3, <1>4, <1>5

\* The first address of a block, and a part of one.
LEMMA Extents ==
    ASSUME NEW a \in Int, NEW n \in Nat
    PROVE  /\ Extent(a, 0) = {}
           /\ n > 0 => a \in Extent(a, n)
           /\ \A m \in 0 .. n : /\ Extent(a, m) \subseteq Extent(a, n)
                                /\ Extent(a, n) \ Extent(a, m) = Extent(a + m, n - m)
  BY DEF Extent

-----------------------------------------------------------------------------
(* The other clients *)

\* What a client owns is mapped.
LEMMA OwnedMapped ==
    \A c \in Clients : ClientOK(c) /\ block[c] \in Blocks =>
        \A x \in OwnedBy(c) : x \in Addresses /\ mapping[x] \in Given
  <1> SUFFICES ASSUME NEW c \in Clients, ClientOK(c), block[c] \in Blocks
               PROVE  \A x \in OwnedBy(c) : x \in Addresses /\ mapping[x] \in Given
    OBVIOUS
  <1>1. \A x \in Extent(block[c].at, block[c].len) :
            x \in Addresses /\ mapping[x] \in Given
    <2>1. CASE Owns(c)
      BY <2>1 DEF ClientOK, BlockOK, Lies, Covers, Regimes, Given
    <2>2. CASE ~Owns(c)
      BY <2>2 DEF Owns, NoBlock, Block, Extent
    <2> QED
      BY <2>1, <2>2
  <1>2. \A x \in Destination(c) : x \in Addresses /\ mapping[x] \in Given
    <2>1. CASE Building(c)
      <3>1. Lies(call[c].dest, BlockSize(call[c].new), call[c].new)
        BY <2>1 DEF ClientOK, CallOK, Building, Idle, NoCall, Call
      <3> QED
        BY <2>1, <3>1 DEF Lies, Covers, Regimes, Given, Destination
    <2>2. CASE ~Building(c)
      BY <2>2 DEF Destination
    <2> QED
      BY <2>1, <2>2
  <1> QED
    BY <1>1, <1>2 DEF OwnedBy

LEMMA SameClient ==
    ASSUME NEW d \in Clients, ClientOK(d), block'[d] = block[d], call'[d] = call[d],
           \A x \in OwnedBy(d) : mapping'[x] = mapping[x]
    PROVE  ClientOK(d)' /\ OwnedBy(d)' = OwnedBy(d)
  <1>1. /\ Building(d)' = Building(d) /\ Destination(d)' = Destination(d)
        /\ OwnedBy(d)' = OwnedBy(d) /\ Owns(d)' = Owns(d) /\ Idle(d)' = Idle(d)
        /\ Fitting(d)' = Fitting(d)
    BY DEF Building, Destination, OwnedBy, Owns, Idle, Fitting
  <1>2. BlockOK(d)'
    BY <1>1 DEF ClientOK, BlockOK, Lies, Covers, OwnedBy
  <1>3. CallOK(d)'
    <2>1. Building(d) => \A x \in Extent(call[d].dest, BlockSize(call[d].new)) :
                            mapping'[x] = mapping[x]
      BY DEF OwnedBy, Destination
    <2>2. Building(d) =>
             (Lies(call[d].dest, BlockSize(call[d].new), call[d].new)
                => Lies(call[d].dest, BlockSize(call[d].new), call[d].new)')
      BY <2>1 DEF Lies, Covers
    <2> QED
      BY <1>1, <2>2 DEF ClientOK, CallOK
  <1> QED
    BY <1>1, <1>2, <1>3 DEF ClientOK, Apart

LEMMA Frame ==
    ASSUME IInv, NEW c \in Clients, Moves(c), ClientOK(c)'
    PROVE  Ownership'
  <1>1. \A d \in Clients : \A x \in OwnedBy(d) :
            x \in Addresses /\ mapping[x] \in Given
    BY OwnedMapped DEF IInv, Ownership, TypeOK
  <1>3. ASSUME NEW d \in Clients \ {c}
        PROVE  ClientOK(d)' /\ OwnedBy(d)' = OwnedBy(d) /\ OwnedBy(d) \cap OwnedBy(c)' = {}
    <2>1. OwnedBy(d) \cap OwnedBy(c) = {}
      BY <1>3 DEF IInv, Ownership, Disjoint
    <2>2. \A x \in OwnedBy(d) : x \notin OwnedBy(c)'
      BY <1>1, <1>3, <2>1 DEF Moves, Given
    <2>3. \A x \in OwnedBy(d) : mapping'[x] = mapping[x]
      BY <1>1, <1>3, <2>1, <2>2 DEF Moves
    <2>4. ClientOK(d) /\ block'[d] = block[d] /\ call'[d] = call[d]
      BY <1>3 DEF IInv, Ownership, Moves
    <2> QED
      BY <1>3, <2>2, <2>3, <2>4, SameClient
  <1>4. \A d \in Clients : ClientOK(d)'
    BY <1>3
  <1>5. Disjoint'
    <2> SUFFICES ASSUME NEW d \in Clients, NEW e \in Clients, d # e
                 PROVE  OwnedBy(d)' \cap OwnedBy(e)' = {}
      BY DEF Disjoint
    <2>1. CASE d # c /\ e # c
      BY <2>1, <1>3 DEF IInv, Ownership, Disjoint
    <2>2. CASE d = c \/ e = c
      BY <2>2, <1>3
    <2> QED
      BY <2>1, <2>2
  <1>6. NothingLeaked'
    <2> SUFFICES ASSUME NEW x \in Addresses, mapping'[x] \notin {"none", "lost"}
                 PROVE  \E d \in Clients : x \in OwnedBy(d)'
      BY DEF NothingLeaked, Addresses
    <2>1. CASE x \in OwnedBy(c)'
      BY <2>1
    <2>2. CASE x \notin OwnedBy(c)'
      <3>1. x \notin OwnedBy(c) /\ mapping'[x] = mapping[x]
        BY <2>2 DEF Moves
      <3>2. PICK d \in Clients : x \in OwnedBy(d)
        BY <3>1 DEF IInv, Ownership, NothingLeaked
      <3> QED
        BY <3>1, <3>2, <1>3
    <2> QED
      BY <2>1, <2>2
  <1> QED
    BY <1>4, <1>5, <1>6 DEF Ownership

-----------------------------------------------------------------------------
(* The calls of the kernel and the heap *)

LEMMA Taken ==
    ASSUME SpaceOK, NEW a \in Int, NEW n \in Nat, NEW kind \in Kinds, NEW v \in Bytes,
           Covers(a, n, "none"), kind = "giant" => a % GiganticPage = 0,
           mapping' = Painted(mapping, a, n, kind), memory' = Painted(memory, a, n, v)
    PROVE  SpaceOK' /\ Provides(a, n, {kind}) /\ Exchanges({}, Extent(a, n))
  BY DEF SpaceOK, Covers, Painted, Provides, Exchanges, Addresses

LEMMA Mapped ==
    ASSUME SpaceOK, NEW a \in Addresses, NEW n \in Nat, NEW size, uses_mmap(size),
           do_mmap(a, size, n)
    PROVE  SpaceOK' /\ Provides(a, n, Regimes(size)) /\ Exchanges({}, Extent(a, n))
  <1>1. PICK kind \in Regimes(size) : mmap(a, n, kind)
    BY DEF do_mmap, Regimes
  <1>2. kind \in Kinds /\ Zero \in Bytes /\ a \in Int
    BY DEF Kinds, Bytes, Addresses, Regimes
  <1>3. SpaceOK' /\ Provides(a, n, {kind}) /\ Exchanges({}, Extent(a, n))
    BY <1>1, <1>2, Taken DEF mmap
  <1> QED
    BY <1>3 DEF Provides

LEMMA HeapTaken ==
    ASSUME SpaceOK, NEW a \in Addresses, NEW n \in Nat, NEW v \in {Zero, Junk},
           malloc(a, n, v)
    PROVE  SpaceOK' /\ Provides(a, n, {"heap"}) /\ Exchanges({}, Extent(a, n))
  <1>1. "heap" \in Kinds /\ v \in Bytes /\ a \in Int
    BY DEF Kinds, Bytes, Addresses
  <1> QED
    BY <1>1, Taken DEF malloc

LEMMA Transferred ==
    ASSUME SpaceOK, NEW a \in Int, NEW n \in Nat, NEW b \in Int, NEW m \in Nat,
           NEW kind \in Kinds \ {"giant"}, NEW v \in Bytes,
           Extent(a, n) \subseteq Addresses,
           \/ b = a /\ Covers(a + n, m - n, "none")
           \/ Covers(b, m, "none"),
           Transfer(a, n, b, m, kind, v)
    PROVE  SpaceOK' /\ Provides(b, m, {kind}) /\ Exchanges(Extent(a, n), Extent(b, m))
  <1>1. Extent(b, m) \subseteq Addresses
    BY DEF Covers, Extent, Addresses
  <1>2. \A x \in Extent(b, m) \ Extent(a, n) : mapping[x] = "none"
    BY DEF Covers, Extent
  <1>3. \A x \in Addresses :
            mapping'[x] = IF x \in Extent(b, m) THEN kind
                          ELSE IF x \in Extent(a, n) THEN "none" ELSE mapping[x]
    BY DEF Transfer, Painted
  <1>4. mapping' \in [Addresses -> Kinds]
    BY DEF Transfer, Painted, SpaceOK, Kinds
  <1>5. memory' \in [Addresses -> Bytes]
    <2>1. \A x \in Extent(b, m) : x - b < n => a + x - b \in Addresses
      <3>1. \A x \in Extent(b, m) : x - b < n => a + x - b \in Extent(a, n)
        BY DEF Extent
      <3> QED
        BY <3>1
    <2>2. Junk \in Bytes
      BY DEF Bytes
    <2>3. \A x \in Addresses :
              (IF x \in Extent(b, m) THEN IF x - b < n THEN memory[a + x - b] ELSE v
               ELSE IF x \in Extent(a, n) THEN Junk ELSE memory[x]) \in Bytes
      BY <2>1, <2>2 DEF SpaceOK
    <2> QED
      BY <2>3 DEF Transfer
  <1> QED
    BY <1>1, <1>2, <1>3, <1>4, <1>5 DEF SpaceOK, Provides, Exchanges

LEMMA Unmapped ==
    ASSUME SpaceOK, NEW a \in Int, NEW n \in Nat, NEW kind, Covers(a, n, kind),
           kind = "giant" => a % GiganticPage = 0 /\ n % GiganticPage = 0, unmap(a, n)
    PROVE  SpaceOK' /\ Exchanges(Extent(a, n), {})
  <1>1. ~Splits(a, n)
    BY DEF Splits, Covers
  <1>2. CASE munmap(a, n)
    BY <1>1, <1>2 DEF munmap, Painted, SpaceOK, Exchanges, Kinds, Bytes
  <1>3. CASE munmap_refused(a, n)
    BY <1>3 DEF munmap_refused, Painted, SpaceOK, Exchanges, Kinds
  <1> QED
    BY <1>2, <1>3 DEF unmap

LEMMA Freed ==
    ASSUME SpaceOK, NEW a \in Int, NEW n \in Nat, Covers(a, n, "heap"), free(a, n)
    PROVE  SpaceOK' /\ Exchanges(Extent(a, n), {})
  BY DEF free, Painted, SpaceOK, Exchanges, Kinds, Bytes

-----------------------------------------------------------------------------
(* The ends of a step *)

\* What is known of a client before a step.
LEMMA Client ==
    ASSUME IInv, NEW c \in Clients
    PROVE  /\ BlockOK(c) /\ CallOK(c) /\ Apart(c) /\ SpaceOK
           /\ block[c] \in Blocks /\ call[c] \in Calls
  BY DEF IInv, Ownership, ClientOK, TypeOK, SpaceOK

\* What is known of the block that the caller hands back.
LEMMA OldBlock ==
    ASSUME IInv, NEW c \in Clients, Owns(c), call[c].old \in Fitting(c)
    PROVE  /\ block[c].at \in Addresses /\ block[c].at \in Int
           /\ call[c].old \in Nat \ {0} /\ call[c].old <= block[c].len
           /\ block[c].len \in Nat \ {0}
           /\ BlockSize(call[c].old) = block[c].len
           /\ Lies(block[c].at, block[c].len, call[c].old)
           /\ uses_giant_pages(call[c].old) <=> uses_giant_pages(block[c].size)
  <1>1. BlockOK(c)
    BY Client
  <1>2. /\ block[c].size \in Steady /\ block[c].at \in Addresses
        /\ block[c].len = BlockSize(block[c].size)
        /\ Lies(block[c].at, block[c].len, block[c].size)
    BY <1>1 DEF BlockOK
  <1>3. call[c].old \in block[c].size .. BlockSize(block[c].size)
    BY <1>2 DEF Fitting
  <1>4. block[c].len \in Nat \ {0}
    BY <1>2, BlockSizes, SteadySizes
  <1>5. /\ call[c].old \in Nat \ {0} /\ call[c].old <= block[c].len
        /\ BlockSize(call[c].old) = block[c].len
        /\ Regimes(call[c].old) = Regimes(block[c].size)
        /\ uses_giant_pages(call[c].old) <=> uses_giant_pages(block[c].size)
    BY <1>2, <1>3, FittingSize
  <1>6. Lies(block[c].at, block[c].len, call[c].old)
    BY <1>2, <1>5 DEF Lies
  <1> QED
    BY <1>2, <1>4, <1>5, <1>6 DEF Addresses

\* A client that takes and gives up what lies outside what it keeps.
LEMMA Keeps ==
    ASSUME NEW c \in Clients, NEW keep, NEW gone, NEW got,
           Exchanges(gone, got),
           OwnedBy(c) = keep \cup gone, OwnedBy(c)' = keep \cup got,
           \A d \in Clients \ {c} : block'[d] = block[d] /\ call'[d] = call[d]
    PROVE  Moves(c)
  BY DEF Moves, Exchanges

\* The call goes on, and builds in a block it has just taken, if any.
LEMMA GoesOn ==
    ASSUME IInv, NEW c \in Clients, call[c].op \in Changing, call[c].stage \in Stages,
           NEW stage \in Stages, NEW dest \in Addresses, GoesTo(c, stage, dest)
    PROVE  /\ block' = block /\ call' \in [Clients -> Calls]
           /\ \A d \in Clients \ {c} : call'[d] = call[d]
           /\ call'[c] = Call(call[c].op, call[c].old, call[c].new, stage, dest)
           /\ call[c] \in Calls \ {NoCall}
  <1>1. call[c] \in Calls /\ call[c] # NoCall /\ call \in [Clients -> Calls]
    BY DEF IInv, TypeOK, NoCall, Call, Changing, Growing
  <1>2. Call(call[c].op, call[c].old, call[c].new, stage, dest) \in Calls
    BY <1>1 DEF Calls, Call
  <1> QED
    BY <1>1, <1>2 DEF GoesTo, Call

\* The call returns a block that is mapped as its size demands.
LEMMA Returned ==
    ASSUME IInv, NEW c \in Clients, call[c].new \in Steady, NEW at \in Addresses,
           Returns(c, at, BlockSize(call[c].new)),
           Provides(at, BlockSize(call[c].new), Regimes(call[c].new))
    PROVE  /\ ClientOK(c)' /\ OwnedBy(c)' = Extent(at, BlockSize(call[c].new))
           /\ block' \in [Clients -> Blocks] /\ call' \in [Clients -> Calls]
           /\ \A d \in Clients \ {c} : block'[d] = block[d] /\ call'[d] = call[d]
  <1>1. block \in [Clients -> Blocks] /\ call \in [Clients -> Calls]
    BY DEF IInv, TypeOK
  <1>2. call[c].new \in Nat /\ BlockSize(call[c].new) \in Nat \ {0}
    BY BlockSizes, SteadySizes
  <1>3. Block(at, call[c].new, BlockSize(call[c].new)) \in Blocks /\ NoCall \in Calls
    BY <1>2 DEF Block, Blocks, Calls
  <1>4. /\ block'[c] = Block(at, call[c].new, BlockSize(call[c].new))
        /\ call'[c] = NoCall
        /\ block' \in [Clients -> Blocks] /\ call' \in [Clients -> Calls]
        /\ \A d \in Clients \ {c} : block'[d] = block[d] /\ call'[d] = call[d]
    BY <1>1, <1>3 DEF Returns
  <1>5. /\ block'[c].at = at /\ block'[c].size = call[c].new
        /\ block'[c].len = BlockSize(call[c].new)
    BY <1>4 DEF Block
  <1>6. BlockOK(c)'
    BY <1>2, <1>5 DEF BlockOK, Lies, Covers, Provides
  <1>7. Destination(c)' = {}
    BY <1>4 DEF Destination, Building, NoCall, Call
  <1>8. CallOK(c)'
    BY <1>4 DEF CallOK, Idle
  <1> QED
    BY <1>4, <1>5, <1>6, <1>7, <1>8 DEF ClientOK, Apart, OwnedBy

\* The call fails before it has taken anything.
LEMMA Failed ==
    ASSUME IInv, NEW c \in Clients, ~Building(c), Fails(c)
    PROVE  IInv'
  <1>1. block \in [Clients -> Blocks] /\ call \in [Clients -> Calls] /\ NoCall \in Calls
    BY DEF IInv, TypeOK, Calls
  <1>2. /\ call'[c] = NoCall /\ call' \in [Clients -> Calls]
        /\ \A d \in Clients \ {c} : block'[d] = block[d] /\ call'[d] = call[d]
        /\ block' = block /\ mapping' = mapping /\ memory' = memory
    BY <1>1 DEF Fails
  <1>3. TypeOK'
    BY <1>1, <1>2 DEF IInv, TypeOK
  <1>4. Destination(c)' = {} /\ Destination(c) = {}
    BY <1>2 DEF Destination, Building, NoCall, Call
  <1>5. OwnedBy(c)' = OwnedBy(c)
    BY <1>2, <1>4 DEF OwnedBy
  <1>6. Moves(c)
    BY <1>2, <1>5 DEF Moves
  <1>7. BlockOK(c)'
    <2>1. BlockOK(c)
      BY Client
    <2> QED
      BY <1>2, <2>1 DEF BlockOK, Owns, Lies, Covers
  <1>8. ClientOK(c)'
    BY <1>2, <1>4, <1>7 DEF ClientOK, CallOK, Idle, Apart
  <1> QED
    BY <1>3, <1>6, <1>8, Frame DEF IInv

-----------------------------------------------------------------------------
(* What several handlers do *)

\* A call of grow, grow_zeroed or shrink in progress.
LEMMA Changes ==
    ASSUME IInv, NEW c \in Clients, call[c].op \in Changing, call[c].stage \in Stages
    PROVE  /\ Owns(c) /\ call[c].old \in Fitting(c)
           /\ call[c].new \in Steady /\ call[c].new \in Nat \ {0}
           /\ IF call[c].op = "shrink" THEN call[c].new < call[c].old
                                       ELSE call[c].new > call[c].old
           /\ call[c].stage = "remap_failed" => uses_mmap(call[c].new)
           /\ Building(c) => Lies(call[c].dest, BlockSize(call[c].new), call[c].new)
           /\ call[c].op # "none"
  <1>1. CallOK(c)
    BY Client
  <1>2. ~Idle(c) /\ call[c].op \notin Acquiring /\ call[c].op # "deallocate"
    BY DEF Idle, NoCall, Call, Changing, Growing, Acquiring
  <1> QED
    BY <1>1, <1>2, SteadySizes DEF CallOK, Changing, Growing

\* A relocation has taken the block that it moves into.
LEMMA Begins ==
    ASSUME IInv, NEW c \in Clients, call[c].op \in Changing, call[c].stage \in Stages,
           ~Building(c), NEW a \in Addresses, GoesTo(c, "copy", a), SpaceOK',
           Provides(a, BlockSize(call[c].new), Regimes(call[c].new)),
           Exchanges({}, Extent(a, BlockSize(call[c].new)))
    PROVE  IInv'
  <1>1. /\ block' = block /\ call' \in [Clients -> Calls]
        /\ \A d \in Clients \ {c} : call'[d] = call[d]
        /\ call'[c] = Call(call[c].op, call[c].old, call[c].new, "copy", a)
    BY GoesOn DEF Stages
  <1>2. /\ call'[c].op = call[c].op /\ call'[c].old = call[c].old
        /\ call'[c].new = call[c].new /\ call'[c].stage = "copy" /\ call'[c].dest = a
    BY <1>1 DEF Call
  <1>3. TypeOK'
    BY <1>1 DEF IInv, TypeOK, SpaceOK
  <1>4. /\ Destination(c) = {}
        /\ Destination(c)' = Extent(a, BlockSize(call[c].new))
    BY <1>2 DEF Destination, Building
  <1>5. Moves(c)
    BY <1>1, <1>4, Keeps DEF OwnedBy
  <1>6. /\ Owns(c) /\ BlockOK(c)
        /\ \A x \in Extent(block[c].at, block[c].len) :
              x \in Addresses /\ mapping[x] \in Given
    <2>1. Owns(c) /\ BlockOK(c)
      BY Changes, Client
    <2> QED
      BY <2>1 DEF BlockOK, Lies, Covers, Regimes, Given
  <1>7. Apart(c)'
    BY <1>1, <1>4, <1>6 DEF Apart, Exchanges, Given
  <1>8. BlockOK(c)'
    <2>1. \A x \in Extent(block[c].at, block[c].len) : mapping'[x] = mapping[x]
      BY <1>6 DEF Exchanges, Given
    <2> QED
      BY <1>1, <1>6, <2>1 DEF BlockOK, Lies, Covers
  <1>9. CallOK(c)'
    <2>1. Lies(call[c].dest, BlockSize(call[c].new), call[c].new)'
      BY <1>2 DEF Lies, Covers, Provides
    <2> QED
      BY <1>1, <1>2, <2>1, Changes DEF CallOK, Owns, Fitting, Stages
  <1> QED
    BY <1>3, <1>5, <1>7, <1>8, <1>9, Frame DEF IInv, ClientOK

LEMMA NewMapping ==
    ASSUME IInv, NEW c \in Clients, call[c].op \in Changing,
           call[c].stage \in Stages, ~Building(c), uses_mmap(call[c].new), TakesMapping(c)
    PROVE  IInv'
  <1>1. CASE Fails(c)
    BY <1>1, Failed
  <1>2. CASE \E a \in Places : /\ do_mmap(a, call[c].new, mapped_size(call[c].new))
                               /\ GoesTo(c, "copy", a)
    <2>1. PICK a \in Addresses : /\ do_mmap(a, call[c].new, mapped_size(call[c].new))
                                /\ GoesTo(c, "copy", a)
      BY <1>2, PlacesAssumption DEF Addresses
    <2>2. call[c].new \in Nat \ {0}
      BY Changes
    <2>3. BlockSize(call[c].new) = mapped_size(call[c].new)
      BY DEF BlockSize
    <2>4. BlockSize(call[c].new) \in Nat
      BY <2>2, BlockSizes
    <2>5. SpaceOK
      BY Client
    <2>6. /\ SpaceOK' /\ Provides(a, BlockSize(call[c].new), Regimes(call[c].new))
          /\ Exchanges({}, Extent(a, BlockSize(call[c].new)))
      BY <2>1, <2>3, <2>4, <2>5, Mapped
    <2> QED
      BY <2>1, <2>3, <2>6, Begins
  <1> QED
    BY <1>1, <1>2 DEF TakesMapping

LEMMA NewHeapBlock ==
    ASSUME IInv, NEW c \in Clients, call[c].op \in Changing, call[c].stage \in Stages,
           ~Building(c), ~uses_mmap(call[c].new), NEW v \in {Zero, Junk},
           TakesHeapBlock(c, v)
    PROVE  IInv'
  <1>1. CASE Fails(c)
    BY <1>1, Failed
  <1>2. CASE \E a \in Places : malloc(a, call[c].new, v) /\ GoesTo(c, "copy", a)
    <2>1. PICK a \in Addresses : malloc(a, call[c].new, v) /\ GoesTo(c, "copy", a)
      BY <1>2, PlacesAssumption DEF Addresses
    <2>2. call[c].new \in Nat \ {0}
      BY Changes
    <2>3. BlockSize(call[c].new) = call[c].new /\ Regimes(call[c].new) = {"heap"}
      BY DEF BlockSize, Regimes
    <2>4. SpaceOK
      BY Client
    <2>5. /\ SpaceOK' /\ Provides(a, BlockSize(call[c].new), {"heap"})
          /\ Exchanges({}, Extent(a, BlockSize(call[c].new)))
      BY <2>1, <2>2, <2>3, <2>4, HeapTaken
    <2> QED
      BY <2>1, <2>3, <2>5, Begins
  <1> QED
    BY <1>1, <1>2 DEF TakesHeapBlock

\* The call gives up what it has for a block of the new size.
LEMMA Ends ==
    ASSUME IInv, NEW c \in Clients, call[c].new \in Steady, NEW at \in Addresses,
           Returns(c, at, BlockSize(call[c].new)), SpaceOK',
           Provides(at, BlockSize(call[c].new), Regimes(call[c].new)),
           NEW gone, OwnedBy(c) = gone,
           Exchanges(gone, Extent(at, BlockSize(call[c].new)))
    PROVE  IInv'
  <1>1. /\ ClientOK(c)' /\ OwnedBy(c)' = Extent(at, BlockSize(call[c].new))
        /\ block' \in [Clients -> Blocks] /\ call' \in [Clients -> Calls]
        /\ \A d \in Clients \ {c} : block'[d] = block[d] /\ call'[d] = call[d]
    BY Returned
  <1>2. Moves(c)
    BY <1>1 DEF Moves, Exchanges
  <1>3. TypeOK'
    BY <1>1 DEF TypeOK, SpaceOK
  <1> QED
    BY <1>1, <1>2, <1>3, Frame DEF IInv

\* What Release does with the block that the caller hands back.
LEMMA Released ==
    ASSUME IInv, NEW c \in Clients, Owns(c), call[c].old \in Fitting(c),
           Release(block[c].at, call[c].old)
    PROVE  SpaceOK' /\ Exchanges(Extent(block[c].at, block[c].len), {})
  <1>1. /\ block[c].at \in Int /\ block[c].len \in Nat
        /\ call[c].old \in Nat \ {0}
        /\ BlockSize(call[c].old) = block[c].len
        /\ Lies(block[c].at, block[c].len, call[c].old)
    BY OldBlock
  <1>2. SpaceOK
    BY Client
  <1>3. CASE uses_mmap(call[c].old)
    <2>1. PICK kind \in Regimes(call[c].old) :
              /\ Covers(block[c].at, block[c].len, kind)
              /\ kind = "giant" => block[c].at % GiganticPage = 0
      BY <1>1 DEF Lies
    <2>2. kind = "giant" => block[c].len % GiganticPage = 0
      BY <1>1, <1>3, <2>1, GiganticWhole DEF Regimes, BlockSize
    <2>3. unmap(block[c].at, block[c].len)
      BY <1>1, <1>3 DEF Release, BlockSize
    <2> QED
      BY <1>1, <1>2, <2>1, <2>2, <2>3, Unmapped
  <1>4. CASE ~uses_mmap(call[c].old)
    <2>1. Covers(block[c].at, block[c].len, "heap")
      BY <1>1, <1>4 DEF Lies, Regimes
    <2> QED
      BY <1>1, <1>2, <1>4, <2>1, Freed DEF Release, BlockSize
  <1> QED
    BY <1>3, <1>4

-----------------------------------------------------------------------------
(* The caller *)

LEMMA RequestKeeps ==
    ASSUME IInv, Steady = Sizes, NEW c \in Clients, Request(c)
    PROVE  IInv'
  <1>1. PICK k \in Requests(c) : Legal(k) /\ call' = [call EXCEPT ![c] = k]
    BY DEF Request
  <1>2. /\ Idle(c) /\ block' = block /\ mapping' = mapping /\ memory' = memory
        /\ block \in [Clients -> Blocks] /\ call \in [Clients -> Calls]
    BY DEF Request, IInv, TypeOK
  <1>3. 0 \in Addresses
    BY TopAssumption DEF Addresses
  <1>4. BlockOK(c)
    BY Client
  <1>5. /\ k \in Calls /\ k.stage = "start"
        /\ \/ k.op \in Acquiring /\ ~Owns(c) /\ k.new \in Sizes
           \/ k.op = "deallocate" /\ Owns(c) /\ k.old \in Fitting(c)
           \/ /\ k.op \in Changing /\ Owns(c) /\ k.old \in Fitting(c)
              /\ k.new \in Sizes
              /\ IF k.op = "shrink" THEN k.new < k.old ELSE k.new > k.old
    <2>1. CASE ~Owns(c)
      <3>1. PICK op \in Acquiring, n \in Sizes : k = Call(op, 0, n, "start", 0)
        BY <1>1, <2>1 DEF Requests
      <3> QED
        BY <2>1, <3>1, <1>3, SizesAssumption DEF Call, Calls, Ops, Stages, Acquiring
    <2>2. CASE Owns(c)
      <3>1. PICK op \in Ops, o \in Sizes \cap Fitting(c), n \in Sizes \cup {0} :
               /\ k = Call(op, o, n, "start", 0)
               /\ (op \in Changing /\ n \in Sizes) \/ op = "deallocate"
        <4>1. CASE \E o \in Sizes \cap Fitting(c) : k = Call("deallocate", o, 0, "start", 0)
          BY <4>1 DEF Ops
        <4>2. CASE \E op \in Growing, o \in Sizes \cap Fitting(c),
                      n \in {z \in Sizes : z > block[c].size} :
                      k = Call(op, o, n, "start", 0)
          BY <4>2 DEF Ops, Changing
        <4>3. CASE \E o \in Sizes \cap Fitting(c), n \in Sizes :
                      k = Call("shrink", o, n, "start", 0)
          BY <4>3 DEF Ops, Changing
        <4> QED
          BY <1>1, <2>2, <4>1, <4>2, <4>3 DEF Requests
      <3>2. /\ k.op = op /\ k.old = o /\ k.new = n /\ k.stage = "start" /\ k.dest = 0
            /\ k \in Calls
        BY <3>1, <1>3, SizesAssumption DEF Call, Calls, Stages
      <3>3. op \in Changing => IF op = "shrink" THEN n < o ELSE n > o
        BY <1>1, <3>2 DEF Legal, Changing
      <3> QED
        BY <2>2, <3>1, <3>2, <3>3, SizesAssumption
    <2> QED
      BY <2>1, <2>2
  <1>6. /\ call'[c] = k /\ call' \in [Clients -> Calls]
        /\ \A d \in Clients \ {c} : block'[d] = block[d] /\ call'[d] = call[d]
    BY <1>1, <1>2, <1>5
  <1>7. TypeOK'
    BY <1>2, <1>6 DEF IInv, TypeOK
  <1>8. Destination(c) = {} /\ Destination(c)' = {}
    BY <1>2, <1>5, <1>6 DEF Destination, Building, Idle, NoCall, Call
  <1>9. Moves(c)
    BY <1>2, <1>6, <1>8 DEF Moves, OwnedBy
  <1>10. BlockOK(c)' /\ Apart(c)'
    BY <1>2, <1>4, <1>8 DEF BlockOK, Owns, Lies, Covers, Apart
  <1>11. CallOK(c)'
    <2>1. ~Building(c)'
      BY <1>5, <1>6 DEF Building
    <2> QED
      BY <1>2, <1>5, <1>6, <2>1 DEF CallOK, Owns, Fitting, Stages
  <1> QED
    BY <1>7, <1>9, <1>10, <1>11, Frame DEF IInv, ClientOK

LEMMA OnlyMemory ==
    ASSUME IInv, memory' \in [Addresses -> Bytes], UNCHANGED <<mapping, block, call>>
    PROVE  IInv'
  <1>1. mapping' = mapping /\ block' = block /\ call' = call
    OBVIOUS
  <1>2. \A d \in Clients : ClientOK(d)' /\ OwnedBy(d)' = OwnedBy(d)
    BY <1>1, SameClient DEF IInv, Ownership
  <1>3. TypeOK'
    BY <1>1 DEF IInv, TypeOK
  <1>4. Disjoint' /\ NothingLeaked'
    BY <1>1, <1>2 DEF IInv, Ownership, Disjoint, NothingLeaked
  <1> QED
    BY <1>2, <1>3, <1>4 DEF IInv, Ownership

LEMMA WriteKeeps ==
    ASSUME IInv, NEW c \in Clients, Write(c)
    PROVE  IInv'
  <1>1. memory \in [Addresses -> Bytes] /\ block[c] \in Blocks
    BY Client DEF SpaceOK
  <1>2. block[c].at \in Int
    BY <1>1, TopAssumption DEF Blocks, NoBlock, Block, Addresses
  <1>3. \A x \in Extent(block[c].at, block[c].len) : Stamp(c, x - block[c].at) \in Bytes
    <2>1. \A x \in Extent(block[c].at, block[c].len) : x - block[c].at \in Nat
      BY <1>1, <1>2 DEF Extent, Blocks, NoBlock, Block
    <2> QED
      BY <2>1 DEF Stamp, Bytes
  <1>4. memory' \in [Addresses -> Bytes]
    BY <1>1, <1>3 DEF Write
  <1> QED
    BY <1>4, OnlyMemory DEF Write

-----------------------------------------------------------------------------
(* allocate, allocate_zeroed, deallocate *)

LEMMA AllocateKeeps ==
    ASSUME IInv, NEW c \in Clients, AllocateOnHeap(c) \/ AllocateMapped(c)
    PROVE  IInv'
  <1>1. /\ call[c].op \in Acquiring /\ call[c].stage = "start"
        /\ call[c].new \in Steady /\ call[c].new \in Nat \ {0} /\ ~Owns(c)
    <2>1. call[c].op \in Acquiring /\ call[c].stage = "start"
      BY DEF AllocateOnHeap, AllocateMapped, At
    <2>2. CallOK(c)
      BY Client
    <2>3. call[c].new \in Steady /\ ~Owns(c)
      BY <2>1, <2>2 DEF CallOK, Acquiring, Changing, Growing, Idle, NoCall, Call
    <2> QED
      BY <2>1, <2>3, SteadySizes
  <1>2. ~Building(c) /\ OwnedBy(c) = {}
    BY <1>1 DEF Building, OwnedBy, Destination, Owns, NoBlock, Block, Extent
  <1>3. BlockSize(call[c].new) \in Nat
    BY <1>1, BlockSizes
  <1>4. SpaceOK
    BY Client
  <1>5. CASE Fails(c)
    BY <1>2, <1>5, Failed
  <1>6. CASE AllocateOnHeap(c) /\ ~Fails(c)
    <2>1. PICK v \in {Zero, Junk}, a \in Places :
              malloc(a, call[c].new, v) /\ Returns(c, a, call[c].new)
      BY <1>6 DEF AllocateOnHeap
    <2>2. a \in Addresses
      BY PlacesAssumption DEF Addresses
    <2>3. BlockSize(call[c].new) = call[c].new /\ Regimes(call[c].new) = {"heap"}
      BY <1>6 DEF AllocateOnHeap, BlockSize, Regimes
    <2>4. /\ SpaceOK' /\ Provides(a, BlockSize(call[c].new), {"heap"})
          /\ Exchanges({}, Extent(a, BlockSize(call[c].new)))
      BY <1>3, <1>4, <2>1, <2>2, <2>3, HeapTaken
    <2> QED
      BY <1>1, <1>2, <2>1, <2>2, <2>3, <2>4, Ends
  <1>7. CASE AllocateMapped(c) /\ ~Fails(c)
    <2>1. PICK a \in Places : /\ do_mmap(a, call[c].new, mapped_size(call[c].new))
                             /\ Returns(c, a, mapped_size(call[c].new))
      BY <1>7 DEF AllocateMapped
    <2>2. a \in Addresses
      BY PlacesAssumption DEF Addresses
    <2>3. BlockSize(call[c].new) = mapped_size(call[c].new) /\ uses_mmap(call[c].new)
      BY <1>7 DEF AllocateMapped, BlockSize
    <2>4. /\ SpaceOK' /\ Provides(a, BlockSize(call[c].new), Regimes(call[c].new))
          /\ Exchanges({}, Extent(a, BlockSize(call[c].new)))
      BY <1>3, <1>4, <2>1, <2>2, <2>3, Mapped
    <2> QED
      BY <1>1, <1>2, <2>1, <2>2, <2>3, <2>4, Ends
  <1> QED
    BY <1>5, <1>6, <1>7

LEMMA DeallocateKeeps ==
    ASSUME IInv, NEW c \in Clients, Deallocate(c)
    PROVE  IInv'
  <1>1. call[c].op = "deallocate" /\ call[c].stage = "start"
    BY DEF Deallocate, At
  <1>2. Owns(c) /\ call[c].old \in Fitting(c) /\ ~Building(c)
    <2>1. CallOK(c)
      BY Client
    <2> QED
      BY <1>1, <2>1 DEF CallOK, Acquiring, Changing, Growing, Idle, NoCall, Call, Building
  <1>3. SpaceOK' /\ Exchanges(Extent(block[c].at, block[c].len), {})
    BY <1>2, Released DEF Deallocate
  <1>4. /\ block \in [Clients -> Blocks] /\ call \in [Clients -> Calls]
        /\ NoBlock \in Blocks /\ NoCall \in Calls
    BY DEF IInv, TypeOK, Blocks, Calls
  <1>5. /\ block'[c] = NoBlock /\ call'[c] = NoCall
        /\ block' \in [Clients -> Blocks] /\ call' \in [Clients -> Calls]
        /\ \A d \in Clients \ {c} : block'[d] = block[d] /\ call'[d] = call[d]
    BY <1>4 DEF Deallocate
  <1>6. Extent(block'[c].at, block'[c].len) = {} /\ Destination(c)' = {}
    BY <1>5 DEF NoBlock, Block, Extent, Destination, Building, NoCall, Call
  <1>7. Moves(c)
    <2>1. OwnedBy(c) = {} \cup Extent(block[c].at, block[c].len)
      BY <1>2 DEF OwnedBy, Destination
    <2>2. OwnedBy(c)' = {} \cup {}
      BY <1>6 DEF OwnedBy
    <2> QED
      BY <1>3, <1>5, <2>1, <2>2, Keeps
  <1>8. ClientOK(c)'
    BY <1>5, <1>6 DEF ClientOK, BlockOK, Owns, CallOK, Idle, Apart
  <1>9. TypeOK'
    BY <1>3, <1>5 DEF TypeOK, SpaceOK
  <1> QED
    BY <1>7, <1>8, <1>9, Frame DEF IInv

-----------------------------------------------------------------------------
(* grow, grow_zeroed, shrink *)

\* A handler of Changing that is not yet building.
LEMMA Unbuilt ==
    ASSUME IInv, NEW c \in Clients, call[c].op \in Changing,
           call[c].stage \in {"start", "remap_failed"}
    PROVE  /\ call[c].stage \in Stages /\ ~Building(c)
           /\ OwnedBy(c) = Extent(block[c].at, block[c].len)
           /\ SpaceOK
           /\ Owns(c) /\ call[c].old \in Fitting(c)
           /\ call[c].new \in Steady /\ call[c].new \in Nat \ {0}
           /\ BlockSize(call[c].new) \in Nat \ {0}
  <1>1. call[c].stage \in Stages /\ ~Building(c)
    BY DEF Stages, Building
  <1>2. OwnedBy(c) = Extent(block[c].at, block[c].len)
    BY <1>1 DEF OwnedBy, Destination
  <1>3. /\ Owns(c) /\ call[c].old \in Fitting(c)
        /\ call[c].new \in Steady /\ call[c].new \in Nat \ {0}
    BY <1>1, Changes
  <1> QED
    BY <1>1, <1>2, <1>3, BlockSizes, Client

LEMMA OnHeapKeeps ==
    ASSUME IInv, NEW c \in Clients, GrowOnHeap(c) \/ ShrinkOnHeap(c)
    PROVE  IInv'
  <1>1. call[c].op \in Changing /\ call[c].stage = "start" /\ OnHeap(c)
    BY DEF GrowOnHeap, ShrinkOnHeap, At, Changing, Growing
  <1>2. /\ ~Building(c) /\ OwnedBy(c) = Extent(block[c].at, block[c].len) /\ SpaceOK
        /\ Owns(c) /\ call[c].old \in Fitting(c)
        /\ call[c].new \in Steady /\ call[c].new \in Nat \ {0}
    BY <1>1, Unbuilt
  <1>3. CASE Fails(c)
    BY <1>2, <1>3, Failed
  <1>4. CASE ~Fails(c)
    <2>1. PICK a \in Addresses : /\ realloc(block[c].at, call[c].old, a, call[c].new)
                                /\ Returns(c, a, call[c].new)
      BY <1>4 DEF GrowOnHeap, ShrinkOnHeap
    <2>2. /\ BlockSize(call[c].new) = call[c].new /\ Regimes(call[c].new) = {"heap"}
          /\ BlockSize(call[c].old) = call[c].old
      BY <1>1 DEF OnHeap, BlockSize, Regimes
    <2>3. /\ block[c].at \in Int /\ call[c].old \in Nat
          /\ call[c].old = block[c].len
      BY <1>2, <2>2, OldBlock
    <2>4. "heap" \in Kinds \ {"giant"} /\ Junk \in Bytes /\ a \in Int
      BY DEF Kinds, Bytes, Addresses
    <2>5. /\ SpaceOK' /\ Provides(a, call[c].new, {"heap"})
          /\ Exchanges(Extent(block[c].at, call[c].old), Extent(a, call[c].new))
      <3>1. /\ Extent(block[c].at, call[c].old) \subseteq Addresses
            /\ \/ a = block[c].at
                  /\ Covers(block[c].at + call[c].old, call[c].new - call[c].old, "none")
               \/ Covers(a, call[c].new, "none")
            /\ Transfer(block[c].at, call[c].old, a, call[c].new, "heap", Junk)
        BY <2>1 DEF realloc, Covers
      <3> QED
        BY <1>2, <2>3, <2>4, <3>1, Transferred
    <2> QED
      BY <1>2, <2>1, <2>2, <2>3, <2>5, Ends
  <1> QED
    BY <1>3, <1>4

LEMMA RelocationBegins ==
    ASSUME IInv, NEW c \in Clients,
           \/ GrowZeroedOnHeap(c) \/ GrowToMmap(c) \/ GrowRelocate(c)
           \/ ShrinkToHeap(c) \/ ShrinkFromGiant(c)
    PROVE  IInv'
  <1>1. /\ call[c].op \in Changing /\ call[c].stage \in Stages /\ ~Building(c)
    <2>1. call[c].op \in Changing /\ call[c].stage \in {"start", "remap_failed"}
      BY DEF GrowZeroedOnHeap, GrowToMmap, GrowRelocate, ShrinkToHeap, ShrinkFromGiant,
             At, Changing, Growing
    <2> QED
      BY <2>1, Unbuilt
  <1>2. CASE GrowZeroedOnHeap(c)
    BY <1>1, <1>2, NewHeapBlock DEF GrowZeroedOnHeap, OnHeap
  <1>3. CASE ShrinkToHeap(c)
    BY <1>1, <1>3, NewHeapBlock DEF ShrinkToHeap
  <1>4. CASE GrowToMmap(c)
    BY <1>1, <1>4, NewMapping DEF GrowToMmap
  <1>5. CASE GrowRelocate(c)
    <2>1. uses_mmap(call[c].new)
      BY <1>1, <1>5, Changes DEF GrowRelocate, At
    <2> QED
      BY <1>1, <1>5, <2>1, NewMapping DEF GrowRelocate
  <1>6. CASE ShrinkFromGiant(c)
    BY <1>1, <1>6, NewMapping DEF ShrinkFromGiant, BothMapped
  <1> QED
    BY <1>2, <1>3, <1>4, <1>5, <1>6

LEMMA WithinKeeps ==
    ASSUME IInv, NEW c \in Clients, GrowWithin(c) \/ ShrinkWithin(c)
    PROVE  IInv'
  <1>1. /\ call[c].op \in Changing /\ call[c].stage = "start"
        /\ BothMapped(c) /\ SameExtent(c)
        /\ Returns(c, block[c].at, mapped_size(call[c].new))
        /\ mapping' = mapping /\ memory' = memory
    BY DEF GrowWithin, ShrinkWithin, At, Changing, Growing
  <1>2. /\ OwnedBy(c) = Extent(block[c].at, block[c].len) /\ SpaceOK
        /\ Owns(c) /\ call[c].old \in Fitting(c)
        /\ call[c].new \in Steady /\ call[c].new \in Nat \ {0}
    BY <1>1, Unbuilt
  <1>3. /\ BlockSize(call[c].new) = mapped_size(call[c].new)
        /\ BlockSize(call[c].old) = mapped_size(call[c].new)
    BY <1>1 DEF BothMapped, SameExtent, BlockSize
  <1>4. /\ block[c].at \in Addresses /\ BlockSize(call[c].new) = block[c].len
        /\ Lies(block[c].at, block[c].len, call[c].old)
        /\ call[c].old \in Nat /\ call[c].old <= block[c].len /\ block[c].len \in Nat
    BY <1>2, <1>3, OldBlock
  \* Gigantic before, gigantic after: a larger size is; a smaller one is rounded
  \* to the same length.
  <1>5. uses_giant_pages(call[c].old) => uses_giant_pages(call[c].new)
    <2>1. uses_giant_pages(call[c].old) => uses_giant_pages(BlockSize(call[c].new))
      BY <1>4, GiganticPageAssumption DEF uses_giant_pages
    <2> QED
      BY <1>2, <2>1 DEF Steady
  <1>10. Regimes(call[c].old) \subseteq Regimes(call[c].new)
    BY <1>1, <1>5 DEF Regimes, BothMapped
  <1>11. SpaceOK' /\ Provides(block[c].at, BlockSize(call[c].new), Regimes(call[c].new))
    BY <1>1, <1>2, <1>4, <1>10 DEF SpaceOK, Lies, Covers, Provides
  <1>6. Exchanges(OwnedBy(c), Extent(block[c].at, BlockSize(call[c].new)))
    BY <1>1, <1>2, <1>4 DEF Exchanges
  <1> QED
    BY <1>1, <1>2, <1>3, <1>4, <1>6, <1>11, Ends

LEMMA GrowRemapKeeps ==
    ASSUME IInv, NEW c \in Clients, GrowRemap(c)
    PROVE  IInv'
  <1>1. /\ call[c].op \in Changing /\ call[c].stage = "start"
        /\ BothMapped(c) /\ ~SameExtent(c)
    BY DEF GrowRemap, At, Changing
  <1>2. /\ ~Building(c) /\ OwnedBy(c) = Extent(block[c].at, block[c].len) /\ SpaceOK
        /\ Owns(c) /\ call[c].old \in Fitting(c)
        /\ call[c].new \in Steady /\ call[c].new \in Nat \ {0}
        /\ call[c].stage \in Stages
    BY <1>1, Unbuilt
  <1>3. /\ BlockSize(call[c].new) = mapped_size(call[c].new)
        /\ BlockSize(call[c].old) = mapped_size(call[c].old)
        /\ "pages" \in Regimes(call[c].new)
    BY <1>1 DEF BothMapped, BlockSize, Regimes
  <1>4. /\ block[c].at \in Int /\ mapped_size(call[c].old) = block[c].len
        /\ block[c].len \in Nat
    BY <1>2, <1>3, OldBlock
  <1>5. BlockSize(call[c].new) \in Nat
    BY <1>2, BlockSizes
  <1>6. ASSUME NEW a \in Addresses,
               mremap(block[c].at, mapped_size(call[c].old), a, mapped_size(call[c].new)),
               Returns(c, a, mapped_size(call[c].new))
        PROVE  IInv'
    <2>1. "pages" \in Kinds \ {"giant"} /\ Zero \in Bytes /\ a \in Int
      BY DEF Kinds, Bytes, Addresses
    <2>2. /\ Extent(block[c].at, block[c].len) \subseteq Addresses
          /\ \/ /\ a = block[c].at
                /\ Covers(block[c].at + block[c].len,
                          BlockSize(call[c].new) - block[c].len, "none")
             \/ Covers(a, BlockSize(call[c].new), "none")
          /\ Transfer(block[c].at, block[c].len, a, BlockSize(call[c].new), "pages", Zero)
      BY <1>3, <1>4, <1>6 DEF mremap, Covers
    <2>3. /\ SpaceOK' /\ Provides(a, BlockSize(call[c].new), {"pages"})
          /\ Exchanges(Extent(block[c].at, block[c].len), Extent(a, BlockSize(call[c].new)))
      BY <1>2, <1>4, <1>5, <2>1, <2>2, Transferred
    <2>4. Provides(a, BlockSize(call[c].new), Regimes(call[c].new))
      BY <1>3, <2>3 DEF Provides
    <2> QED
      BY <1>2, <1>3, <1>6, <2>3, <2>4, Ends
  <1>7. ASSUME GoesTo(c, "remap_failed", 0), UNCHANGED <<mapping, memory>>
        PROVE  IInv'
    <2>1. 0 \in Addresses /\ "remap_failed" \in Stages
      BY TopAssumption DEF Addresses, Stages
    <2>2. /\ block' = block /\ call' \in [Clients -> Calls]
          /\ \A d \in Clients \ {c} : call'[d] = call[d]
          /\ call'[c] = Call(call[c].op, call[c].old, call[c].new, "remap_failed", 0)
      BY <1>1, <1>2, <1>7, <2>1, GoesOn
    <2>3. /\ call'[c].op = call[c].op /\ call'[c].old = call[c].old
          /\ call'[c].new = call[c].new /\ call'[c].stage = "remap_failed"
      BY <2>2 DEF Call
    <2>4. TypeOK'
      BY <1>7, <2>2 DEF IInv, TypeOK
    <2>5. ~Building(c)' /\ Destination(c)' = {} /\ Destination(c) = {}
      BY <1>2, <2>3 DEF Building, Destination
    <2>6. Moves(c)
      BY <1>7, <2>2, <2>5 DEF Moves, OwnedBy
    <2>7. BlockOK(c)' /\ Apart(c)'
      <3>1. BlockOK(c)
        BY Client
      <3> QED
        BY <1>7, <2>2, <2>5, <3>1 DEF BlockOK, Owns, Lies, Covers, Apart
    <2>8. CallOK(c)'
      <3>1. uses_mmap(call[c].new)
        BY <1>1 DEF BothMapped
      <3>2. IF call[c].op = "shrink" THEN call[c].new < call[c].old
                                     ELSE call[c].new > call[c].old
        BY <1>1, <1>2, Changes
      <3> QED
        BY <1>1, <1>2, <2>1, <2>2, <2>3, <2>5, <3>1, <3>2 DEF CallOK, Owns, Fitting
    <2> QED
      BY <2>4, <2>6, <2>7, <2>8, Frame DEF IInv, ClientOK
  <1> QED
    BY <1>6, <1>7 DEF GrowRemap

LEMMA ShrinkTailKeeps ==
    ASSUME IInv, NEW c \in Clients, ShrinkTail(c)
    PROVE  IInv'
  <1> DEFINE at == block[c].at
             old == block[c].len
             new == BlockSize(call[c].new)
  <1>1. /\ call[c].op = "shrink" /\ call[c].op \in Changing /\ call[c].stage = "start"
        /\ BothMapped(c) /\ ~SameExtent(c) /\ ~LeavesGiant(c)
    BY DEF ShrinkTail, At, Changing
  <1>2. /\ OwnedBy(c) = Extent(at, old) /\ SpaceOK
        /\ Owns(c) /\ call[c].old \in Fitting(c)
        /\ call[c].new \in Steady /\ call[c].new \in Nat \ {0}
        /\ call[c].new < call[c].old
    BY <1>1, Unbuilt, Changes
  <1>3. /\ new = mapped_size(call[c].new) /\ BlockSize(call[c].old) = mapped_size(call[c].old)
    BY <1>1 DEF BothMapped, BlockSize
  <1>4. /\ at \in Int /\ at \in Addresses /\ mapped_size(call[c].old) = old /\ old \in Nat
        /\ Lies(at, old, call[c].old) /\ call[c].old \in Nat
    BY <1>2, <1>3, OldBlock
  <1>12. PICK kind \in Regimes(call[c].old) :
            Covers(at, old, kind) /\ (kind = "giant" => at % GiganticPage = 0)
    BY <1>4 DEF Lies
  \* Gigantic pages are given back whole: both lengths are multiples of one.
  <1>13. kind \in Regimes(call[c].new)
    <2>1. kind = "giant" => uses_giant_pages(call[c].old) /\ uses_giant_pages(call[c].new)
      BY <1>1, <1>12 DEF Regimes, BothMapped, LeavesGiant
    <2> QED
      BY <1>1, <1>12, <2>1 DEF Regimes, BothMapped
  <1>14. kind = "giant" => new % GiganticPage = 0 /\ old % GiganticPage = 0
    <2>1. kind = "giant" => uses_giant_pages(call[c].old) /\ uses_giant_pages(call[c].new)
      BY <1>1, <1>12, <1>13 DEF Regimes, BothMapped
    <2> QED
      BY <1>2, <1>3, <1>4, <2>1, GiganticWhole
  <1>5. new \in Nat \ {0} /\ new < old
    <2>1. new \in Nat \ {0}
      BY <1>2, BlockSizes
    <2>2. new <= old
      BY <1>2, <1>3, <1>4, MappedSizeMonotone
    <2>3. new # old
      BY <1>1, <1>3, <1>4 DEF SameExtent
    <2> QED
      BY <1>4, <2>1, <2>2, <2>3
  <1>6. unmap(at + new, old - new) /\ Returns(c, at, new)
    BY <1>3, <1>4 DEF ShrinkTail
  <1>7. /\ Extent(at, old) \ Extent(at, new) = Extent(at + new, old - new)
        /\ Extent(at, new) \subseteq Extent(at, old)
    <2>1. new \in 0 .. old
      BY <1>4, <1>5
    <2> HIDE DEF at, new, old
    <2> QED
      BY <1>4, <2>1, Extents
  <1>8. SpaceOK' /\ Exchanges(Extent(at + new, old - new), {})
    <2>1. Covers(at + new, old - new, kind) /\ at + new \in Int /\ old - new \in Nat
      BY <1>4, <1>5, <1>7, <1>12 DEF Covers
    <2>2. kind = "giant" => (at + new) % GiganticPage = 0 /\ (old - new) % GiganticPage = 0
      <3>1. at \in Nat /\ new \in Nat /\ old \in Nat /\ new <= old
        BY <1>4, <1>5 DEF Addresses
      <3> HIDE DEF at, new, old
      <3> QED
        BY <3>1, <1>12, <1>14, WholeParts
    <2> QED
      BY <1>2, <1>6, <2>1, <2>2, Unmapped
  <1>9. Provides(at, new, Regimes(call[c].new))
    BY <1>7, <1>8, <1>12, <1>13 DEF Covers, Provides, Exchanges
  <1>10. Exchanges(Extent(at, old), Extent(at, new))
    BY <1>7, <1>8 DEF Exchanges
  <1> QED
    BY <1>2, <1>3, <1>4, <1>6, <1>8, <1>9, <1>10, Ends

-----------------------------------------------------------------------------
(* The end of a relocation *)

LEMMA CopyOverKeeps ==
    ASSUME IInv, NEW c \in Clients, CopyOver(c)
    PROVE  IInv'
  <1>1. /\ call[c].op \in Changing /\ call[c].stage \in Stages /\ Building(c)
    <2>1. call[c].stage = "copy"
      BY DEF CopyOver, At
    <2>2. CallOK(c)
      BY Client
    <2> QED
      BY <2>1, <2>2 DEF CallOK, Idle, NoCall, Call, Building
  <1>2. /\ Owns(c) /\ call[c].old \in Fitting(c) /\ call[c].new \in Steady
        /\ IF call[c].op = "shrink" THEN call[c].new < call[c].old
                                    ELSE call[c].new > call[c].old
        /\ Lies(call[c].dest, BlockSize(call[c].new), call[c].new)
    BY <1>1, Changes
  <1>3. /\ block[c].at \in Int /\ call[c].old \in Nat /\ call[c].old <= block[c].len
        /\ block[c].len \in Nat /\ Extent(block[c].at, block[c].len) \subseteq Addresses
    BY <1>2, OldBlock DEF Lies, Covers
  <1>4. call[c] \in Calls /\ call[c].dest \in Addresses /\ SpaceOK
    BY <1>1, Client DEF Calls, NoCall, Call, Building
  <1>5. memory' \in [Addresses -> Bytes]
    <2>1. PICK n \in Nat : n <= block[c].len /\ memcpy(block[c].at, call[c].dest, n)
      <3>1. call[c].new \in Nat
        BY <1>2, SteadySizes
      <3> QED
        BY <1>2, <1>3, <3>1 DEF CopyOver
    <2>2. \A x \in Extent(call[c].dest, n) : block[c].at + x - call[c].dest \in Addresses
      <3>1. \A x \in Extent(call[c].dest, n) :
                block[c].at + x - call[c].dest \in Extent(block[c].at, block[c].len)
        BY <1>3, <1>4, <2>1 DEF Extent, Addresses
      <3> QED
        BY <1>3, <3>1
    <2> QED
      BY <1>4, <2>1, <2>2 DEF memcpy, SpaceOK
  <1>6. /\ mapping' = mapping /\ block' = block /\ call' \in [Clients -> Calls]
        /\ \A d \in Clients \ {c} : call'[d] = call[d]
        /\ call'[c] = Call(call[c].op, call[c].old, call[c].new, "release", call[c].dest)
    BY <1>1, <1>4, GoesOn DEF CopyOver, Stages
  <1>7. /\ call'[c].op = call[c].op /\ call'[c].old = call[c].old
        /\ call'[c].new = call[c].new /\ call'[c].stage = "release"
        /\ call'[c].dest = call[c].dest
    BY <1>6 DEF Call
  <1>8. TypeOK'
    BY <1>5, <1>6 DEF IInv, TypeOK
  <1>9. Destination(c)' = Destination(c)
    BY <1>1, <1>7 DEF Destination, Building
  <1>10. Moves(c)
    BY <1>6, <1>9 DEF Moves, OwnedBy
  <1>11. BlockOK(c)' /\ Apart(c)'
    <2>1. BlockOK(c) /\ Apart(c)
      BY Client
    <2> QED
      BY <1>6, <1>9, <2>1 DEF BlockOK, Owns, Lies, Covers, Apart
  <1>12. CallOK(c)'
    <2>1. Lies(call[c].dest, BlockSize(call[c].new), call[c].new)'
      BY <1>2, <1>6, <1>7 DEF Lies, Covers
    <2> QED
      BY <1>1, <1>2, <1>6, <1>7, <2>1 DEF CallOK, Owns, Fitting, Stages
  <1> QED
    BY <1>8, <1>10, <1>11, <1>12, Frame DEF IInv, ClientOK

LEMMA ReleaseOldKeeps ==
    ASSUME IInv, NEW c \in Clients, ReleaseOld(c)
    PROVE  IInv'
  <1> DEFINE from == Extent(block[c].at, block[c].len)
             to == Extent(call[c].dest, BlockSize(call[c].new))
  <1>1. /\ call[c].op \in Changing /\ call[c].stage \in Stages /\ Building(c)
    <2>1. call[c].stage = "release"
      BY DEF ReleaseOld, At
    <2>2. CallOK(c)
      BY Client
    <2> QED
      BY <2>1, <2>2 DEF CallOK, Idle, NoCall, Call, Building
  <1>2. /\ Owns(c) /\ call[c].old \in Fitting(c) /\ call[c].new \in Steady
        /\ Lies(call[c].dest, BlockSize(call[c].new), call[c].new)
    BY <1>1, Changes
  <1>3. call[c].dest \in Addresses
    <2>1. call[c] \in Calls
      BY Client
    <2> QED
      BY <1>1, <2>1 DEF Calls, NoCall, Call, Building
  <1>4. SpaceOK' /\ Exchanges(from, {})
    BY <1>2, Released DEF ReleaseOld
  <1>5. from \cap to = {} /\ OwnedBy(c) = from \cup to
    <2>1. Apart(c)
      BY Client
    <2> QED
      BY <1>1, <2>1 DEF Apart, Destination, OwnedBy
  <1>6. Provides(call[c].dest, BlockSize(call[c].new), Regimes(call[c].new))
    BY <1>2, <1>4, <1>5 DEF Lies, Covers, Provides, Exchanges
  <1>7. Exchanges(from \cup to, to)
    BY <1>4, <1>5 DEF Exchanges
  <1> QED
    BY <1>2, <1>3, <1>4, <1>5, <1>6, <1>7, Ends DEF ReleaseOld

-----------------------------------------------------------------------------
(* The invariant *)

LEMMA InitInv == Init => IInv
  <1> SUFFICES ASSUME Init
               PROVE  IInv
    OBVIOUS
  <1>1. TypeOK
    BY DEF Init, AddressSpaceInit, TypeOK, Kinds, Bytes, Blocks, Calls
  <1>2. \A c \in Clients : block[c] = NoBlock /\ call[c] = NoCall
    BY DEF Init
  <1>3. \A c \in Clients : Destination(c) = {} /\ OwnedBy(c) = {}
    BY <1>2 DEF Destination, OwnedBy, Building, NoBlock, NoCall, Block, Call, Extent
  <1>4. \A c \in Clients : ClientOK(c)
    BY <1>2, <1>3 DEF ClientOK, BlockOK, CallOK, Apart, Owns, Idle
  <1>5. Disjoint /\ NothingLeaked
    BY <1>3 DEF Disjoint, NothingLeaked, Init, AddressSpaceInit
  <1> QED
    BY <1>1, <1>4, <1>5 DEF IInv, Ownership

LEMMA NextInv ==
    ASSUME Steady = Sizes, IInv, [Next]_vars
    PROVE  IInv'
  <1>1. CASE UNCHANGED vars
    <2>1. memory' \in [Addresses -> Bytes]
      BY <1>1 DEF vars, IInv, TypeOK
    <2> QED
      BY <1>1, <2>1, OnlyMemory DEF vars
  <1>2. CASE Next
    <2>1. PICK c \in Clients : Request(c) \/ Write(c) \/ Step(c)
      BY <1>2 DEF Next
    <2>2. CASE Request(c)
      BY <2>2, RequestKeeps
    <2>3. CASE Write(c)
      BY <2>3, WriteKeeps
    <2>4. CASE AllocateOnHeap(c) \/ AllocateMapped(c)
      BY <2>4, AllocateKeeps
    <2>5. CASE Deallocate(c)
      BY <2>5, DeallocateKeeps
    <2>6. CASE GrowOnHeap(c) \/ ShrinkOnHeap(c)
      BY <2>6, OnHeapKeeps
    <2>7. CASE \/ GrowZeroedOnHeap(c) \/ GrowToMmap(c) \/ GrowRelocate(c)
               \/ ShrinkToHeap(c) \/ ShrinkFromGiant(c)
      BY <2>7, RelocationBegins
    <2>8. CASE GrowWithin(c) \/ ShrinkWithin(c)
      BY <2>8, WithinKeeps
    <2>9. CASE GrowRemap(c)
      BY <2>9, GrowRemapKeeps
    <2>10. CASE ShrinkTail(c)
      BY <2>10, ShrinkTailKeeps
    <2>11. CASE CopyOver(c)
      BY <2>11, CopyOverKeeps
    <2>12. CASE ReleaseOld(c)
      BY <2>12, ReleaseOldKeeps
    <2> QED
      BY <2>1, <2>2, <2>3, <2>4, <2>5, <2>6, <2>7, <2>8, <2>9, <2>10, <2>11, <2>12
         DEF Step, Grow, Shrink
  <1> QED
    BY <1>1, <1>2

LEMMA Invariance ==
    ASSUME Steady = Sizes
    PROVE  Spec => []IInv
  <1>1. IInv /\ [Next]_vars => IInv'
    BY NextInv
  <1> QED
    BY InitInv, <1>1, PTL DEF Spec

-----------------------------------------------------------------------------
(* Gigantic pages *)

LEMMA GiganticPart ==
    ASSUME NEW a \in Nat, NEW n \in Nat, a % GiganticPage = 0, n % GiganticPage = 0,
           NEW x \in Extent(a, n)
    PROVE  Extent((x \div GiganticPage) * GiganticPage, GiganticPage) \subseteq Extent(a, n)
  <1> DEFINE G == GiganticPage
             i == a \div G
             k == n \div G
             q == x \div G
  <1>1. G \in Nat \ {0} /\ x \in Nat /\ a <= x /\ x < a + n
    BY GiganticPageAssumption DEF Extent
  <1>2. i \in Nat /\ k \in Nat /\ q \in Nat
    BY <1>1
  <1>3. a = i * G /\ n = k * G
    BY <1>1, SMT
  <1>4. q * G <= x /\ x < q * G + G
    BY <1>1, SMT
  <1> HIDE DEF G, i, k, q
  <1>5. q >= i
    <2>1. CASE q + 1 <= i
      <3>1. (q + 1) * G <= i * G /\ (q + 1) * G = q * G + G
        BY <1>1, <1>2, <2>1, SMT
      <3>2. i * G \in Nat /\ q * G \in Nat
        BY <1>1, <1>2
      <3> QED
        BY <1>1, <1>3, <1>4, <3>1, <3>2
    <2> QED
      BY <1>2, <2>1
  <1>6. q + 1 <= i + k
    <2>1. CASE i + k <= q
      <3>1. (i + k) * G <= q * G /\ (i + k) * G = i * G + k * G
        BY <1>1, <1>2, <2>1, SMT
      <3>2. i * G \in Nat /\ k * G \in Nat /\ q * G \in Nat
        BY <1>1, <1>2
      <3> QED
        BY <1>1, <1>3, <1>4, <3>1, <3>2
    <2> QED
      BY <1>2, <2>1
  <1>7. i * G <= q * G /\ q * G + G <= i * G + k * G
    <2>1. /\ i * G <= q * G /\ (q + 1) * G <= (i + k) * G
          /\ (q + 1) * G = q * G + G /\ (i + k) * G = i * G + k * G
      BY <1>1, <1>2, <1>5, <1>6, SMT
    <2> QED
      BY <2>1
  <1>8. i * G \in Nat /\ k * G \in Nat /\ q * G \in Nat
    BY <1>1, <1>2
  <1>9. Extent(q * G, G) \subseteq Extent(a, n)
    BY <1>1, <1>3, <1>7, <1>8 DEF Extent
  <1> QED
    BY <1>9 DEF q, G

LEMMA GiganticBlock ==
    ASSUME NEW a \in Addresses, NEW s \in Steady, Lies(a, BlockSize(s), s),
           NEW x \in Extent(a, BlockSize(s)), mapping[x] = "giant"
    PROVE  Extent((x \div GiganticPage) * GiganticPage, GiganticPage)
               \subseteq Extent(a, BlockSize(s))
  <1>1. uses_mmap(s) /\ uses_giant_pages(s) /\ a % GiganticPage = 0
    BY DEF Lies, Covers, Regimes
  <1>2. s \in Nat /\ BlockSize(s) \in Nat
    BY SteadySizes, BlockSizes
  <1>3. BlockSize(s) % GiganticPage = 0
    BY <1>1, <1>2, GiganticWhole DEF BlockSize
  <1> QED
    BY <1>1, <1>2, <1>3, GiganticPart DEF Addresses

-----------------------------------------------------------------------------
(* The theorems *)

\* Every step of every handler leaves mappings, contents, blocks and calls
\* that have their types.
THEOREM TypeCorrect ==
    ASSUME Steady = Sizes
    PROVE  Spec => []TypeOK
  <1>1. IInv => TypeOK
    BY DEF IInv
  <1> QED
    BY <1>1, Invariance, PTL

LEMMA OwnedOnce == IInv => EverythingOwnedOnce
  <1> SUFFICES ASSUME IInv
               PROVE  EverythingOwnedOnce
    OBVIOUS
  <1>1. \A c \in Clients : \A x \in OwnedBy(c) :
            x \in Addresses /\ mapping[x] \in Given
    BY OwnedMapped DEF IInv, Ownership, TypeOK
  <1>2. {x \in Addresses : mapping[x] # "none"} \ Lost = UNION {OwnedBy(c) : c \in Clients}
    BY <1>1 DEF IInv, Ownership, NothingLeaked, Lost, Given
  <1> QED
    BY <1>2 DEF IInv, Ownership, ClientOK, Apart, Disjoint, EverythingOwnedOnce

\* Whatever the clients call and the kernel refuses, grow, shrink, allocate and
\* deallocate leak nothing, unmap nothing under its owner and hand nothing out
\* twice, but for pages that munmap was refused.
THEOREM OwnershipCorrect ==
    ASSUME Steady = Sizes
    PROVE  Spec => []EverythingOwnedOnce
  BY OwnedOnce, Invariance, PTL

\* The regime and the extent that a handler computes from any size fitting the
\* block are those the block has.
THEOREM RegimeCorrect ==
    ASSUME Steady = Sizes
    PROVE  Spec => []SizeTellsRegime
  <1>1. IInv => SizeTellsRegime
    <2> SUFFICES ASSUME IInv, NEW c \in Clients, NEW s \in Fitting(c), Owns(c)
                 PROVE  /\ BlockSize(s) = IF uses_mmap(s) THEN block[c].len ELSE s
                        /\ \A x \in Extent(block[c].at, block[c].len) :
                              mapping[x] \in IF uses_mmap(s) THEN {"pages", "giant"}
                                            ELSE {"heap"}
                        /\ ~uses_giant_pages(s) =>
                              \A x \in Extent(block[c].at, block[c].len) : mapping[x] # "giant"
      BY DEF SizeTellsRegime
    <2>1. /\ block[c].size \in Steady /\ block[c].len = BlockSize(block[c].size)
          /\ Lies(block[c].at, block[c].len, block[c].size)
      BY DEF IInv, Ownership, ClientOK, BlockOK
    <2>2. /\ BlockSize(s) = BlockSize(block[c].size)
          /\ Regimes(s) = Regimes(block[c].size)
      BY <2>1, FittingSize DEF Fitting
    <2>3. PICK kind \in Regimes(s) : Covers(block[c].at, block[c].len, kind)
      BY <2>1, <2>2 DEF Lies
    <2>4. /\ kind \in IF uses_mmap(s) THEN {"pages", "giant"} ELSE {"heap"}
          /\ ~uses_giant_pages(s) => kind # "giant"
      BY DEF Regimes
    <2> QED
      BY <2>1, <2>2, <2>3, <2>4 DEF Covers, BlockSize
  <1> QED
    BY <1>1, Invariance, PTL

LEMMA TearsNone == IInv => GiganticPagesWhole
  <1> SUFFICES ASSUME IInv, NEW x \in Addresses, mapping[x] = "giant"
               PROVE  \E c \in Clients :
                        Extent((x \div GiganticPage) * GiganticPage, GiganticPage)
                            \subseteq OwnedBy(c)
    BY DEF GiganticPagesWhole
  <1>1. PICK c \in Clients : x \in OwnedBy(c)
    BY DEF IInv, Ownership, NothingLeaked
  <1>2. ClientOK(c) /\ block[c] \in Blocks /\ call[c] \in Calls
    BY Client DEF ClientOK
  <1>3. CASE x \in Extent(block[c].at, block[c].len)
    <2>1. Owns(c)
      BY <1>3 DEF Owns, NoBlock, Block, Extent
    <2>2. /\ block[c].at \in Addresses /\ block[c].size \in Steady
          /\ block[c].len = BlockSize(block[c].size)
          /\ Lies(block[c].at, BlockSize(block[c].size), block[c].size)
      BY <1>2, <2>1 DEF ClientOK, BlockOK
    <2> QED
      BY <1>3, <2>2, GiganticBlock DEF OwnedBy
  <1>4. CASE x \in Destination(c)
    <2>1. Building(c) /\ x \in Extent(call[c].dest, BlockSize(call[c].new))
      BY <1>4 DEF Destination
    <2>2. /\ call[c].dest \in Addresses /\ call[c].new \in Steady
          /\ Lies(call[c].dest, BlockSize(call[c].new), call[c].new)
      BY <1>2, <2>1 DEF ClientOK, CallOK, Building, Idle, NoCall, Call, Calls
    <2> QED
      BY <2>1, <2>2, GiganticBlock DEF OwnedBy, Destination
  <1> QED
    BY <1>1, <1>3, <1>4 DEF OwnedBy

\* A block that crosses no border of the gigantic pages by rounding alone
\* has them whole: no handler unmaps part of one.
THEOREM GiganticCorrect ==
    ASSUME Steady = Sizes
    PROVE  Spec => []GiganticPagesWhole
  BY TearsNone, Invariance, PTL

-----------------------------------------------------------------------------
(* What a client sees *)

\* The contents of the block that c owns, and the request that c has made.
Held(c) == [i \in 0 .. block[c].len - 1 |-> memory[block[c].at + i]]

Asked(c) ==
    IF Idle(c) THEN NoRequest
    ELSE [op |-> call[c].op, old |-> call[c].old, new |-> call[c].new]

\* The number of bytes that a relocation copies.
Kept(c) == IF call[c].op = "shrink" THEN call[c].new ELSE call[c].old

\* What the destination of a relocation holds: beyond the copy zeros, if they
\* are promised, and from the copy on what is to be kept.
BuildOK(c) ==
    Building(c) =>
        /\ call[c].op = "grow_zeroed" =>
              \A i \in call[c].old .. call[c].new - 1 : memory[call[c].dest + i] = Zero
        /\ call[c].stage = "release" =>
              \A i \in 0 .. Kept(c) - 1 : memory[call[c].dest + i] = memory[block[c].at + i]

CInv == IInv /\ \A c \in Clients : BuildOK(c)

\* A step of c leaves the memory as it is that c neither had nor has.
Touches(c) ==
    \A x \in Addresses : x \notin OwnedBy(c) /\ x \notin OwnedBy(c)' => memory'[x] = memory[x]

OthersStay(c) == \A d \in Clients \ {c} : block'[d] = block[d] /\ call'[d] = call[d]

-----------------------------------------------------------------------------
(* What a step of a client is to its caller *)

GoesUnseen(c) ==
    Asked(c)' = Asked(c) /\ Held(c)' = Held(c) /\ block'[c].size = block[c].size

Asks(c) ==
    /\ Idle(c) /\ Held(c)' = Held(c) /\ block'[c].size = block[c].size
    /\ \E op \in Contract!Ops, old, new \in Sizes \cup {0} :
          /\ Asked(c)' = Contract!Request(op, old, new)
          /\ Contract!Legal(c, Contract!Request(op, old, new))

Fills(c) ==
    /\ Idle(c) /\ Asked(c)' = Asked(c) /\ block'[c].size = block[c].size
    /\ Held(c)' = [i \in DOMAIN Held(c) |-> <<c, i>>]

Refused(c) ==
    /\ ~Idle(c) /\ call[c].op # "deallocate" /\ Asked(c)' = NoRequest
    /\ Held(c)' = Held(c) /\ block'[c].size = block[c].size

Answered(c) ==
    /\ ~Idle(c) /\ call[c].op # "deallocate" /\ Asked(c)' = NoRequest
    /\ block'[c].size = call[c].new
    /\ Contract!Answers(Asked(c), Held(c), Held(c)')

Ended(c) ==
    /\ ~Idle(c) /\ call[c].op = "deallocate" /\ Asked(c)' = NoRequest
    /\ Held(c)' = Contract!Empty /\ block'[c].size = 0

Outcome(c) ==
    GoesUnseen(c) \/ Asks(c) \/ Fills(c) \/ Refused(c) \/ Answered(c) \/ Ended(c)

\* All that is said of the step of a client.
Serves(c) == OthersStay(c) /\ Touches(c) /\ BuildOK(c)' /\ Outcome(c)

-----------------------------------------------------------------------------
(* Lengths and the other clients *)

LEMMA InExtent ==
    ASSUME NEW a \in Int, NEW n \in Nat
    PROVE  /\ \A i \in 0 .. n - 1 : a + i \in Extent(a, n)
           /\ \A x \in Extent(a, n) : x - a \in 0 .. n - 1 /\ a + (x - a) = x
  BY DEF Extent

LEMMA LengthIs ==
    ASSUME NEW n \in Nat, NEW b, DOMAIN b = 0 .. n - 1
    PROVE  Contract!Length(b) = n
  <1>1. CASE n = 0
    BY <1>1 DEF Contract!Length
  <1>2. CASE n # 0
    <2> DEFINE S == {i + 1 : i \in DOMAIN b}
    <2>1. S = 1 .. n
      <3>1. \A k \in 1 .. n : k - 1 \in 0 .. n - 1 /\ (k - 1) + 1 = k
        OBVIOUS
      <3>2. \A k \in S : k \in 1 .. n
        OBVIOUS
      <3> QED  BY <3>1, <3>2
    <2>2. \A k \in S : k \notin DOMAIN b <=> k = n
      BY <2>1
    <2>3. n \in S /\ n \notin DOMAIN b
      BY <1>2, <2>1
    <2>4. (CHOOSE k \in S : k \notin DOMAIN b) \in S /\ (CHOOSE k \in S : k \notin DOMAIN b) \notin DOMAIN b
      BY <2>3
    <2>5. (CHOOSE k \in S : k \notin DOMAIN b) = n
      BY <2>2, <2>4
    <2>6. DOMAIN b # {}
      BY <1>2
    <2> QED  BY <2>5, <2>6 DEF Contract!Length
  <1> QED  BY <1>1, <1>2

\* What the model knows of a block in every state.
LEMMA Measures ==
    ASSUME IInv, NEW c \in Clients
    PROVE  /\ block[c].at \in Int /\ block[c].len \in Nat /\ block[c].size \in Nat
           /\ Extent(block[c].at, block[c].len) \subseteq Addresses
           /\ Owns(c) => block[c].size > 0 /\ block[c].at \in Addresses
                         /\ block[c].size <= block[c].len
           /\ ~Owns(c) => block[c].size = 0 /\ block[c].len = 0
           /\ Contract!Length(Held(c)) = block[c].len
           /\ DOMAIN Held(c) = 0 .. block[c].len - 1
  <1>1. BlockOK(c)
    BY Client
  <1>2. CASE Owns(c)
    <2>1. /\ block[c].size \in Nat \ {0} /\ block[c].at \in Addresses
          /\ block[c].len = BlockSize(block[c].size)
          /\ Extent(block[c].at, block[c].len) \subseteq Addresses
      BY <1>1, <1>2, SteadySizes DEF BlockOK, Lies, Covers
    <2>2. block[c].len \in Nat /\ block[c].len >= block[c].size
      BY <2>1, BlockSizes
    <2>3. DOMAIN Held(c) = 0 .. block[c].len - 1
      BY DEF Held
    <2> QED  BY <1>2, <2>1, <2>2, <2>3, LengthIs DEF Addresses
  <1>3. CASE ~Owns(c)
    <2>1. block[c].at = 0 /\ block[c].len = 0 /\ block[c].size = 0
      BY <1>3 DEF Owns, NoBlock, Block
    <2>2. Extent(block[c].at, block[c].len) = {}
      BY <2>1 DEF Extent
    <2>3. DOMAIN Held(c) = 0 .. block[c].len - 1
      BY DEF Held
    <2> QED  BY <1>3, <2>1, <2>2, <2>3, LengthIs
  <1> QED  BY <1>2, <1>3

LEMMA OthersKeep ==
    ASSUME CInv, IInv', NEW c \in Clients, Touches(c), OthersStay(c),
           NEW d \in Clients \ {c}
    PROVE  /\ Held(d)' = Held(d) /\ Asked(d)' = Asked(d) /\ BuildOK(d)'
           /\ block'[d].size = block[d].size
  <1>1. block'[d] = block[d] /\ call'[d] = call[d]
    BY DEF OthersStay
  <1>2. OwnedBy(d)' = OwnedBy(d) /\ Building(d)' = Building(d) /\ Asked(d)' = Asked(d)
        /\ Kept(d)' = Kept(d)
    BY <1>1 DEF OwnedBy, Destination, Building, Asked, Idle, Kept
  <1>3. \A x \in OwnedBy(d) : x \in Addresses
    BY OwnedMapped DEF CInv, IInv, Ownership, TypeOK
  <1>4. OwnedBy(d) \cap OwnedBy(c) = {} /\ OwnedBy(d)' \cap OwnedBy(c)' = {}
    BY DEF CInv, IInv, Ownership, Disjoint
  <1>5. \A x \in OwnedBy(d) : memory'[x] = memory[x]
    BY <1>2, <1>3, <1>4 DEF Touches
  <1>6. /\ block[d].at \in Int /\ block[d].len \in Nat
    BY Measures DEF CInv
  <1>7. \A i \in 0 .. block[d].len - 1 : memory'[block[d].at + i] = memory[block[d].at + i]
    BY <1>5, <1>6, InExtent DEF OwnedBy
  <1>8. Held(d)' = Held(d)
    BY <1>1, <1>7 DEF Held
  <1>9. BuildOK(d)'
    <2> SUFFICES ASSUME Building(d)
                 PROVE  BuildOK(d)'
      BY <1>2 DEF BuildOK
    <2>1. /\ call[d].op \in Changing /\ call[d].stage \in Stages
          /\ call[d].dest \in Int /\ call[d].old \in Nat
      <3>1. CallOK(d) /\ call[d] \in Calls
        BY Client DEF CInv
      <3>2. call[d].stage \in {"copy", "release"}
        BY DEF Building
      <3> QED  BY <3>1, <3>2 DEF CallOK, Idle, NoCall, Call, Calls, Addresses
    <2>2. /\ Owns(d) /\ call[d].old \in Fitting(d) /\ call[d].new \in Nat \ {0}
          /\ IF call[d].op = "shrink" THEN call[d].new < call[d].old
                                      ELSE call[d].new > call[d].old
      BY <2>1, Changes DEF CInv
    <2>3. call[d].old <= block[d].len
      BY <2>2, OldBlock DEF CInv
    <2>4. BlockSize(call[d].new) \in Nat /\ BlockSize(call[d].new) >= call[d].new
      BY <2>2, BlockSizes
    <2>5. Kept(d) \in Nat /\ Kept(d) <= block[d].len /\ Kept(d) <= call[d].new
      BY <1>6, <2>1, <2>2, <2>3 DEF Kept
    <2>6. Extent(call[d].dest, BlockSize(call[d].new)) \subseteq OwnedBy(d)
      BY DEF OwnedBy, Destination
    <2>7. \A i \in 0 .. call[d].new - 1 :
              memory'[call[d].dest + i] = memory[call[d].dest + i]
      <3>1. \A i \in 0 .. BlockSize(call[d].new) - 1 :
              call[d].dest + i \in Extent(call[d].dest, BlockSize(call[d].new))
        BY <2>1, <2>4, InExtent
      <3>2. \A i \in 0 .. call[d].new - 1 : i \in 0 .. BlockSize(call[d].new) - 1
        BY <2>2, <2>4
      <3> QED  BY <1>5, <2>6, <3>1, <3>2
    <2>8. /\ \A i \in call[d].old .. call[d].new - 1 : i \in 0 .. call[d].new - 1
          /\ \A i \in 0 .. Kept(d) - 1 : i \in 0 .. call[d].new - 1 /\ i \in 0 .. block[d].len - 1
      BY <1>6, <2>1, <2>2, <2>5
    <2>9. BuildOK(d)
      BY DEF CInv
    <2>10. ASSUME call[d].op = "grow_zeroed", NEW i \in call[d].old .. call[d].new - 1
           PROVE  memory'[call[d].dest + i] = Zero
      BY <2>7, <2>8, <2>9, <2>10 DEF BuildOK
    <2>11. ASSUME call[d].stage = "release", NEW i \in 0 .. Kept(d) - 1
           PROVE  memory'[call[d].dest + i] = memory'[block[d].at + i]
      BY <1>7, <2>7, <2>8, <2>9, <2>11 DEF BuildOK
    <2> QED  BY <1>1, <1>2, <2>10, <2>11 DEF BuildOK
  <1> QED  BY <1>1, <1>2, <1>8, <1>9

-----------------------------------------------------------------------------
(* The steps of the contract *)

LEMMA Simulates ==
    ASSUME CInv, IInv', NEW c \in Clients, Serves(c)
    PROVE  [Contract!Next]_(Contract!vars)
  <1> DEFINE request == [d \in Clients |->
                  IF Idle(d) THEN NoRequest
                  ELSE [op |-> call[d].op, old |-> call[d].old, new |-> call[d].new]]
             bytes == [d \in Clients |->
                [i \in 0 .. block[d].len - 1 |-> memory[block[d].at + i]]]
             size == [d \in Clients |-> block[d].size]
  <1>1. /\ request = [d \in Clients |-> Asked(d)] /\ request' = [d \in Clients |-> Asked(d)']
        /\ bytes = [d \in Clients |-> Held(d)] /\ bytes' = [d \in Clients |-> Held(d)']
        /\ size = [d \in Clients |-> block[d].size]
        /\ size' = [d \in Clients |-> block'[d].size]
    BY DEF Asked, Held, Idle
  <1>2. \A d \in Clients \ {c} : /\ Held(d)' = Held(d) /\ Asked(d)' = Asked(d)
                                 /\ block'[d].size = block[d].size
    BY OthersKeep DEF Serves
  <1>3. ASSUME Asked(c)' = Asked(c) PROVE request' = request
    BY <1>1, <1>2, <1>3
  <1>4. ASSUME Held(c)' = Held(c) PROVE bytes' = bytes
    BY <1>1, <1>2, <1>4
  <1>5. ASSUME block'[c].size = block[c].size PROVE size' = size
    BY <1>1, <1>2, <1>5
  <1> HIDE DEF request, bytes, size
  <1>6. /\ request' = [request EXCEPT ![c] = Asked(c)']
        /\ bytes' = [bytes EXCEPT ![c] = Held(c)']
        /\ size' = [size EXCEPT ![c] = block'[c].size]
    <2>1. request' = [request EXCEPT ![c] = Asked(c)']
      BY <1>1, <1>2
    <2>2. bytes' = [bytes EXCEPT ![c] = Held(c)']
      BY <1>1, <1>2
    <2>3. size' = [size EXCEPT ![c] = block'[c].size]
      BY <1>1, <1>2
    <2> QED  BY <2>1, <2>2, <2>3
  <1>7. /\ request[c] = Asked(c) /\ bytes[c] = Held(c) /\ bytes'[c] = Held(c)'
        /\ size[c] = block[c].size
        /\ \A d \in Clients \ {c} : bytes'[d] = bytes[d]
    BY <1>1, <1>2
  <1>8. /\ ~Idle(c) => /\ Asked(c) # NoRequest /\ Asked(c).op = call[c].op
                       /\ Asked(c).new = call[c].new
        /\ Idle(c) => Asked(c) = NoRequest
    <2>1. ASSUME ~Idle(c) PROVE Asked(c) \in [op : Ops, old : Nat, new : Nat]
      <3>1. call[c] \in Calls \ {NoCall}
        BY <2>1, Client DEF CInv, Idle
      <3> QED  BY <2>1, <3>1 DEF Asked, Calls
    <2> QED  BY <2>1, NoRequestAssumption DEF Asked
  <1>9. CASE GoesUnseen(c)
    <2>1. request' = request /\ bytes' = bytes /\ size' = size
      BY <1>3, <1>4, <1>5, <1>9 DEF GoesUnseen
    <2> QED  BY <2>1 DEF Contract!vars, request, bytes, size
  <1>10. CASE Asks(c)
    <2>1. PICK op \in Contract!Ops, old \in Sizes \cup {0}, new \in Sizes \cup {0} :
              /\ Asked(c)' = Contract!Request(op, old, new)
              /\ Contract!Legal(c, Contract!Request(op, old, new))
      BY <1>10 DEF Asks
    <2>2. /\ bytes' = bytes /\ size' = size /\ request[c] = NoRequest
          /\ request' = [request EXCEPT ![c] = Contract!Request(op, old, new)]
      BY <1>4, <1>5, <1>6, <1>7, <1>8, <1>10, <2>1 DEF Asks
    <2>3. Contract!Ask(c, Contract!Request(op, old, new))
      BY <2>1, <2>2 DEF Contract!Ask, request, bytes, size
    <2> QED  BY <2>3 DEF Contract!Next
  <1>11. CASE Fills(c)
    <2>1. /\ request' = request /\ size' = size /\ request[c] = NoRequest
          /\ bytes' = [bytes EXCEPT ![c] = [i \in DOMAIN bytes[c] |-> <<c, i>>]]
      BY <1>3, <1>5, <1>6, <1>7, <1>8, <1>11 DEF Fills
    <2>2. Contract!Write(c)
      BY <2>1 DEF Contract!Write, request, bytes, size
    <2> QED  BY <2>2 DEF Contract!Next
  <1>12. CASE Refused(c)
    <2>1. /\ request[c] # NoRequest /\ request[c].op # "deallocate"
          /\ request' = [request EXCEPT ![c] = NoRequest]
          /\ size' = size /\ bytes' = bytes
      BY <1>4, <1>5, <1>6, <1>7, <1>8, <1>12 DEF Refused
    <2>2. Contract!Fail(c)
      BY <2>1 DEF Contract!Fail, request, bytes, size
    <2> QED  BY <2>2 DEF Contract!Next
  <1>13. CASE Answered(c)
    <2>1. /\ request[c] # NoRequest /\ request[c].op # "deallocate"
          /\ request' = [request EXCEPT ![c] = NoRequest]
          /\ size' = [size EXCEPT ![c] = request[c].new]
          /\ \A d \in Clients \ {c} : bytes'[d] = bytes[d]
          /\ Contract!Answers(request[c], bytes[c], bytes'[c])
      BY <1>6, <1>7, <1>8, <1>13 DEF Answered
    <2>2. Contract!Return(c)
      BY <2>1 DEF Contract!Return, request, bytes, size
    <2> QED  BY <2>2 DEF Contract!Next
  <1>14. CASE Ended(c)
    <2>1. /\ request[c] # NoRequest /\ request[c].op = "deallocate"
          /\ request' = [request EXCEPT ![c] = NoRequest]
          /\ size' = [size EXCEPT ![c] = 0]
          /\ bytes' = [bytes EXCEPT ![c] = Contract!Empty]
      BY <1>6, <1>7, <1>8, <1>14 DEF Ended
    <2>2. Contract!Release(c)
      BY <2>1 DEF Contract!Release, request, bytes, size
    <2> QED  BY <2>2 DEF Contract!Next
  <1> QED  BY <1>9, <1>10, <1>11, <1>12, <1>13, <1>14 DEF Serves, Outcome

-----------------------------------------------------------------------------
(* What the kernel and the heap do to the contents *)

LEMMA UnmapContents ==
    ASSUME NEW a, NEW n, unmap(a, n) \/ free(a, n)
    PROVE  \A x \in Addresses \ Extent(a, n) : memory'[x] = memory[x]
  <1>1. CASE munmap(a, n)
    BY <1>1 DEF munmap, Painted
  <1>2. CASE munmap_refused(a, n)
    BY <1>2 DEF munmap_refused
  <1>3. CASE free(a, n)
    BY <1>3 DEF free, Painted
  <1> QED  BY <1>1, <1>2, <1>3 DEF unmap

LEMMA ReleaseContents ==
    ASSUME IInv, NEW c \in Clients, Owns(c), call[c].old \in Fitting(c),
           Release(block[c].at, call[c].old)
    PROVE  \A x \in Addresses \ Extent(block[c].at, block[c].len) : memory'[x] = memory[x]
  <1>1. BlockSize(call[c].old) = block[c].len
    BY OldBlock
  <1> QED  BY <1>1, UnmapContents DEF Release, BlockSize

LEMMA PaintedContents ==
    ASSUME NEW a \in Int, NEW n \in Nat, NEW v, Extent(a, n) \subseteq Addresses,
           memory' = Painted(memory, a, n, v)
    PROVE  /\ \A i \in 0 .. n - 1 : memory'[a + i] = v
           /\ \A x \in Addresses \ Extent(a, n) : memory'[x] = memory[x]
  BY InExtent DEF Painted

\* The bytes from a on are found from b on, and behind them v.
CarriedOver(a, n, b, m, v) ==
    /\ \A i \in 0 .. m - 1 : memory'[b + i] = IF i < n THEN memory[a + i] ELSE v
    /\ \A x \in Addresses \ (Extent(a, n) \cup Extent(b, m)) : memory'[x] = memory[x]

LEMMA TransferContents ==
    ASSUME NEW a \in Int, NEW n \in Nat, NEW b \in Int, NEW m \in Nat, NEW kind, NEW v,
           Extent(b, m) \subseteq Addresses, Transfer(a, n, b, m, kind, v)
    PROVE  CarriedOver(a, n, b, m, v)
  <1>1. memory' = [x \in Addresses |->
          IF x \in Extent(b, m) THEN IF x - b < n THEN memory[a + x - b] ELSE v
          ELSE IF x \in Extent(a, n) THEN Junk ELSE memory[x]]
    BY DEF Transfer
  <1>2. ASSUME NEW i \in 0 .. m - 1
        PROVE  memory'[b + i] = IF i < n THEN memory[a + i] ELSE v
    <2>1. b + i \in Extent(b, m) /\ b + i \in Addresses
      BY InExtent
    <2>2. (b + i) - b = i /\ a + (b + i) - b = a + i
      OBVIOUS
    <2> QED  BY <1>1, <2>1, <2>2
  <1>3. \A x \in Addresses \ (Extent(a, n) \cup Extent(b, m)) : memory'[x] = memory[x]
    BY <1>1
  <1> QED  BY <1>2, <1>3 DEF CarriedOver

-----------------------------------------------------------------------------
(* The answers *)

\* The block of n bytes at this address holds after the step what the call of
\* c promises of it.
Delivers(c, at, n) ==
    /\ call[c].op = "allocate_zeroed" => \A i \in 0 .. n - 1 : memory'[at + i] = Zero
    /\ call[c].op \in Growing =>
          \A i \in 0 .. call[c].old - 1 : memory'[at + i] = memory[block[c].at + i]
    /\ call[c].op = "grow_zeroed" =>
          \A i \in call[c].old .. call[c].new - 1 :
              \/ memory'[at + i] = Zero
              \/ i < block[c].len /\ memory'[at + i] = memory[block[c].at + i]
    /\ call[c].op = "shrink" =>
          \A i \in 0 .. call[c].new - 1 : memory'[at + i] = memory[block[c].at + i]

LEMMA Answers ==
    ASSUME CInv, NEW c \in Clients, NEW at \in Addresses,
           call[c].op \in Acquiring \cup Changing, call[c].stage \in Stages,
           call[c].new \in Nat \ {0},
           Returns(c, at, BlockSize(call[c].new)),
           Delivers(c, at, BlockSize(call[c].new)),
           \A x \in Addresses \ (OwnedBy(c) \cup Extent(at, BlockSize(call[c].new))) :
               memory'[x] = memory[x]
    PROVE  Serves(c)
  <1> DEFINE n == BlockSize(call[c].new)
  <1>1. block \in [Clients -> Blocks] /\ call \in [Clients -> Calls]
    BY DEF CInv, IInv, TypeOK
  <1>2. /\ block'[c] = Block(at, call[c].new, n) /\ call'[c] = NoCall
        /\ OthersStay(c)
    BY <1>1 DEF Returns, OthersStay
  <1>3. n \in Nat \ {0} /\ n >= call[c].new
    BY BlockSizes
  <1>4. /\ Idle(c)' /\ ~Building(c)' /\ Asked(c)' = NoRequest
        /\ block'[c].at = at /\ block'[c].len = n /\ block'[c].size = call[c].new
    BY <1>2 DEF Idle, Building, NoCall, Call, Asked, Block
  <1>5. OwnedBy(c)' = Extent(at, n)
    BY <1>4 DEF OwnedBy, Destination
  <1>6. Touches(c)
    BY <1>5 DEF Touches
  <1>7. BuildOK(c)'
    BY <1>4 DEF BuildOK
  <1>8. /\ ~Idle(c) /\ call[c].op # "deallocate"
        /\ Asked(c) = [op |-> call[c].op, old |-> call[c].old, new |-> call[c].new]
    BY DEF Idle, NoCall, Call, Acquiring, Changing, Growing, Asked
  <1>9. Held(c)' = [i \in 0 .. n - 1 |-> memory'[at + i]]
    BY <1>4 DEF Held
  <1>10. Contract!Length(Held(c)') = n
    BY <1>3, <1>9, LengthIs
  <1>11. /\ block[c].len \in Nat /\ DOMAIN Held(c) = 0 .. block[c].len - 1
         /\ Held(c) = [i \in 0 .. block[c].len - 1 |-> memory[block[c].at + i]]
    BY Measures DEF CInv, Held
  <1>12. call[c].op \in Changing =>
            /\ call[c].old \in Nat /\ call[c].old <= block[c].len
            /\ IF call[c].op = "shrink" THEN call[c].new < call[c].old
                                        ELSE call[c].new > call[c].old
    BY Changes, OldBlock DEF CInv
  <1>13. call[c].op = "allocate_zeroed" => \A i \in DOMAIN Held(c)' : Held(c)'[i] = Zero
    BY <1>9 DEF Delivers
  <1>14. call[c].op \in Growing => \A i \in 0 .. call[c].old - 1 : Held(c)'[i] = Held(c)[i]
    <2> SUFFICES ASSUME call[c].op \in Growing, NEW i \in 0 .. call[c].old - 1
                 PROVE  Held(c)'[i] = Held(c)[i]
      OBVIOUS
    <2>1. i \in 0 .. n - 1 /\ i \in 0 .. block[c].len - 1
      BY <1>3, <1>11, <1>12 DEF Changing, Growing
    <2>2. memory'[at + i] = memory[block[c].at + i]
      BY DEF Delivers
    <2> QED  BY <1>9, <1>11, <2>1, <2>2
  <1>15. call[c].op = "grow_zeroed" =>
            \A i \in call[c].old .. call[c].new - 1 :
                \/ Held(c)'[i] = Zero
                \/ i \in DOMAIN Held(c) /\ Held(c)'[i] = Held(c)[i]
    <2> SUFFICES ASSUME call[c].op = "grow_zeroed", NEW i \in call[c].old .. call[c].new - 1
                 PROVE  \/ Held(c)'[i] = Zero
                        \/ i \in DOMAIN Held(c) /\ Held(c)'[i] = Held(c)[i]
      OBVIOUS
    <2>1. i \in 0 .. n - 1
      BY <1>3, <1>12 DEF Changing, Growing
    <2>2. \/ memory'[at + i] = Zero
          \/ i < block[c].len /\ memory'[at + i] = memory[block[c].at + i]
      BY DEF Delivers
    <2>3. i < block[c].len => i \in 0 .. block[c].len - 1
      BY <1>3, <1>11, <2>1
    <2> QED  BY <1>9, <1>11, <2>1, <2>2, <2>3
  <1>16. call[c].op = "shrink" => \A i \in 0 .. call[c].new - 1 : Held(c)'[i] = Held(c)[i]
    <2> SUFFICES ASSUME call[c].op = "shrink", NEW i \in 0 .. call[c].new - 1
                 PROVE  Held(c)'[i] = Held(c)[i]
      OBVIOUS
    <2>1. i \in 0 .. n - 1 /\ i \in 0 .. block[c].len - 1
      BY <1>3, <1>11, <1>12 DEF Changing
    <2>2. memory'[at + i] = memory[block[c].at + i]
      BY DEF Delivers
    <2> QED  BY <1>9, <1>11, <2>1, <2>2
  <1>17. Contract!Answers(Asked(c), Held(c), Held(c)')
    BY <1>3, <1>8, <1>10, <1>13, <1>14, <1>15, <1>16 DEF Contract!Answers, Growing
  <1>18. Answered(c)
    BY <1>4, <1>8, <1>17 DEF Answered
  <1> QED  BY <1>2, <1>6, <1>7, <1>18 DEF Serves, Outcome

\* A call that fails has had no effect.
LEMMA FailServes ==
    ASSUME CInv, NEW c \in Clients, call[c].op \in Acquiring \cup Changing, Fails(c)
    PROVE  Serves(c)
  <1>1. call \in [Clients -> Calls]
    BY DEF CInv, IInv, TypeOK
  <1>2. /\ call'[c] = NoCall /\ OthersStay(c)
        /\ block' = block /\ memory' = memory
    BY <1>1 DEF Fails, OthersStay
  <1>3. /\ ~Building(c)' /\ Asked(c)' = NoRequest /\ Held(c)' = Held(c)
    BY <1>2 DEF Building, NoCall, Call, Asked, Idle, Held
  <1>4. ~Idle(c) /\ call[c].op # "deallocate"
    BY DEF Idle, NoCall, Call, Acquiring, Changing, Growing
  <1>5. Refused(c)
    BY <1>2, <1>3, <1>4 DEF Refused
  <1> QED  BY <1>2, <1>3, <1>5 DEF Serves, Touches, BuildOK, Outcome

\* The call goes on; the caller sees nothing of it.
LEMMA GoingOn ==
    ASSUME CInv, NEW c \in Clients, call[c].op \in Changing, call[c].stage \in Stages,
           NEW stage \in Stages, NEW dest \in Addresses, GoesTo(c, stage, dest),
           \A x \in Extent(block[c].at, block[c].len) : memory'[x] = memory[x]
    PROVE  /\ OthersStay(c) /\ GoesUnseen(c)
           /\ call'[c].op = call[c].op /\ call'[c].old = call[c].old
           /\ call'[c].new = call[c].new /\ call'[c].stage = stage /\ call'[c].dest = dest
           /\ block' = block
  <1>1. /\ block' = block
        /\ \A d \in Clients \ {c} : call'[d] = call[d]
        /\ call'[c] = Call(call[c].op, call[c].old, call[c].new, stage, dest)
    BY GoesOn DEF CInv
  <1>2. /\ call'[c].op = call[c].op /\ call'[c].old = call[c].old
        /\ call'[c].new = call[c].new /\ call'[c].stage = stage /\ call'[c].dest = dest
    BY <1>1 DEF Call
  <1>3. Asked(c)' = Asked(c)
    BY <1>2 DEF Asked, Idle, NoCall, Call, Changing, Growing
  <1>4. block[c].at \in Int /\ block[c].len \in Nat
    BY Measures DEF CInv
  <1>5. \A i \in 0 .. block[c].len - 1 : memory'[block[c].at + i] = memory[block[c].at + i]
    BY <1>4, InExtent
  <1>6. Held(c)' = Held(c)
    BY <1>1, <1>5 DEF Held
  <1> QED  BY <1>1, <1>2, <1>3, <1>6 DEF OthersStay, GoesUnseen

-----------------------------------------------------------------------------
(* The caller *)

LEMMA RequestServes ==
    ASSUME CInv, NEW c \in Clients, Request(c)
    PROVE  Serves(c)
  <1>1. PICK k \in Requests(c) : Legal(k) /\ call' = [call EXCEPT ![c] = k]
    BY DEF Request
  <1>2. /\ Idle(c) /\ block' = block /\ memory' = memory
        /\ call \in [Clients -> Calls]
    BY DEF Request, CInv, IInv, TypeOK
  <1>3. call'[c] = k /\ OthersStay(c)
    BY <1>1, <1>2 DEF OthersStay
  <1>4. Held(c)' = Held(c)
    BY <1>2 DEF Held
  <1>5. /\ block[c].size \in Nat /\ block[c].len \in Nat
        /\ Owns(c) => block[c].size > 0
        /\ ~Owns(c) => block[c].size = 0
        /\ Contract!Length(Held(c)) = block[c].len
    BY Measures DEF CInv
  <1>6. \A op \in Contract!Ops, old \in Sizes \cup {0}, new \in Sizes \cup {0} :
            k = Call(op, old, new, "start", 0) =>
                /\ Asked(c)' = Contract!Request(op, old, new)
                /\ ~Building(c)'
    BY <1>3 DEF Asked, Idle, NoCall, Call, Contract!Request, Contract!Ops, Building
  <1>7. \E op \in Contract!Ops, old, new \in Sizes \cup {0} :
            /\ k = Call(op, old, new, "start", 0)
            /\ Contract!Legal(c, Contract!Request(op, old, new))
    <2>1. CASE ~Owns(c)
      <3>1. PICK op \in Acquiring, n \in Sizes : k = Call(op, 0, n, "start", 0)
        BY <1>1, <2>1 DEF Requests
      <3>2. Contract!Legal(c, Contract!Request(op, 0, n))
        BY <1>5, <2>1 DEF Contract!Legal, Contract!Request, Acquiring
      <3> QED  BY <3>1, <3>2 DEF Contract!Ops, Acquiring
    <2>2. CASE Owns(c)
      <3>1. PICK op \in Ops, o \in Sizes \cap Fitting(c), n \in Sizes \cup {0} :
               /\ k = Call(op, o, n, "start", 0)
               /\ op \in Changing \/ op = "deallocate"
        <4>1. CASE \E o \in Sizes \cap Fitting(c) : k = Call("deallocate", o, 0, "start", 0)
          BY <4>1 DEF Ops
        <4>2. CASE \E op \in Growing, o \in Sizes \cap Fitting(c),
                      n \in {z \in Sizes : z > block[c].size} :
                      k = Call(op, o, n, "start", 0)
          BY <4>2 DEF Ops, Changing
        <4>3. CASE \E o \in Sizes \cap Fitting(c), n \in Sizes :
                      k = Call("shrink", o, n, "start", 0)
          BY <4>3 DEF Ops, Changing
        <4> QED
          BY <1>1, <2>2, <4>1, <4>2, <4>3 DEF Requests
      <3>2. /\ o \in Nat /\ n \in Nat /\ block[c].size <= o /\ o <= block[c].len
        BY <1>5, <3>1, SizesAssumption DEF Fitting
      <3>3. /\ op \in Growing => n > o
            /\ op = "shrink" => n < o
        BY <1>1, <3>1 DEF Legal, Call
      <3>4. Contract!Legal(c, Contract!Request(op, o, n))
        BY <1>5, <2>2, <3>1, <3>2, <3>3
           DEF Contract!Legal, Contract!Request, Changing, Growing, Held
      <3>5. op \in Contract!Ops /\ o \in Sizes \cup {0}
        BY <3>1 DEF Ops, Contract!Ops, Acquiring, Growing
      <3> QED  BY <3>1, <3>4, <3>5
    <2> QED  BY <2>1, <2>2
  <1>8. Asks(c)
    BY <1>2, <1>4, <1>6, <1>7 DEF Asks
  <1> QED  BY <1>2, <1>3, <1>6, <1>7, <1>8 DEF Serves, Touches, BuildOK, Outcome

LEMMA WriteServes ==
    ASSUME CInv, NEW c \in Clients, Write(c)
    PROVE  Serves(c)
  <1>1. /\ Idle(c) /\ block' = block /\ call' = call
        /\ memory' = [x \in Addresses |->
                     IF x \in Extent(block[c].at, block[c].len)
                     THEN <<c, x - block[c].at>> ELSE memory[x]]
    BY DEF Write, Stamp
  <1>2. /\ block[c].at \in Int /\ block[c].len \in Nat
        /\ Extent(block[c].at, block[c].len) \subseteq Addresses
        /\ DOMAIN Held(c) = 0 .. block[c].len - 1
    BY Measures DEF CInv
  <1>3. \A i \in 0 .. block[c].len - 1 : memory'[block[c].at + i] = <<c, i>>
    <2> TAKE i \in 0 .. block[c].len - 1
    <2>1. block[c].at + i \in Extent(block[c].at, block[c].len)
      BY <1>2, InExtent
    <2>2. (block[c].at + i) - block[c].at = i
      BY <1>2
    <2> QED  BY <1>1, <1>2, <2>1, <2>2
  <1>4. Held(c)' = [i \in DOMAIN Held(c) |-> <<c, i>>]
    BY <1>1, <1>2, <1>3 DEF Held
  <1>5. Asked(c)' = Asked(c) /\ ~Building(c)'
    BY <1>1 DEF Asked, Idle, Building, NoCall, Call
  <1>6. Fills(c)
    BY <1>1, <1>4, <1>5 DEF Fills
  <1>7. Touches(c)
    BY <1>1 DEF Touches, OwnedBy
  <1> QED  BY <1>1, <1>5, <1>6, <1>7 DEF Serves, OthersStay, BuildOK, Outcome

-----------------------------------------------------------------------------
(* allocate, allocate_zeroed, deallocate *)

\* The block that a client has after a step lies in the address space.
LEMMA NewBlock ==
    ASSUME IInv', NEW c \in Clients, NEW at \in Addresses, NEW n \in Nat \ {0},
           block \in [Clients -> Blocks], Returns(c, at, n)
    PROVE  Extent(at, n) \subseteq Addresses
  <1>1. block'[c].at = at /\ block'[c].len = n
    BY DEF Returns, Block
  <1>2. block'[c] # NoBlock
    BY <1>1 DEF NoBlock, Block
  <1>3. BlockOK(c)'
    BY DEF IInv, Ownership, ClientOK
  <1> QED  BY <1>1, <1>2, <1>3 DEF BlockOK, Owns, Lies, Covers

LEMMA AllocateServes ==
    ASSUME CInv, IInv', NEW c \in Clients, AllocateOnHeap(c) \/ AllocateMapped(c)
    PROVE  Serves(c)
  <1>1. /\ call[c].op \in Acquiring /\ call[c].stage = "start"
        /\ call[c].new \in Nat \ {0} /\ ~Owns(c)
    <2>1. call[c].op \in Acquiring /\ call[c].stage = "start"
      BY DEF AllocateOnHeap, AllocateMapped, At
    <2>2. CallOK(c)
      BY Client DEF CInv
    <2>3. call[c].new \in Steady /\ ~Owns(c)
      BY <2>1, <2>2 DEF CallOK, Acquiring, Changing, Growing, Idle, NoCall, Call
    <2> QED
      BY <2>1, <2>3, SteadySizes
  <1> DEFINE n == BlockSize(call[c].new)
  <1>2. n \in Nat \ {0} /\ block \in [Clients -> Blocks]
    BY <1>1, BlockSizes DEF CInv, IInv, TypeOK
  <1>3. CASE Fails(c)
    BY <1>1, <1>3, FailServes
  <1>4. CASE ~Fails(c)
    <2>1. PICK a \in Places, v \in {Zero, Junk} :
              /\ memory' = Painted(memory, a, n, v) /\ Returns(c, a, n)
              /\ call[c].op = "allocate_zeroed" => v = Zero
      <3>1. CASE AllocateOnHeap(c)
        <4>1. n = call[c].new
          BY <3>1 DEF AllocateOnHeap, BlockSize
        <4> QED  BY <1>4, <3>1, <4>1 DEF AllocateOnHeap, malloc
      <3>2. CASE AllocateMapped(c)
        <4>1. n = mapped_size(call[c].new)
          BY <3>2 DEF AllocateMapped, BlockSize
        <4> QED  BY <1>4, <3>2, <4>1 DEF AllocateMapped, do_mmap, mmap
      <3> QED  BY <3>1, <3>2
    <2>2. a \in Addresses /\ a \in Int
      BY PlacesAssumption DEF Addresses
    <2>3. Extent(a, n) \subseteq Addresses
      BY <1>2, <2>1, <2>2, NewBlock
    <2>4. /\ \A i \in 0 .. n - 1 : memory'[a + i] = v
          /\ \A x \in Addresses \ Extent(a, n) : memory'[x] = memory[x]
      BY <1>2, <2>1, <2>2, <2>3, PaintedContents
    <2>5. Delivers(c, a, n)
      BY <1>1, <2>1, <2>4 DEF Delivers, Acquiring, Growing
    <2> QED  BY <1>1, <2>1, <2>2, <2>4, <2>5, Answers DEF Stages
  <1> QED  BY <1>3, <1>4

LEMMA DeallocateServes ==
    ASSUME CInv, NEW c \in Clients, Deallocate(c)
    PROVE  Serves(c)
  <1>1. call[c].op = "deallocate" /\ call[c].stage = "start"
    BY DEF Deallocate, At
  <1>2. Owns(c) /\ call[c].old \in Fitting(c) /\ ~Idle(c)
    <2>1. CallOK(c)
      BY Client DEF CInv
    <2> QED
      BY <1>1, <2>1 DEF CallOK, Acquiring, Changing, Growing, Idle, NoCall, Call
  <1>3. \A x \in Addresses \ Extent(block[c].at, block[c].len) : memory'[x] = memory[x]
    BY <1>2, ReleaseContents DEF Deallocate, CInv
  <1>4. /\ block'[c] = NoBlock /\ call'[c] = NoCall /\ OthersStay(c)
    <2>1. block \in [Clients -> Blocks] /\ call \in [Clients -> Calls]
      BY DEF CInv, IInv, TypeOK
    <2> QED  BY <2>1 DEF Deallocate, OthersStay
  <1>5. /\ block'[c].size = 0 /\ block'[c].len = 0 /\ ~Building(c)' /\ Asked(c)' = NoRequest
    BY <1>4 DEF NoBlock, Block, Building, NoCall, Call, Asked, Idle
  <1>6. Held(c)' = Contract!Empty
    <2>1. 0 .. block'[c].len - 1 = {}
      BY <1>5
    <2>2. Held(c)' = [i \in 0 .. block'[c].len - 1 |-> memory'[block'[c].at + i]]
      BY DEF Held
    <2> QED  BY <2>1, <2>2 DEF Contract!Empty
  <1>7. Ended(c)
    BY <1>1, <1>2, <1>5, <1>6 DEF Ended
  <1>8. Touches(c)
    BY <1>3 DEF Touches, OwnedBy
  <1> QED  BY <1>4, <1>5, <1>7, <1>8 DEF Serves, BuildOK, Outcome

-----------------------------------------------------------------------------
(* grow, grow_zeroed, shrink *)

\* What is known when a handler of Changing starts.
LEMMA Started ==
    ASSUME CInv, NEW c \in Clients, call[c].op \in Changing,
           call[c].stage \in {"start", "remap_failed"}
    PROVE  /\ call[c].stage \in Stages /\ ~Building(c)
           /\ OwnedBy(c) = Extent(block[c].at, block[c].len)
           /\ Owns(c) /\ call[c].old \in Fitting(c) /\ call[c].new \in Nat \ {0}
           /\ BlockSize(call[c].new) \in Nat \ {0} /\ BlockSize(call[c].new) >= call[c].new
           /\ block \in [Clients -> Blocks]
           /\ block[c].at \in Int /\ block[c].at \in Addresses /\ block[c].len \in Nat
           /\ call[c].old \in Nat /\ call[c].old <= block[c].len
           /\ BlockSize(call[c].old) = block[c].len
           /\ Extent(block[c].at, block[c].len) \subseteq Addresses
           /\ IF call[c].op = "shrink" THEN call[c].new < call[c].old
                                       ELSE call[c].new > call[c].old
  <1>1. /\ call[c].stage \in Stages /\ ~Building(c)
        /\ OwnedBy(c) = Extent(block[c].at, block[c].len)
        /\ Owns(c) /\ call[c].old \in Fitting(c) /\ call[c].new \in Nat \ {0}
    BY Unbuilt, SteadySizes DEF CInv
  <1>2. BlockSize(call[c].new) \in Nat \ {0} /\ BlockSize(call[c].new) >= call[c].new
    BY <1>1, BlockSizes
  <1>3. /\ block[c].at \in Addresses /\ block[c].at \in Int /\ block[c].len \in Nat
        /\ call[c].old \in Nat /\ call[c].old <= block[c].len
        /\ BlockSize(call[c].old) = block[c].len
        /\ Extent(block[c].at, block[c].len) \subseteq Addresses
    BY <1>1, OldBlock DEF CInv, Lies, Covers
  <1>4. IF call[c].op = "shrink" THEN call[c].new < call[c].old
                                 ELSE call[c].new > call[c].old
    BY <1>1, Changes DEF CInv
  <1> QED  BY <1>1, <1>2, <1>3, <1>4 DEF CInv, IInv, TypeOK

\* realloc and mremap move the whole block.
LEMMA TransferServes ==
    ASSUME CInv, IInv', NEW c \in Clients, call[c].op \in Changing,
           call[c].stage = "start", NEW a \in Addresses, NEW kind, NEW v,
           Transfer(block[c].at, block[c].len, a, BlockSize(call[c].new), kind, v),
           Returns(c, a, BlockSize(call[c].new)),
           call[c].op = "grow_zeroed" => v = Zero
    PROVE  Serves(c)
  <1> DEFINE n == BlockSize(call[c].new)
  <1>1. /\ block[c].at \in Int /\ block[c].len \in Nat /\ n \in Nat \ {0}
        /\ n >= call[c].new /\ call[c].old \in Nat /\ call[c].old <= block[c].len
        /\ call[c].stage \in Stages /\ call[c].new \in Nat \ {0}
        /\ block \in [Clients -> Blocks]
        /\ OwnedBy(c) = Extent(block[c].at, block[c].len)
        /\ IF call[c].op = "shrink" THEN call[c].new < call[c].old
                                    ELSE call[c].new > call[c].old
    BY Started
  <1>2. a \in Int /\ Extent(a, n) \subseteq Addresses
    BY <1>1, NewBlock DEF Addresses
  <1>3. /\ \A i \in 0 .. n - 1 :
              memory'[a + i] = IF i < block[c].len THEN memory[block[c].at + i] ELSE v
        /\ \A x \in Addresses \ (Extent(block[c].at, block[c].len) \cup Extent(a, n)) :
              memory'[x] = memory[x]
    <2>1. Transfer(block[c].at, block[c].len, a, n, kind, v)
      OBVIOUS
    <2> HIDE DEF n
    <2>2. block[c].at \in Int /\ block[c].len \in Nat /\ n \in Nat /\ a \in Int
      BY <1>1, <1>2
    <2>3. CarriedOver(block[c].at, block[c].len, a, n, v)
      BY <1>2, <2>1, <2>2, TransferContents
    <2> QED  BY <2>3 DEF CarriedOver
  <1> HIDE DEF n
  <1>4. Delivers(c, a, n)
    <2>1. ASSUME call[c].op \in Growing, NEW i \in 0 .. call[c].old - 1
          PROVE  memory'[a + i] = memory[block[c].at + i]
      <3>1. i \in 0 .. n - 1 /\ i < block[c].len
        BY <1>1, <2>1 DEF Growing
      <3> QED  BY <1>3, <3>1
    <2>2. ASSUME call[c].op = "grow_zeroed", NEW i \in call[c].old .. call[c].new - 1
          PROVE  \/ memory'[a + i] = Zero
                 \/ i < block[c].len /\ memory'[a + i] = memory[block[c].at + i]
      <3>1. i \in 0 .. n - 1
        BY <1>1, <2>2
      <3> QED  BY <1>3, <2>2, <3>1
    <2>3. ASSUME call[c].op = "shrink", NEW i \in 0 .. call[c].new - 1
          PROVE  memory'[a + i] = memory[block[c].at + i]
      <3>1. i \in 0 .. n - 1 /\ i < block[c].len
        BY <1>1, <2>3
      <3> QED  BY <1>3, <3>1
    <2>4. call[c].op # "allocate_zeroed"
      BY DEF Changing, Growing
    <2> QED  BY <2>1, <2>2, <2>3, <2>4 DEF Delivers
  <1> QED  BY <1>1, <1>3, <1>4, Answers DEF n

LEMMA OnHeapServes ==
    ASSUME CInv, IInv', NEW c \in Clients, GrowOnHeap(c) \/ ShrinkOnHeap(c)
    PROVE  Serves(c)
  <1>1. /\ call[c].op \in Changing /\ call[c].stage = "start" /\ OnHeap(c)
        /\ call[c].op # "grow_zeroed"
    BY DEF GrowOnHeap, ShrinkOnHeap, At, Changing, Growing
  <1>2. CASE Fails(c)
    BY <1>1, <1>2, FailServes
  <1>3. CASE ~Fails(c)
    <2>1. PICK a \in Addresses : /\ realloc(block[c].at, call[c].old, a, call[c].new)
                                /\ Returns(c, a, call[c].new)
      BY <1>3 DEF GrowOnHeap, ShrinkOnHeap
    <2>2. BlockSize(call[c].new) = call[c].new /\ call[c].old = block[c].len
      <3>1. BlockSize(call[c].old) = block[c].len
        BY <1>1, Started
      <3> QED  BY <1>1, <3>1 DEF OnHeap, BlockSize
    <2> QED  BY <1>1, <2>1, <2>2, TransferServes DEF realloc
  <1> QED  BY <1>2, <1>3

LEMMA GrowRemapServes ==
    ASSUME CInv, IInv', NEW c \in Clients, GrowRemap(c)
    PROVE  Serves(c)
  <1>1. /\ call[c].op \in Changing /\ call[c].stage = "start" /\ BothMapped(c)
    BY DEF GrowRemap, At, Changing
  <1>2. /\ BlockSize(call[c].new) = mapped_size(call[c].new)
        /\ block[c].len = mapped_size(call[c].old)
        /\ call[c].stage \in Stages /\ ~Building(c)
    <2>1. /\ BlockSize(call[c].old) = block[c].len
          /\ call[c].stage \in Stages /\ ~Building(c)
      BY <1>1, Started
    <2> QED  BY <1>1, <2>1 DEF BothMapped, BlockSize
  <1>3. CASE \E a \in Addresses :
                /\ mremap(block[c].at, mapped_size(call[c].old), a, mapped_size(call[c].new))
                /\ Returns(c, a, mapped_size(call[c].new))
    BY <1>1, <1>2, <1>3, TransferServes DEF mremap
  <1>4. CASE GoesTo(c, "remap_failed", 0) /\ UNCHANGED <<mapping, memory>>
    <2>1. 0 \in Addresses /\ "remap_failed" \in Stages
      BY TopAssumption DEF Addresses, Stages
    <2>2. OthersStay(c) /\ GoesUnseen(c) /\ call'[c].stage = "remap_failed"
      BY <1>1, <1>2, <1>4, <2>1, GoingOn
    <2> QED  BY <1>4, <2>2 DEF Serves, Touches, BuildOK, Building, Outcome
  <1> QED  BY <1>3, <1>4 DEF GrowRemap

\* The block stays where it is; at most its end is given up.
LEMMA InPlaceServes ==
    ASSUME CInv, IInv', NEW c \in Clients, call[c].op \in Changing,
           call[c].stage = "start", NEW n \in 0 .. block[c].len,
           BlockSize(call[c].new) = n, Returns(c, block[c].at, n),
           \A x \in Addresses \ Extent(block[c].at + n, block[c].len - n) :
               memory'[x] = memory[x]
    PROVE  Serves(c)
  <1>1. /\ block[c].at \in Addresses /\ block[c].at \in Int
        /\ block[c].len \in Nat /\ n \in Nat \ {0}
        /\ n >= call[c].new /\ call[c].old \in Nat /\ call[c].old <= block[c].len
        /\ call[c].stage \in Stages /\ call[c].new \in Nat \ {0}
        /\ OwnedBy(c) = Extent(block[c].at, block[c].len)
        /\ Extent(block[c].at, block[c].len) \subseteq Addresses
        /\ IF call[c].op = "shrink" THEN call[c].new < call[c].old
                                    ELSE call[c].new > call[c].old
    BY Started
  <1>2. /\ Extent(block[c].at, n) \subseteq Extent(block[c].at, block[c].len)
        /\ Extent(block[c].at, block[c].len) \ Extent(block[c].at, n)
               = Extent(block[c].at + n, block[c].len - n)
    <2>1. block[c].at \in Int /\ block[c].len \in Nat /\ n \in 0 .. block[c].len
      BY <1>1
    <2> QED  BY <2>1, Extents
  <1>3. \A i \in 0 .. n - 1 : memory'[block[c].at + i] = memory[block[c].at + i]
    <2> TAKE i \in 0 .. n - 1
    <2>1. block[c].at + i \in Extent(block[c].at, n)
      BY <1>1, InExtent
    <2> QED  BY <1>1, <1>2, <2>1
  <1>4. \A x \in Addresses \ (OwnedBy(c) \cup Extent(block[c].at, n)) : memory'[x] = memory[x]
    BY <1>1, <1>2
  <1>5. Delivers(c, block[c].at, n)
    <2>1. \A i \in 0 .. call[c].new - 1 : i \in 0 .. n - 1 /\ i < block[c].len
      BY <1>1
    <2>2. call[c].op \in Growing => \A i \in 0 .. call[c].old - 1 : i \in 0 .. call[c].new - 1
      BY <1>1 DEF Growing
    <2>3. \A i \in call[c].old .. call[c].new - 1 : i \in 0 .. call[c].new - 1
      BY <1>1
    <2>4. call[c].op # "allocate_zeroed"
      BY DEF Changing, Growing
    <2> QED  BY <1>3, <2>1, <2>2, <2>3, <2>4 DEF Delivers
  <1> QED  BY <1>1, <1>4, <1>5, Answers

LEMMA WithinServes ==
    ASSUME CInv, IInv', NEW c \in Clients, GrowWithin(c) \/ ShrinkWithin(c)
    PROVE  Serves(c)
  <1>1. /\ call[c].op \in Changing /\ call[c].stage = "start"
        /\ BothMapped(c) /\ SameExtent(c)
        /\ Returns(c, block[c].at, mapped_size(call[c].new)) /\ memory' = memory
    BY DEF GrowWithin, ShrinkWithin, At, Changing, Growing
  <1>2. /\ BlockSize(call[c].new) = block[c].len /\ block[c].len \in 0 .. block[c].len
        /\ block[c].len = mapped_size(call[c].new)
    <2>1. BlockSize(call[c].old) = block[c].len /\ block[c].len \in Nat
      BY <1>1, Started
    <2> QED  BY <1>1, <2>1 DEF BothMapped, SameExtent, BlockSize
  <1> QED  BY <1>1, <1>2, InPlaceServes

LEMMA ShrinkTailServes ==
    ASSUME CInv, IInv', NEW c \in Clients, ShrinkTail(c)
    PROVE  Serves(c)
  <1>1. /\ call[c].op \in Changing /\ call[c].stage = "start"
        /\ BothMapped(c) /\ call[c].op = "shrink"
    BY DEF ShrinkTail, At, Changing
  <1>2. /\ call[c].old \in Nat /\ call[c].new \in Nat \ {0} /\ call[c].new < call[c].old
        /\ BlockSize(call[c].new) = mapped_size(call[c].new)
        /\ block[c].len = mapped_size(call[c].old) /\ block[c].len \in Nat
        /\ BlockSize(call[c].new) \in Nat
    <2>1. /\ BlockSize(call[c].old) = block[c].len /\ block[c].len \in Nat
          /\ call[c].old \in Nat /\ call[c].new \in Nat \ {0}
          /\ BlockSize(call[c].new) \in Nat
          /\ call[c].new < call[c].old
      BY <1>1, Started
    <2> QED  BY <1>1, <2>1 DEF BothMapped, BlockSize
  <1>3. BlockSize(call[c].new) \in 0 .. block[c].len
    <2>1. mapped_size(call[c].new) <= mapped_size(call[c].old)
      BY <1>2, MappedSizeMonotone
    <2> QED  BY <1>2, <2>1
  <1>4. \A x \in Addresses \ Extent(block[c].at + BlockSize(call[c].new),
                                    block[c].len - BlockSize(call[c].new)) :
            memory'[x] = memory[x]
    BY <1>2, UnmapContents DEF ShrinkTail
  <1> QED  BY <1>1, <1>2, <1>3, <1>4, InPlaceServes DEF ShrinkTail

-----------------------------------------------------------------------------
(* Relocations *)

\* The new block has been taken, and holds v all over.
LEMMA BeginsServing ==
    ASSUME CInv, IInv', NEW c \in Clients, call[c].op \in Changing,
           call[c].stage \in {"start", "remap_failed"}, NEW a \in Addresses, NEW v,
           GoesTo(c, "copy", a),
           memory' = Painted(memory, a, BlockSize(call[c].new), v),
           call[c].op = "grow_zeroed" => v = Zero
    PROVE  Serves(c)
  <1> DEFINE n == BlockSize(call[c].new)
  <1>1. /\ call[c].stage \in Stages /\ n \in Nat \ {0} /\ n >= call[c].new
        /\ call[c].new \in Nat \ {0} /\ a \in Int /\ call[c].old \in Nat
    BY Started DEF Addresses
  <1>2. /\ block' = block /\ call'[c].new = call[c].new /\ call'[c].old = call[c].old
        /\ call'[c].op = call[c].op /\ call'[c].stage = "copy" /\ call'[c].dest = a
    <2>1. /\ block' = block
          /\ call'[c] = Call(call[c].op, call[c].old, call[c].new, "copy", a)
      BY <1>1, GoesOn DEF CInv, Stages
    <2> QED  BY <2>1 DEF Call
  <1>3. Extent(a, n) \subseteq Addresses
    <2>1. CallOK(c)' /\ Building(c)'
      BY <1>2 DEF IInv, Ownership, ClientOK, Building
    <2>2. Lies(call[c].dest, BlockSize(call[c].new), call[c].new)'
      BY <1>2, <2>1 DEF CallOK, Idle, NoCall, Call
    <2> QED  BY <1>2, <2>2 DEF Lies, Covers
  <1>4. Extent(block[c].at, block[c].len) \cap Extent(a, n) = {}
    <2>1. Apart(c)'
      BY DEF IInv, Ownership, ClientOK
    <2> QED  BY <1>2, <2>1 DEF Apart, Destination, Building
  <1>5. /\ \A i \in 0 .. n - 1 : memory'[a + i] = v
        /\ \A x \in Addresses \ Extent(a, n) : memory'[x] = memory[x]
    <2>1. memory' = Painted(memory, a, n, v)
      OBVIOUS
    <2> HIDE DEF n
    <2> QED  BY <1>1, <1>3, <2>1, PaintedContents
  <1>6. \A x \in Extent(block[c].at, block[c].len) : memory'[x] = memory[x]
    <2>1. Extent(block[c].at, block[c].len) \subseteq Addresses
      BY Measures DEF CInv
    <2> QED  BY <1>4, <1>5, <2>1
  <1>7. OthersStay(c) /\ GoesUnseen(c)
    BY <1>1, <1>6, GoingOn DEF Stages
  <1>8. Touches(c)
    <2>1. OwnedBy(c)' = Extent(block[c].at, block[c].len) \cup Extent(a, n)
      BY <1>2 DEF OwnedBy, Destination, Building
    <2> QED  BY <1>5, <2>1 DEF Touches
  <1>9. BuildOK(c)'
    <2>1. ASSUME call[c].op = "grow_zeroed", NEW i \in call[c].old .. call[c].new - 1
          PROVE  memory'[a + i] = Zero
      <3>1. i \in 0 .. n - 1
        BY <1>1
      <3> QED  BY <1>5, <2>1, <3>1
    <2> QED  BY <1>2, <2>1 DEF BuildOK
  <1> QED  BY <1>7, <1>8, <1>9 DEF Serves, Outcome

LEMMA RelocationServes ==
    ASSUME CInv, IInv', NEW c \in Clients,
           \/ GrowZeroedOnHeap(c) \/ GrowToMmap(c) \/ GrowRelocate(c)
           \/ ShrinkToHeap(c) \/ ShrinkFromGiant(c)
    PROVE  Serves(c)
  <1>1. call[c].op \in Changing /\ call[c].stage \in {"start", "remap_failed"}
    BY DEF GrowZeroedOnHeap, GrowToMmap, GrowRelocate, ShrinkToHeap, ShrinkFromGiant,
           At, Changing, Growing
  <1>2. /\ call[c].stage = "remap_failed" => uses_mmap(call[c].new)
    BY <1>1, Started, Changes DEF CInv
  <1>3. CASE Fails(c)
    BY <1>1, <1>3, FailServes
  <1>4. CASE ~Fails(c)
    <2>1. PICK a \in Places, v \in {Zero, Junk} :
              /\ memory' = Painted(memory, a, BlockSize(call[c].new), v)
              /\ GoesTo(c, "copy", a)
              /\ call[c].op = "grow_zeroed" => v = Zero
      <3>1. CASE GrowZeroedOnHeap(c)
        <4>1. BlockSize(call[c].new) = call[c].new
          BY <3>1 DEF GrowZeroedOnHeap, OnHeap, BlockSize
        <4> QED  BY <1>4, <3>1, <4>1 DEF GrowZeroedOnHeap, TakesHeapBlock, malloc
      <3>2. CASE ShrinkToHeap(c)
        <4>1. BlockSize(call[c].new) = call[c].new /\ call[c].op = "shrink"
          BY <3>2 DEF ShrinkToHeap, BlockSize, At
        <4> QED  BY <1>4, <3>2, <4>1 DEF ShrinkToHeap, TakesHeapBlock, malloc
      <3>3. CASE GrowToMmap(c) \/ GrowRelocate(c) \/ ShrinkFromGiant(c)
        <4>1. BlockSize(call[c].new) = mapped_size(call[c].new)
          BY <1>2, <3>3 DEF GrowToMmap, GrowRelocate, ShrinkFromGiant, BothMapped,
                            BlockSize, At
        <4> QED  BY <1>4, <3>3, <4>1 DEF GrowToMmap, GrowRelocate, ShrinkFromGiant,
                                         TakesMapping, do_mmap, mmap
      <3> QED  BY <3>1, <3>2, <3>3
    <2>2. a \in Addresses
      BY PlacesAssumption DEF Addresses
    <2> QED  BY <1>1, <2>1, <2>2, BeginsServing
  <1> QED  BY <1>3, <1>4

\* What is known of a relocation that has its destination.
LEMMA Rebuilding ==
    ASSUME CInv, NEW c \in Clients, Building(c)
    PROVE  /\ call[c].op \in Changing /\ call[c].stage \in Stages
           /\ call[c].dest \in Addresses /\ call[c].dest \in Int
           /\ block[c].at \in Int /\ block[c].len \in Nat
           /\ Owns(c) /\ call[c].old \in Fitting(c)
           /\ call[c].old \in Nat /\ call[c].old <= block[c].len
           /\ call[c].new \in Nat \ {0} /\ BlockSize(call[c].new) \in Nat \ {0}
           /\ BlockSize(call[c].new) >= call[c].new
           /\ Kept(c) \in Nat /\ Kept(c) <= block[c].len /\ Kept(c) <= call[c].new
           /\ Extent(call[c].dest, BlockSize(call[c].new)) \subseteq Addresses
           /\ Extent(block[c].at, block[c].len) \subseteq Addresses
           /\ Extent(block[c].at, block[c].len)
                  \cap Extent(call[c].dest, BlockSize(call[c].new)) = {}
           /\ OwnedBy(c) = Extent(block[c].at, block[c].len)
                              \cup Extent(call[c].dest, BlockSize(call[c].new))
           /\ IF call[c].op = "shrink" THEN call[c].new < call[c].old
                                       ELSE call[c].new > call[c].old
  <1>1. CallOK(c) /\ call[c] \in Calls /\ Apart(c)
    BY Client DEF CInv
  <1>2. call[c].op \in Changing /\ call[c].stage \in Stages /\ call[c].dest \in Addresses
    BY <1>1 DEF Building, CallOK, Idle, NoCall, Call, Calls
  <1>3. /\ Owns(c) /\ call[c].old \in Fitting(c) /\ call[c].new \in Nat \ {0}
        /\ IF call[c].op = "shrink" THEN call[c].new < call[c].old
                                    ELSE call[c].new > call[c].old
        /\ Lies(call[c].dest, BlockSize(call[c].new), call[c].new)
    BY <1>2, Changes DEF CInv
  <1>4. /\ block[c].at \in Int /\ block[c].len \in Nat
        /\ call[c].old \in Nat /\ call[c].old <= block[c].len
        /\ Extent(block[c].at, block[c].len) \subseteq Addresses
    BY <1>3, OldBlock DEF CInv, Lies, Covers
  <1>5. BlockSize(call[c].new) \in Nat \ {0} /\ BlockSize(call[c].new) >= call[c].new
    BY <1>3, BlockSizes
  <1>6. Kept(c) \in Nat /\ Kept(c) <= block[c].len /\ Kept(c) <= call[c].new
    BY <1>3, <1>4 DEF Kept
  <1> QED  BY <1>1, <1>2, <1>3, <1>4, <1>5, <1>6
              DEF Lies, Covers, Apart, Destination, OwnedBy, Addresses

LEMMA CopyOverServes ==
    ASSUME CInv, NEW c \in Clients, CopyOver(c)
    PROVE  Serves(c)
  <1> DEFINE n == BlockSize(call[c].new)
             from == Extent(block[c].at, block[c].len)
             to == Extent(call[c].dest, n)
  <1>1. call[c].stage = "copy" /\ Building(c)
    BY DEF CopyOver, At, Building
  <1>2. /\ call[c].op \in Changing /\ call[c].stage \in Stages
        /\ call[c].dest \in Addresses /\ call[c].dest \in Int
        /\ block[c].at \in Int /\ block[c].len \in Nat
        /\ call[c].old \in Nat /\ call[c].new \in Nat \ {0} /\ n \in Nat \ {0}
        /\ n >= call[c].new
        /\ Kept(c) \in Nat /\ Kept(c) <= block[c].len /\ Kept(c) <= call[c].new
        /\ to \subseteq Addresses /\ from \subseteq Addresses /\ from \cap to = {}
        /\ OwnedBy(c) = from \cup to
        /\ IF call[c].op = "shrink" THEN call[c].new < call[c].old
                                    ELSE call[c].new > call[c].old
    BY <1>1, Rebuilding
  <1>3. /\ memory' = [x \in Addresses |->
                  IF x \in Extent(call[c].dest, Kept(c))
                  THEN memory[block[c].at + x - call[c].dest] ELSE memory[x]]
        /\ GoesTo(c, "release", call[c].dest)
    BY DEF CopyOver, memcpy, Kept
  <1> HIDE DEF n
  <1>4. Extent(call[c].dest, Kept(c)) \subseteq to
    BY <1>2 DEF Extent
  <1>5. \A x \in from : memory'[x] = memory[x]
    BY <1>2, <1>3, <1>4
  <1>6. /\ OthersStay(c) /\ GoesUnseen(c) /\ block' = block
        /\ call'[c].op = call[c].op /\ call'[c].old = call[c].old
        /\ call'[c].new = call[c].new /\ call'[c].stage = "release"
        /\ call'[c].dest = call[c].dest
    BY <1>2, <1>3, <1>5, GoingOn DEF Stages
  <1>7. Touches(c)
    BY <1>2, <1>3, <1>4 DEF Touches
  <1>8. ASSUME NEW i \in 0 .. Kept(c) - 1
        PROVE  memory'[call[c].dest + i] = memory'[block[c].at + i]
    <2>1. /\ call[c].dest + i \in Extent(call[c].dest, Kept(c))
          /\ call[c].dest + i \in Addresses
      BY <1>2, <1>4, InExtent
    <2>2. block[c].at + (call[c].dest + i) - call[c].dest = block[c].at + i
      BY <1>2
    <2>3. memory'[call[c].dest + i] = memory[block[c].at + i]
      BY <1>3, <2>1, <2>2
    <2>4. i \in 0 .. block[c].len - 1
      BY <1>2
    <2>5. block[c].at + i \in from
      BY <1>2, <2>4, InExtent
    <2> QED  BY <1>5, <2>3, <2>5
  <1>9. ASSUME call[c].op = "grow_zeroed", NEW i \in call[c].old .. call[c].new - 1
        PROVE  memory'[call[c].dest + i] = Zero
    <2>1. memory[call[c].dest + i] = Zero
      BY <1>1, <1>9 DEF CInv, BuildOK
    <2>2. i \in 0 .. n - 1 /\ i >= Kept(c)
      BY <1>2, <1>9 DEF Kept
    <2>3. call[c].dest + i \in to /\ call[c].dest + i \notin Extent(call[c].dest, Kept(c))
      BY <1>2, <2>2 DEF Extent
    <2> QED  BY <1>2, <1>3, <2>1, <2>3
  <1>10. BuildOK(c)'
    BY <1>6, <1>8, <1>9 DEF BuildOK, Kept
  <1> QED  BY <1>6, <1>7, <1>10 DEF Serves, Outcome

LEMMA ReleaseOldServes ==
    ASSUME CInv, NEW c \in Clients, ReleaseOld(c)
    PROVE  Serves(c)
  <1> DEFINE n == BlockSize(call[c].new)
             from == Extent(block[c].at, block[c].len)
             to == Extent(call[c].dest, n)
  <1>1. call[c].stage = "release" /\ Building(c)
    BY DEF ReleaseOld, At, Building
  <1>2. /\ call[c].op \in Changing /\ call[c].stage \in Stages
        /\ call[c].dest \in Addresses /\ call[c].dest \in Int
        /\ Owns(c) /\ call[c].old \in Fitting(c)
        /\ call[c].old \in Nat /\ call[c].new \in Nat \ {0} /\ n \in Nat \ {0}
        /\ n >= call[c].new
        /\ Kept(c) \in Nat /\ Kept(c) <= call[c].new
        /\ to \subseteq Addresses /\ from \cap to = {} /\ OwnedBy(c) = from \cup to
        /\ IF call[c].op = "shrink" THEN call[c].new < call[c].old
                                    ELSE call[c].new > call[c].old
    BY <1>1, Rebuilding
  <1>3. \A x \in Addresses \ from : memory'[x] = memory[x]
    BY <1>2, ReleaseContents DEF ReleaseOld, CInv
  <1>4. \A i \in 0 .. n - 1 : memory'[call[c].dest + i] = memory[call[c].dest + i]
    <2>1. \A i \in 0 .. n - 1 : call[c].dest + i \in to
      BY <1>2, InExtent
    <2> QED  BY <1>2, <1>3, <2>1
  <1>5. Delivers(c, call[c].dest, n)
    <2>1. BuildOK(c)
      BY DEF CInv
    <2>2. \A i \in 0 .. Kept(c) - 1 : /\ i \in 0 .. n - 1
                                      /\ memory[call[c].dest + i] = memory[block[c].at + i]
      BY <1>1, <1>2, <2>1 DEF BuildOK
    <2>3. \A i \in 0 .. Kept(c) - 1 : memory'[call[c].dest + i] = memory[block[c].at + i]
      BY <1>4, <2>2
    <2>4. ASSUME call[c].op = "grow_zeroed", NEW i \in call[c].old .. call[c].new - 1
          PROVE  memory'[call[c].dest + i] = Zero
      <3>1. memory[call[c].dest + i] = Zero
        BY <1>1, <2>1, <2>4 DEF BuildOK
      <3>2. i \in 0 .. n - 1
        BY <1>2
      <3> QED  BY <1>4, <3>1, <3>2
    <2>5. /\ call[c].op \in Growing => Kept(c) = call[c].old
          /\ call[c].op = "shrink" => Kept(c) = call[c].new
          /\ call[c].op # "allocate_zeroed"
      BY <1>2 DEF Kept, Growing, Changing
    <2> QED  BY <2>3, <2>4, <2>5 DEF Delivers
  <1>6. Returns(c, call[c].dest, n)
    BY DEF ReleaseOld
  <1> QED  BY <1>2, <1>3, <1>5, <1>6, Answers

-----------------------------------------------------------------------------
(* The refinement *)

LEMMA StepServes ==
    ASSUME CInv, IInv', NEW c \in Clients, Request(c) \/ Write(c) \/ Step(c)
    PROVE  Serves(c)
  BY RequestServes, WriteServes, AllocateServes, DeallocateServes, OnHeapServes,
     RelocationServes, WithinServes, GrowRemapServes, ShrinkTailServes, CopyOverServes,
     ReleaseOldServes DEF Step, Grow, Shrink

LEMMA ContentsKept ==
    ASSUME Steady = Sizes, CInv, [Next]_vars
    PROVE  CInv' /\ [Contract!Next]_(Contract!vars)
  <1>1. IInv'
    BY NextInv DEF CInv
  <1>2. CASE Next
    <2>1. PICK c \in Clients : Request(c) \/ Write(c) \/ Step(c)
      BY <1>2 DEF Next
    <2>2. Serves(c)
      BY <1>1, <2>1, StepServes
    <2>3. \A d \in Clients : BuildOK(d)'
      BY <1>1, <2>2, OthersKeep DEF Serves
    <2> QED  BY <1>1, <2>2, <2>3, Simulates DEF CInv
  <1>3. CASE UNCHANGED vars
    <2>1. \A d \in Clients : BuildOK(d)' = BuildOK(d)
      BY <1>3 DEF vars, BuildOK, Building, Kept
    <2>2. UNCHANGED Contract!vars
      BY <1>3 DEF vars, Contract!vars, Idle
    <2> QED  BY <1>1, <2>1, <2>2 DEF CInv
  <1> QED  BY <1>2, <1>3

LEMMA InitContents == Init => CInv /\ Contract!Init
  <1> SUFFICES ASSUME Init
               PROVE  CInv /\ Contract!Init
    OBVIOUS
  <1>1. \A c \in Clients : block[c] = NoBlock /\ call[c] = NoCall
    BY DEF Init
  <1>2. \A c \in Clients : /\ ~Building(c) /\ Idle(c)
                           /\ block[c].size = 0 /\ block[c].len = 0
    BY <1>1 DEF Building, Idle, NoCall, Call, NoBlock, Block
  <1>3. CInv
    BY <1>2, InitInv DEF CInv, BuildOK
  <1>4. \A c \in Clients : 0 .. block[c].len - 1 = {}
    BY <1>2
  <1>5. \A c \in Clients :
            [i \in 0 .. block[c].len - 1 |-> memory[block[c].at + i]] = Contract!Empty
    BY <1>4 DEF Contract!Empty
  <1> QED  BY <1>2, <1>3, <1>5 DEF Contract!Init

\* allocate, grow, shrink and deallocate are to each caller what the trait
\* Allocator says, in every regime, whatever the kernel refuses and whatever
\* other clients do between the steps of a relocation.
THEOREM ContractKept ==
    ASSUME Steady = Sizes
    PROVE  Spec => KeepsContract
  <1>1. CInv /\ [Next]_vars => CInv' /\ [Contract!Next]_(Contract!vars)
    BY ContentsKept
  <1> QED  BY InitContents, <1>1, PTL DEF Spec, KeepsContract, Contract!Spec

-----------------------------------------------------------------------------
(* The global allocator *)

\* Its one handler that differs fails where MAllocPg64::grow goes on to copy.
LEMMA ReallocRemap ==
    ASSUME IInv, NEW c \in Clients, reallocRemap(c)
    PROVE  GrowRemap(c) \/ (call[c].op \in Changing /\ ~Building(c) /\ Fails(c))
  BY DEF reallocRemap, GrowRemap, At, Growing, Changing, Building

LEMMA GlobalStep ==
    ASSUME GlobalNext
    PROVE  \E c \in Clients :
              \/ Request(c) \/ Write(c) \/ Step(c)
              \/ reallocRemap(c)
  <1>1. CASE \E c \in Globals :
                GlobalRequest(c) \/ alloc(c) \/ dealloc(c) \/ realloc_steps(c)
    <2>1. PICK c \in Globals :
              GlobalRequest(c) \/ alloc(c) \/ dealloc(c) \/ realloc_steps(c)
      BY <1>1
    <2>2. c \in Clients
      BY GlobalsAssumption
    <2>3. CASE GlobalRequest(c)
      BY <2>2, <2>3 DEF GlobalRequest
    <2>4. CASE alloc(c) \/ dealloc(c)
      BY <2>2, <2>4 DEF alloc, dealloc, Step
    <2>5. CASE realloc_steps(c)
      BY <2>2, <2>5
         DEF realloc_steps, reallocOnHeap, reallocToMmap, reallocToHeap, reallocWithin,
             reallocFromGiant, reallocTail, Step, Grow, Shrink
    <2> QED
      BY <2>1, <2>3, <2>4, <2>5
  <1>2. CASE \E c \in Clients \ Globals : Request(c) \/ Step(c)
    BY <1>2
  <1>3. CASE \E c \in Clients : Write(c)
    BY <1>3
  <1> QED
    BY <1>1, <1>2, <1>3 DEF GlobalNext

LEMMA GlobalInv ==
    ASSUME Steady = Sizes, IInv, [GlobalNext]_vars
    PROVE  IInv'
  <1>1. CASE GlobalNext
    <2>1. PICK c \in Clients : Request(c) \/ Write(c) \/ Step(c) \/ reallocRemap(c)
      BY <1>1, GlobalStep
    <2>2. CASE Next
      BY <2>2, NextInv
    <2>3. CASE ~Building(c) /\ Fails(c)
      BY <2>3, Failed
    <2> QED
      BY <2>1, <2>2, <2>3, ReallocRemap DEF Next, Step, Grow
  <1>2. CASE UNCHANGED vars
    BY <1>2, NextInv
  <1> QED
    BY <1>1, <1>2

LEMMA GlobalContents ==
    ASSUME Steady = Sizes, CInv, [GlobalNext]_vars
    PROVE  CInv' /\ [Contract!Next]_(Contract!vars)
  <1>1. IInv'
    BY GlobalInv DEF CInv
  <1>2. CASE GlobalNext
    <2>1. PICK c \in Clients : Request(c) \/ Write(c) \/ Step(c) \/ reallocRemap(c)
      BY <1>2, GlobalStep
    <2>2. CASE Next
      BY <2>2, ContentsKept
    <2>3. CASE call[c].op \in Changing /\ Fails(c)
      <3>1. Serves(c)
        BY <2>3, FailServes
      <3>2. \A d \in Clients : BuildOK(d)'
        BY <1>1, <3>1, OthersKeep DEF Serves
      <3> QED  BY <1>1, <3>1, <3>2, Simulates DEF CInv
    <2> QED
      BY <2>1, <2>2, <2>3, ReallocRemap DEF CInv, Next, Step, Grow
  <1>3. CASE UNCHANGED vars
    BY <1>3, ContentsKept
  <1> QED
    BY <1>2, <1>3

\* In a process whose collections are on the global allocator and whose Vec64
\* are on MAllocPg64, the two leak nothing of each other's either, and neither
\* unmaps or hands out what the other owns.
THEOREM GlobalOwnership ==
    ASSUME Steady = Sizes
    PROVE  GlobalSpec => []EverythingOwnedOnce
  <1>1. IInv /\ [GlobalNext]_vars => IInv'
    BY GlobalInv
  <1>2. IInv => EverythingOwnedOnce
    BY OwnedOnce
  <1> QED
    BY InitInv, <1>1, <1>2, PTL DEF GlobalSpec

\* Nor do they give a gigantic page back in part: every munmap (deallocate, shrink,
\* and the tail that shrink cuts off) is of whole ones.
THEOREM GlobalGigantic ==
    ASSUME Steady = Sizes
    PROVE  GlobalSpec => []GiganticPagesWhole
  <1>1. IInv /\ [GlobalNext]_vars => IInv'
    BY GlobalInv
  <1> QED
    BY InitInv, <1>1, TearsNone, PTL DEF GlobalSpec

\* To its caller, each of the two allocators behaves as if it were alone and
\* had neither addresses nor a kernel that refuses.
THEOREM GlobalContract ==
    ASSUME Steady = Sizes
    PROVE  GlobalSpec => KeepsContract
  <1>1. CInv /\ [GlobalNext]_vars => CInv' /\ [Contract!Next]_(Contract!vars)
    BY GlobalContents
  <1> QED
    BY InitContents, <1>1, PTL DEF GlobalSpec, KeepsContract, Contract!Spec

=============================================================================
