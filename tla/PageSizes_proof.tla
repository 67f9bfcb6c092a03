--------------------------- MODULE PageSizes_proof ---------------------------
(***************************************************************************)
(* Theorems about the size arithmetic of mmap_alloc.rs, for any page sizes *)
(* of which the gigantic one is a multiple of the huge one.                *)
(***************************************************************************)
EXTENDS PageSizes, TLAPS

-----------------------------------------------------------------------------
(* Division by a positive number *)

\* The quotient is the number of whole pages in n.
LEMMA DivBounds ==
    ASSUME NEW n \in Nat, NEW p \in Nat \ {0}
    PROVE  /\ n \div p \in Nat
           /\ (n \div p) * p <= n
           /\ n < (n \div p) * p + p
  BY SMT

\* A multiple of p less than p above another is at most that other.
LEMMA NoMultipleBetween ==
    ASSUME NEW j \in Int, NEW k \in Int, NEW p \in Nat \ {0},
           j * p < k * p + p
    PROVE  j <= k
  BY SMT

\* Multiples of p are ordered as their factors.
LEMMA MultiplesOrdered ==
    ASSUME NEW j \in Int, NEW k \in Int, NEW p \in Nat \ {0}, j <= k
    PROVE  j * p <= k * p
  BY SMT

\* A number without remainder is a multiple.
LEMMA MultipleIfNoRemainder ==
    ASSUME NEW n \in Nat, NEW p \in Nat \ {0}, n % p = 0
    PROVE  n = (n \div p) * p
  BY SMT

-----------------------------------------------------------------------------
(* Rounding *)

\* Rounding up adds less than one page and gives a whole number of pages.
LEMMA RoundUpBounds ==
    ASSUME NEW n \in Nat, NEW p \in Nat \ {0}
    PROVE  /\ RoundUp(n, p) \in Nat
           /\ RoundUp(n, p) >= n
           /\ RoundUp(n, p) < n + p
           /\ \E k \in Nat : RoundUp(n, p) = k * p
  <1>1. n + p - 1 \in Nat
    BY SMT
  <1>2. /\ (n + p - 1) \div p \in Nat
        /\ ((n + p - 1) \div p) * p <= n + p - 1
        /\ n + p - 1 < ((n + p - 1) \div p) * p + p
    BY <1>1, DivBounds
  <1>3. /\ RoundUp(n, p) \in Nat /\ RoundUp(n, p) >= n /\ RoundUp(n, p) < n + p
    BY <1>2, SMT DEF RoundUp
  <1> QED
    BY <1>2, <1>3 DEF RoundUp

\* It gives the least such number.
LEMMA RoundUpLeast ==
    ASSUME NEW n \in Nat, NEW p \in Nat \ {0}, NEW k \in Nat, n <= k * p
    PROVE  RoundUp(n, p) <= k * p
  <1>1. n + p - 1 \in Nat
    BY SMT
  <1>2. /\ (n + p - 1) \div p \in Nat
        /\ ((n + p - 1) \div p) * p <= n + p - 1
    BY <1>1, DivBounds
  <1>3. ((n + p - 1) \div p) * p < k * p + p
    BY <1>2, SMT
  <1>4. (n + p - 1) \div p <= k
    BY <1>2, <1>3, NoMultipleBetween
  <1> QED
    BY <1>2, <1>4, MultiplesOrdered DEF RoundUp

\* Every number from n to its rounding rounds to the same.
LEMMA RoundUpStable ==
    ASSUME NEW n \in Nat, NEW p \in Nat \ {0},
           NEW m \in Nat, n <= m, m <= RoundUp(n, p)
    PROVE  RoundUp(m, p) = RoundUp(n, p)
  <1>1. PICK k \in Nat : RoundUp(n, p) = k * p
    BY RoundUpBounds
  <1>2. PICK j \in Nat : RoundUp(m, p) = j * p
    BY RoundUpBounds
  <1>3. RoundUp(m, p) <= RoundUp(n, p)
    BY <1>1, RoundUpLeast
  <1>4. n <= j * p
    BY <1>2, RoundUpBounds, SMT
  <1>5. RoundUp(n, p) <= RoundUp(m, p)
    BY <1>2, <1>4, RoundUpLeast
  <1>6. RoundUp(n, p) \in Nat /\ RoundUp(m, p) \in Nat
    BY RoundUpBounds
  <1> QED
    BY <1>3, <1>5, <1>6, SMT

-----------------------------------------------------------------------------
(* Mappings *)

\* 1 GB is a whole number of huge pages.
LEMMA GiganticIsMultiple == \E k \in Nat : GiganticPage = k * HugePage
  <1>1. GiganticPage = (GiganticPage \div HugePage) * HugePage
    BY HugePageAssumption, GiganticPageAssumption, MultipleIfNoRemainder
  <1>2. GiganticPage \div HugePage \in Nat
    BY HugePageAssumption, GiganticPageAssumption, DivBounds
  <1> QED
    BY <1>1, <1>2

\* A mapping holds its block: the length that mapped_size (81-94) gives is at
\* least the size asked for and at least one page.
THEOREM MappingHoldsBlock ==
    ASSUME NEW size \in Nat
    PROVE  /\ mapped_size(size) \in Nat
           /\ mapped_size(size) >= size
           /\ mapped_size(size) >= HugePage
  <1>1. CASE uses_giant_pages(size)
    <2>1. size >= GiganticPage
      BY <1>1 DEF uses_giant_pages
    <2>2. PICK k \in Nat : GiganticPage = k * HugePage
      BY GiganticIsMultiple
    <2>3. k >= 1
      BY <2>2, HugePageAssumption, GiganticPageAssumption, SMT
    <2>4. GiganticPage >= HugePage
      BY <2>2, <2>3, HugePageAssumption, SMT
    <2>5. RoundUp(size, GiganticPage) \in Nat /\ RoundUp(size, GiganticPage) >= size
      BY GiganticPageAssumption, RoundUpBounds
    <2> QED
      BY <1>1, <2>1, <2>4, <2>5, HugePageAssumption, GiganticPageAssumption, SMT
      DEF mapped_size
  <1>2. CASE ~uses_giant_pages(size) /\ size = 0
    BY <1>2, HugePageAssumption, SMT DEF mapped_size
  <1>3. CASE ~uses_giant_pages(size) /\ size # 0
    <2>1. PICK k \in Nat : RoundUp(size, HugePage) = k * HugePage
      BY HugePageAssumption, RoundUpBounds
    <2>2. RoundUp(size, HugePage) \in Nat /\ RoundUp(size, HugePage) >= size
      BY HugePageAssumption, RoundUpBounds
    <2>3. k >= 1
      BY <1>3, <2>1, <2>2, HugePageAssumption, SMT
    <2>4. RoundUp(size, HugePage) >= HugePage
      BY <2>1, <2>3, HugePageAssumption, SMT
    <2> QED
      BY <1>3, <2>2, <2>4 DEF mapped_size
  <1> QED
    BY <1>1, <1>2, <1>3

\* The allocator may recompute how far a mapping extends from any size between
\* the one asked for and the length returned, whichever of them a caller names
\* in a layout: deallocate (242), grow (264-286) and shrink (378-381) get the
\* length that allocate mapped, also where the sizes lie on either side of 1 GB.
THEOREM ExtentIsStable ==
    ASSUME NEW size \in Nat, uses_mmap(size),
           NEW fit \in Nat, size <= fit, fit <= mapped_size(size)
    PROVE  uses_mmap(fit) /\ mapped_size(fit) = mapped_size(size)
  <1>1. uses_mmap(fit)
    BY HugePageAssumption, SMT DEF uses_mmap
  <1>2. size # 0 /\ fit # 0
    BY HugePageAssumption, SMT DEF uses_mmap
  <1>3. CASE uses_giant_pages(size)
    <2>1. uses_giant_pages(fit)
      BY <1>3, GiganticPageAssumption, SMT DEF uses_giant_pages
    <2>2. fit <= RoundUp(size, GiganticPage)
      BY <1>3 DEF mapped_size
    <2>3. RoundUp(fit, GiganticPage) = RoundUp(size, GiganticPage)
      BY <2>2, GiganticPageAssumption, RoundUpStable
    <2> QED
      BY <1>1, <1>3, <2>1, <2>3 DEF mapped_size
  <1>4. CASE ~uses_giant_pages(size) /\ ~uses_giant_pages(fit)
    <2>1. fit <= RoundUp(size, HugePage)
      BY <1>2, <1>4 DEF mapped_size
    <2>2. RoundUp(fit, HugePage) = RoundUp(size, HugePage)
      BY <2>1, HugePageAssumption, RoundUpStable
    <2> QED
      BY <1>1, <1>2, <1>4, <2>2 DEF mapped_size
  <1>5. CASE ~uses_giant_pages(size) /\ uses_giant_pages(fit)
    \* The size is below 1 GB and rounds up to it: fit is 1 GB.
    <2>1. size < GiganticPage /\ GiganticPage <= fit
      BY <1>5, GiganticPageAssumption, SMT DEF uses_giant_pages
    <2>2. mapped_size(size) = RoundUp(size, HugePage)
      BY <1>2, <1>5 DEF mapped_size
    <2>3. PICK k \in Nat : GiganticPage = k * HugePage
      BY GiganticIsMultiple
    <2>4. size <= k * HugePage
      BY <2>1, <2>3, GiganticPageAssumption, SMT
    <2>5. RoundUp(size, HugePage) <= GiganticPage
      BY <2>3, <2>4, HugePageAssumption, RoundUpLeast
    <2>6. fit = GiganticPage /\ mapped_size(size) = GiganticPage
      <3>1. RoundUp(size, HugePage) \in Nat
        BY HugePageAssumption, RoundUpBounds
      <3>2. fit <= RoundUp(size, HugePage)
        BY <2>2
      <3> QED
        BY <2>1, <2>2, <2>5, <3>1, <3>2, GiganticPageAssumption, SMT
    <2>7. GiganticPage <= 1 * GiganticPage
      BY GiganticPageAssumption, SMT
    <2>8. RoundUp(GiganticPage, GiganticPage) <= 1 * GiganticPage
      BY <2>7, GiganticPageAssumption, RoundUpLeast
    <2>9. RoundUp(GiganticPage, GiganticPage) >= GiganticPage
      BY GiganticPageAssumption, RoundUpBounds
    <2>10. RoundUp(GiganticPage, GiganticPage) \in Nat
      BY GiganticPageAssumption, RoundUpBounds
    <2>11. RoundUp(GiganticPage, GiganticPage) = GiganticPage
      BY <2>8, <2>9, <2>10, GiganticPageAssumption, SMT
    <2> QED
      BY <1>1, <1>5, <2>6, <2>11 DEF mapped_size
  <1> QED
    BY <1>3, <1>4, <1>5

\* A block that shrinks keeps a part of its mapping, and one that grows needs
\* at least as much: the tail that shrink unmaps (399-407) is never negative.
THEOREM MappedSizeMonotone ==
    ASSUME NEW small \in Nat, NEW large \in Nat, small <= large
    PROVE  mapped_size(small) <= mapped_size(large)
  <1>1. CASE large <= mapped_size(small) /\ uses_mmap(small)
    <2>1. mapped_size(large) = mapped_size(small)
      BY <1>1, ExtentIsStable
    <2> QED
      BY <2>1, MappingHoldsBlock, SMT
  <1>2. CASE large > mapped_size(small)
    BY <1>2, MappingHoldsBlock, SMT
  <1>3. CASE ~uses_mmap(small)
    <2>1. small <= 1 * HugePage
      BY <1>3, HugePageAssumption, SMT DEF uses_mmap
    <2>2. RoundUp(small, HugePage) <= 1 * HugePage
      BY <2>1, HugePageAssumption, RoundUpLeast
    <2>3. PICK k \in Nat : GiganticPage = k * HugePage
      BY GiganticIsMultiple
    <2>4. k >= 1
      BY <2>3, HugePageAssumption, GiganticPageAssumption, SMT
    <2>5. HugePage <= GiganticPage
      BY <2>3, <2>4, HugePageAssumption, SMT
    <2>6. ~uses_giant_pages(small)
      BY <1>3, <2>5, HugePageAssumption, GiganticPageAssumption, SMT
      DEF uses_mmap, uses_giant_pages
    <2>7. mapped_size(small) <= HugePage
      BY <2>2, <2>6, HugePageAssumption, RoundUpBounds, SMT DEF mapped_size
    <2> QED
      BY <2>7, HugePageAssumption, MappingHoldsBlock, SMT
  <1>4. mapped_size(small) \in Nat /\ mapped_size(large) \in Nat
    BY MappingHoldsBlock
  <1> QED
    BY <1>1, <1>2, <1>3, <1>4, SMT

=============================================================================
