-------------------------- MODULE Vec64Buffer_proof --------------------------
(***************************************************************************)
(* Elements and their bytes, for any page and element sizes.               *)
(*                                                                         *)
(* Pages cut elements apart, so what Vec64 does to a buffer is argued by   *)
(* bytes: Spelled says which bytes of a sequence of elements lie where,    *)
(* and a sequence whose bytes all lie somewhere is what is read there.     *)
(***************************************************************************)
EXTENDS Vec64Buffer, PageSizes_proof, SequenceTheorems

\* What the addresses are that no buffer owns: free, or lost to a
\* refused munmap.
Unowned == {"none", "lost"}

\* What is read at a in the memory mem: ElementAt(a, e) for mem = memory.
ElementIn(mem, a, e) ==
    IF \E t \in Tokens : \A k \in 0 .. e - 1 : mem[a + k] = <<t, k>>
    THEN CHOOSE t \in Tokens : \A k \in 0 .. e - 1 : mem[a + k] = <<t, k>> ELSE Torn

\* Byte o of a sequence of elements of e bytes.
ByteOf(s, e, o) == <<s[o \div e + 1], o % e>>

\* The bytes lo .. hi-1 of s lie in mem, the first of all at a.
Spelled(mem, a, e, s, lo, hi) == \A o \in lo .. hi - 1 : mem[a + o] = ByteOf(s, e, o)

\* Byte k of element i is byte i * e + k.
LEMMA ByteOfElement ==
    ASSUME NEW i \in Nat, NEW e \in Nat \ {0}, NEW k \in 0 .. e - 1
    PROVE  (i * e + k) \div e = i /\ (i * e + k) % e = k
  <1> DEFINE q == (i * e + k) \div e
  <1>1. i * e + k \in Nat
    BY SMT
  <1>2. q \in Nat /\ q * e <= i * e + k /\ i * e + k < q * e + e
    BY <1>1, DivBounds
  <1>3. q <= i
    <2>1. q * e < i * e + e
      BY <1>2
    <2>. HIDE DEF q
    <2>. QED  BY <1>2, <2>1, NoMultipleBetween
  <1>4. i <= q
    <2>1. i * e < q * e + e
      BY <1>2
    <2>. HIDE DEF q
    <2>. QED  BY <1>2, <2>1, NoMultipleBetween
  <1>5. q = i
    BY <1>2, <1>3, <1>4
  <1> DEFINE m == i * e + k
  <1>6. m = (m \div e) * e + (m % e)
    <2>1. m \in Nat
      BY <1>1
    <2>. HIDE DEF m
    <2>. QED  BY <2>1
  <1>7. m % e \in Int
    BY <1>1
  <1>8. m % e = k
    <2>1. m \div e = i /\ m = i * e + k
      BY <1>5
    <2>2. i * e \in Int
      OBVIOUS
    <2>. HIDE DEF m
    <2>. QED  BY <1>6, <1>7, <2>1, <2>2
  <1>. QED  BY <1>5, <1>8

\* Every byte of n elements belongs to one of them.
LEMMA ElementOfByte ==
    ASSUME NEW n \in Nat, NEW e \in Nat \ {0}, NEW o \in 0 .. n * e - 1
    PROVE  /\ o \div e \in 0 .. n - 1 /\ o % e \in 0 .. e - 1
           /\ o = (o \div e) * e + (o % e)
  <1> DEFINE q == o \div e
  <1>1. o \in Nat /\ n * e \in Nat /\ o < n * e
    BY SMT
  <1>2. q \in Nat /\ q * e <= o
    BY <1>1, DivBounds
  <1>3. o % e \in 0 .. e - 1 /\ o = q * e + (o % e)
    BY <1>1
  <1>4. q + 1 <= n
    <2>1. (q + 1) * e < n * e + e
      BY <1>1, <1>2
    <2>. HIDE DEF q
    <2>. QED  BY <1>2, <2>1, NoMultipleBetween
  <1>. QED  BY <1>2, <1>3, <1>4

LEMMA ElementWhole ==
    ASSUME NEW mem, NEW a \in Int, NEW e \in Nat \ {0}, NEW t \in Tokens
    PROVE  ElementIn(mem, a, e) = t <=> \A k \in 0 .. e - 1 : mem[a + k] = <<t, k>>
  <1> DEFINE R(u) == \A k \in 0 .. e - 1 : mem[a + k] = <<u, k>>
  <1>1. ASSUME NEW u \in Tokens, NEW v \in Tokens, R(u), R(v)
        PROVE  u = v
    <2>1. 0 \in 0 .. e - 1
      OBVIOUS
    <2>2. <<u, 0>> = <<v, 0>>
      BY <1>1, <2>1
    <2>. QED  BY <2>2
  <1>2. ElementIn(mem, a, e) = IF \E u \in Tokens : R(u) THEN CHOOSE u \in Tokens : R(u) ELSE Torn
    BY DEF ElementIn
  <1>. HIDE DEF R
  <1>3. ASSUME R(t)
        PROVE  ElementIn(mem, a, e) = t
    <2>1. PICK w \in Tokens : w = CHOOSE u \in Tokens : R(u)
      BY <1>3
    <2>2. R(w)
      BY <1>3, <2>1
    <2>. QED  BY <1>1, <1>2, <1>3, <2>1, <2>2
  <1>4. ASSUME ElementIn(mem, a, e) = t
        PROVE  R(t)
    BY <1>2, <1>4, TornAssumption
  <1>5. ElementIn(mem, a, e) = t <=> R(t)
    BY <1>3, <1>4
  <1>. QED  BY <1>5 DEF R

\* The first n elements at a are those of s.
Reads(mem, a, e, s, n) == \A i \in 0 .. n - 1 : ElementIn(mem, a + i * e, e) = s[i + 1]

\* The bytes say which elements there are ...
LEMMA SpelledElements ==
    ASSUME NEW mem, NEW a \in Int, NEW e \in Nat \ {0}, NEW s \in Seq(Tokens),
           NEW n \in 0 .. Len(s), Spelled(mem, a, e, s, 0, n * e)
    PROVE  Reads(mem, a, e, s, n)
  <1> SUFFICES ASSUME NEW i \in 0 .. n - 1
               PROVE  ElementIn(mem, a + i * e, e) = s[i + 1]
    BY DEF Reads
  <1>1. s[i + 1] \in Tokens /\ i * e \in Int /\ i \in Nat /\ a + i * e \in Int
    BY SMT
  <1>2. ASSUME NEW k \in 0 .. e - 1
        PROVE  mem[a + i * e + k] = <<s[i + 1], k>>
    <2>1. (i * e + k) \div e = i /\ (i * e + k) % e = k
      BY <1>1, ByteOfElement
    <2>2. i * e + k \in 0 .. n * e - 1
      <3>1. (i + 1) * e <= n * e
        BY <1>1, MultiplesOrdered
      <3>2. (i + 1) * e = i * e + e /\ n * e \in Int /\ i * e >= 0
        BY <1>1
      <3>. QED  BY <1>1, <3>1, <3>2
    <2>3. a + i * e + k = a + (i * e + k)
      BY <1>1
    <2>. QED  BY <2>1, <2>2, <2>3 DEF Spelled, ByteOf
  <1> DEFINE p == a + i * e
             t == s[i + 1]
  <1>3. p \in Int /\ t \in Tokens /\ \A k \in 0 .. e - 1 : mem[p + k] = <<t, k>>
    BY <1>1, <1>2
  <1>. HIDE DEF p, t
  <1>4. ElementIn(mem, p, e) = t
    BY <1>3, ElementWhole
  <1>. QED  BY <1>4 DEF p, t

\* ... and the elements which bytes.
LEMMA ElementsSpelled ==
    ASSUME NEW mem, NEW a \in Int, NEW e \in Nat \ {0}, NEW s \in Seq(Tokens),
           NEW n \in 0 .. Len(s), Reads(mem, a, e, s, n)
    PROVE  Spelled(mem, a, e, s, 0, n * e)
  <1> SUFFICES ASSUME NEW o \in 0 .. n * e - 1
               PROVE  mem[a + o] = <<s[o \div e + 1], o % e>>
    BY DEF Spelled, ByteOf
  <1> DEFINE i == o \div e
             k == o % e
  <1>1. i \in 0 .. n - 1 /\ k \in 0 .. e - 1 /\ o = i * e + k
    <2>1. n \in Nat
      OBVIOUS
    <2>. QED  BY <2>1, ElementOfByte
  <1>. HIDE DEF i, k
  <1>2. i * e \in Int /\ a + i * e \in Int
    BY <1>1
  <1>3. mem[a + i * e + k] = <<s[i + 1], k>>
    <2>1. s[i + 1] \in Tokens /\ ElementIn(mem, a + i * e, e) = s[i + 1]
      BY <1>1 DEF Reads
    <2>2. \A m \in 0 .. e - 1 : mem[a + i * e + m] = <<s[i + 1], m>>
      BY <1>2, <2>1, ElementWhole
    <2>. QED  BY <1>1, <2>2
  <1>4. a + i * e + k = a + o
    BY <1>1, <1>2
  <1>. QED  BY <1>3, <1>4 DEF i, k

-----------------------------------------------------------------------------
(* What Stored does to the bytes *)

\* The elements of s go to the place of element lo; other bytes stay.
Stores(mem, a, e, lo, s, new) ==
    /\ \A x \in Addresses : x \notin Extent(a + lo * e, Len(s) * e) => new[x] = mem[x]
    /\ \A o \in lo * e .. (lo + Len(s)) * e - 1 : a + o \in Addresses =>
          new[a + o] = ByteOf(s, e, o - lo * e)

LEMMA StoredContents ==
    ASSUME NEW C, Tokens \X Nat \subseteq C, NEW mem \in [Addresses -> C], NEW b, b.at \in Int, b.elem \in Nat \ {0},
           NEW lo \in Nat, NEW s \in Seq(Tokens)
    PROVE  /\ Stored(mem, b, lo, s) \in [Addresses -> C]
           /\ Stores(mem, b.at, b.elem, lo, s, Stored(mem, b, lo, s))
  <1> DEFINE e == b.elem
             a == b.at + lo * e
             n == Len(s)
             new(x) == <<s[(x - a) \div e + 1], (x - a) % e>>
  <1>1. lo * e \in Nat /\ n * e \in Nat /\ a \in Int /\ n \in Nat /\ e \in Nat \ {0}
    BY SMT
  <1>2. Stored(mem, b, lo, s) =
           [x \in Addresses |-> IF x \in Extent(a, n * e) THEN new(x) ELSE mem[x]]
    BY DEF Stored, ElementAddress
  <1>. HIDE DEF a, n, e
  <1>3. ASSUME NEW x \in Extent(a, n * e)
        PROVE  new(x) \in C
    <2>1. x - a \in 0 .. n * e - 1
      BY <1>1 DEF Extent
    <2>2. (x - a) \div e \in 0 .. n - 1 /\ (x - a) % e \in 0 .. e - 1
      BY <1>1, <2>1, ElementOfByte
    <2>3. (x - a) \div e + 1 \in 1 .. Len(s) /\ (x - a) % e \in Nat
      BY <1>1, <2>2 DEF n
    <2>4. s[(x - a) \div e + 1] \in Tokens
      BY <2>3
    <2>. QED  BY <2>3, <2>4
  <1>. HIDE DEF new
  <1>4. Stored(mem, b, lo, s) \in [Addresses -> C]
    BY <1>2, <1>3
  <1>5. ASSUME NEW o \in lo * e .. (lo + n) * e - 1, b.at + o \in Addresses
        PROVE  Stored(mem, b, lo, s)[b.at + o] = ByteOf(s, e, o - lo * e)
    <2>1. (lo + n) * e = lo * e + n * e
      BY <1>1, SMT
    <2>2. b.at + o \in Extent(a, n * e) /\ (b.at + o) - a = o - lo * e
      BY <1>1, <2>1 DEF Extent, a
    <2>3. new(b.at + o) = ByteOf(s, e, o - lo * e)
      BY <2>2 DEF new, ByteOf
    <2>. QED  BY <1>2, <1>5, <2>2, <2>3
  <1>. QED  BY <1>2, <1>4, <1>5 DEF Stores, a, n, e

-----------------------------------------------------------------------------
(* What the model reads *)

\* The elements that the model reads are those in memory as it is.
LEMMA ElementsIn ==
    \A b, lo, hi : Elements(b, lo, hi) =
        [i \in 1 .. hi - lo |-> ElementIn(memory, b.at + (lo + i - 1) * b.elem, b.elem)]
  BY DEF Elements, ElementAt, ElementAddress, ReadsAs, ElementIn

LEMMA BlockHolds ==
    ASSUME NEW n \in Nat
    PROVE  BlockSize(n) \in Nat /\ n <= BlockSize(n)
  BY MappingHoldsBlock DEF BlockSize

=============================================================================
