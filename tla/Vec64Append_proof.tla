------------------------- MODULE Vec64Append_proof -------------------------
(***************************************************************************)
(* extend_from_vec64 and from_chunks, for any page and element size and    *)
(* any number of vectors: every mapped byte belongs to one vector, and the *)
(* whole is concatenation of sequences.                                    *)
(*                                                                         *)
(* With giant_pages ConsumedEntirely is violated: the bytes of the         *)
(* elements move, and a remainder stays behind that was rounded up to a    *)
(* gigantic page.  No vector that is left loses a byte by that             *)
(* (BuffersApart), and the elements are still those of the concatenation.  *)
(*                                                                         *)
(* The argument is local.  A step touches at most two vectors and leaves   *)
(* the memory of the others alone (Exchanges), since extents are disjoint; *)
(* what it does to the two is a matter of bytes (Vec64Buffer_proof).       *)
(***************************************************************************)
EXTENDS Vec64Append, Vec64Buffer_proof, FiniteSetTheorems

-----------------------------------------------------------------------------
(* Elements and their bytes *)

\* What is read of the buffer b with n elements in the memory mem.
Content(mem, b, n) == [i \in 1 .. n |-> ElementIn(mem, b.at + (i - 1) * b.elem, b.elem)]

\* Elements with the same bytes are the same.
LEMMA SameContent ==
    ASSUME NEW mem, NEW new, NEW b, b.at \in Int, b.elem \in Nat \ {0}, NEW n \in Nat,
           \A x \in Extent(b.at, n * b.elem) : new[x] = mem[x]
    PROVE  Content(new, b, n) = Content(mem, b, n)
  <1> DEFINE e == b.elem
  <1>1. ASSUME NEW i \in 1 .. n
        PROVE  ElementIn(new, b.at + (i - 1) * e, e) = ElementIn(mem, b.at + (i - 1) * e, e)
    <2> DEFINE a == b.at + (i - 1) * e
    <2>1. ASSUME NEW k \in 0 .. e - 1
          PROVE  new[a + k] = mem[a + k]
      <3>1. (i - 1) * e \in Nat /\ n * e \in Nat /\ (i - 1) * e + e <= n * e
        <4>1. ((i - 1) + 1) * e <= n * e
          BY MultiplesOrdered
        <4>2. ((i - 1) + 1) * e = (i - 1) * e + e
          BY SMT
        <4>3. (i - 1) * e \in Nat /\ n * e \in Nat
          BY SMT
        <4>. QED  BY <4>1, <4>2, <4>3
      <3>2. a + k \in Extent(b.at, n * e)
        BY <3>1 DEF Extent
      <3>. QED  BY <3>2
    <2>. HIDE DEF a, e
    <2>. QED  BY <2>1 DEF ElementIn, a
  <1>. QED  BY <1>1 DEF Content

\* Whole elements are their bytes ...
LEMMA ContentSpelled ==
    ASSUME NEW mem, NEW b, b.at \in Int, b.elem \in Nat \ {0}, NEW n \in Nat,
           Content(mem, b, n) \in Seq(Tokens)
    PROVE  /\ Len(Content(mem, b, n)) = n
           /\ Spelled(mem, b.at, b.elem, Content(mem, b, n), 0, n * b.elem)
  <1> DEFINE s == Content(mem, b, n)
  <1>1. Len(s) = n /\ \A i \in 1 .. n : s[i] = ElementIn(mem, b.at + (i - 1) * b.elem, b.elem)
    BY DEF Content
  <1>2. Reads(mem, b.at, b.elem, s, n)
    <2> SUFFICES ASSUME NEW i \in 0 .. n - 1
                 PROVE  ElementIn(mem, b.at + i * b.elem, b.elem) = s[i + 1]
      BY DEF Reads
    <2>1. i + 1 \in 1 .. n /\ (i + 1) - 1 = i
      OBVIOUS
    <2>. HIDE DEF s
    <2>. QED  BY <1>1, <2>1
  <1>. HIDE DEF s
  <1>3. s \in Seq(Tokens) /\ n \in 0 .. Len(s)
    BY <1>1 DEF s
  <1>4. Spelled(mem, b.at, b.elem, s, 0, n * b.elem)
    BY <1>2, <1>3, ElementsSpelled
  <1>. QED  BY <1>1, <1>4 DEF s

\* ... and the other way round.
LEMMA SpelledContent ==
    ASSUME NEW mem, NEW b, b.at \in Int, b.elem \in Nat \ {0}, NEW s \in Seq(Tokens),
           Spelled(mem, b.at, b.elem, s, 0, Len(s) * b.elem)
    PROVE  Content(mem, b, Len(s)) = s
  <1>1. Len(s) \in 0 .. Len(s) /\ Len(s) \in Nat
    OBVIOUS
  <1>2. Reads(mem, b.at, b.elem, s, Len(s))
    BY <1>1, SpelledElements
  <1>3. ASSUME NEW i \in 1 .. Len(s)
        PROVE  ElementIn(mem, b.at + (i - 1) * b.elem, b.elem) = s[i]
    <2>1. i - 1 \in 0 .. Len(s) - 1 /\ (i - 1) + 1 = i
      BY <1>1
    <2>. QED  BY <1>2, <2>1 DEF Reads
  <1>. QED  BY <1>3 DEF Content

\* A byte behind l elements is the byte that it is among those that follow.
LEMMA ByteBehind ==
    ASSUME NEW e \in Nat \ {0}, NEW l \in Nat, NEW p \in Nat
    PROVE  (l * e + p) \div e = l + p \div e /\ (l * e + p) % e = p % e
  <1> DEFINE q == p \div e
             k == p % e
             j == l + q
  <1>1. q \in Nat /\ k \in 0 .. e - 1 /\ p = q * e + k
    BY SMT
  <1>. HIDE DEF q, k
  <1>2. j \in Nat /\ l * e + p = j * e + k
    BY <1>1, SMT
  <1>. HIDE DEF j
  <1>3. (l * e + p) \div e = j /\ (l * e + p) % e = k
    BY <1>1, <1>2, ByteOfElement
  <1>. QED  BY <1>3 DEF j, q, k

\* The bytes of t behind those of s are the bytes of both.
LEMMA ConcatSpelled ==
    ASSUME NEW mem, NEW a \in Int, NEW e \in Nat \ {0}, NEW s \in Seq(Tokens), NEW t \in Seq(Tokens),
           Spelled(mem, a, e, s, 0, Len(s) * e),
           \A o \in 0 .. Len(t) * e - 1 : mem[a + Len(s) * e + o] = ByteOf(t, e, o)
    PROVE  Spelled(mem, a, e, s \o t, 0, Len(s \o t) * e)
  <1> DEFINE u == s \o t
             m == Len(s) * e
             n == Len(t) * e
             all == Len(u) * e
  <1>1. /\ u \in Seq(Tokens) /\ Len(u) = Len(s) + Len(t)
        /\ Len(s) \in Nat /\ Len(t) \in Nat
        /\ \A i \in 1 .. Len(s) : u[i] = s[i]
        /\ \A i \in 1 .. Len(t) : u[Len(s) + i] = t[i]
    OBVIOUS
  <1>. HIDE DEF u
  <1>2. m \in Nat /\ n \in Nat /\ all = m + n
    BY <1>1, SMT
  <1>3. /\ \A o \in 0 .. m - 1 : mem[a + o] = ByteOf(s, e, o) /\ o \div e \in 0 .. Len(s) - 1
        /\ \A o \in 0 .. n - 1 : mem[a + m + o] = ByteOf(t, e, o) /\ o \div e \in 0 .. Len(t) - 1
    BY <1>1, ElementOfByte DEF Spelled
  <1>4. \A p \in Nat : (m + p) \div e = Len(s) + p \div e /\ (m + p) % e = p % e
    BY <1>1, ByteBehind
  <1>. HIDE DEF m, n, all
  <1>5. ASSUME NEW o \in 0 .. all - 1
        PROVE  mem[a + o] = ByteOf(u, e, o)
    <2>1. CASE o < m
      <3>1. o \in 0 .. m - 1
        BY <1>2, <2>1
      <3> DEFINE q == o \div e
      <3>2. q \in 0 .. Len(s) - 1 /\ mem[a + o] = ByteOf(s, e, o)
        BY <1>3, <3>1
      <3>. HIDE DEF q
      <3>3. q + 1 \in 1 .. Len(s)
        BY <1>1, <3>2
      <3>4. u[q + 1] = s[q + 1]
        BY <1>1, <3>3
      <3>. QED  BY <3>2, <3>4 DEF ByteOf, q
    <2>2. CASE o >= m
      <3> DEFINE p == o - m
                 q == p \div e
      <3>1. p \in 0 .. n - 1 /\ p \in Nat /\ m + p = o /\ a + m + p = a + o
        BY <1>2, <2>2
      <3>. HIDE DEF p
      <3>2. q \in 0 .. Len(t) - 1 /\ mem[a + o] = ByteOf(t, e, p)
        BY <1>3, <3>1
      <3>3. o \div e = Len(s) + q /\ o % e = p % e
        BY <1>4, <3>1
      <3>. HIDE DEF q
      <3>4. q + 1 \in 1 .. Len(t) /\ o \div e + 1 = Len(s) + (q + 1)
        BY <1>1, <3>2, <3>3
      <3>5. u[o \div e + 1] = t[q + 1]
        BY <1>1, <3>4
      <3>. QED  BY <3>2, <3>3, <3>5 DEF ByteOf, q
    <2>. QED  BY <1>2, <2>1, <2>2
  <1>. QED  BY <1>5 DEF Spelled, u, all

-----------------------------------------------------------------------------
(* The invariant *)

\* The addresses and the elements of vector v.
Ext(v) == IF v \in Owned THEN Extents(buf[v]) ELSE {}

Held(v) == Content(memory, buf[v], len[v])

\* The block of v consists of the kind of memory that its size demands.
InKind(v) == Covers(buf[v].at, BlockSize(CapBytes(buf[v])), KindOf(CapBytes(buf[v])))

\* The elements of a vector in scope or taken apart are whole; its block is of
\* the kind that its size demands, except that with giant_pages a block that has
\* grown need not be.
VecOK(v) ==
    v \in Owned =>
        /\ len[v] <= buf[v].cap
        /\ ~GiantPages => InKind(v)
        /\ Held(v) \in Seq(Tokens)

\* A vector is taken apart only while its pages fit behind the destination, one
\* at a time; a destination that does not exist yet has no buffer.
StagesOK ==
    /\ stage[0] # "raw"
    /\ \A w \in Vecs \ {0} : stage[w] # "none"
    /\ \A w \in Vecs : stage[w] = "raw" => Live(0) /\ PagesFit(0, w)
    /\ \A v, w \in Vecs : stage[v] = "raw" /\ stage[w] = "raw" => v = w
    /\ stage[0] = "none" => buf[0] = NoBuffer /\ len[0] = 0

\* With giant_pages, pages that no vector owns may stay mapped.
Ownership == BuffersApart /\ (~GiantPages => ConsumedEntirely)

IInv == TypeOK /\ Ownership /\ StagesOK /\ \A v \in Vecs : VecOK(v)

-----------------------------------------------------------------------------
(* What the types and the build give *)

Values == (Tokens \X Nat) \cup {Zero, Junk}

LEMMA Memory == TypeOK => mapping \in [Addresses -> Kinds] /\ memory \in [Addresses -> Values]
  BY DEF TypeOK, Values

\* The kinds of memory, of which there are two without giant_pages.
LEMMA Ordinary ==
    ASSUME NEW n
    PROVE  /\ KindOf(n) \notin Unowned /\ KindOf(n) \in Kinds
           /\ ~GiantPages => KindOf(n) = (IF uses_mmap(n) THEN "pages" ELSE "heap")
  BY DEF KindOf, uses_giant_pages, Kinds, Unowned

BufferOK(b) ==
    /\ b.at \in Addresses /\ b.at \in Int /\ b.elem = ElemSize /\ b.elem \in Nat \ {0}
    /\ b.cap \in Nat /\ CapBytes(b) = b.cap * ElemSize /\ CapBytes(b) \in Nat
    /\ BlockSize(CapBytes(b)) \in Nat /\ CapBytes(b) <= BlockSize(CapBytes(b))
    /\ \A n \in 0 .. b.cap : n * ElemSize \in Nat /\ n * ElemSize <= CapBytes(b)

LEMMA BufferFacts ==
    ASSUME NEW a \in Addresses, NEW cap \in Nat
    PROVE  BufferOK(Buffer(a, ElemSize, cap))
  <1> DEFINE b == Buffer(a, ElemSize, cap)
  <1>1. b.at = a /\ b.elem = ElemSize /\ b.cap = cap /\ ElemSize \in Nat \ {0} /\ a \in Int
    BY ElemSizeAssumption DEF Buffer, Addresses
  <1>. HIDE DEF b
  <1>2. CapBytes(b) = cap * ElemSize /\ CapBytes(b) \in Nat
    BY <1>1, SMT DEF CapBytes
  <1>3. BlockSize(CapBytes(b)) \in Nat /\ CapBytes(b) <= BlockSize(CapBytes(b))
    BY <1>2, BlockHolds
  <1>4. ASSUME NEW n \in 0 .. cap
        PROVE  n * ElemSize \in Nat /\ n * ElemSize <= cap * ElemSize
    <2>1. n * ElemSize \in Nat
      BY <1>1, SMT
    <2>. QED  BY <1>1, <2>1, MultiplesOrdered
  <1>5. BufferOK(b)
    BY <1>1, <1>2, <1>3, <1>4 DEF BufferOK
  <1>. QED  BY <1>5 DEF b

LEMMA Buffers ==
    ASSUME TypeOK, NEW v \in Vecs
    PROVE  BufferOK(buf[v]) /\ len[v] \in Nat
  <1>1. /\ buf[v] \in [at : Addresses, elem : {ElemSize}, cap : Nat]
        /\ buf[v] = Buffer(buf[v].at, ElemSize, buf[v].cap) /\ len[v] \in Nat
    BY DEF TypeOK, Buffer
  <1>2. buf[v].at \in Addresses /\ buf[v].cap \in Nat
    BY <1>1
  <1>3. BufferOK(Buffer(buf[v].at, ElemSize, buf[v].cap))
    BY <1>2, BufferFacts
  <1>. QED  BY <1>1, <1>3

\* The first n elements lie in the block.
LEMMA Inside ==
    ASSUME NEW b, BufferOK(b), NEW n \in 0 .. b.cap
    PROVE  Extent(b.at, n * b.elem) \subseteq Extents(b)
  BY DEF BufferOK, Extents, Extent

LEMMA HeldElements ==
    ASSUME TypeOK, NEW v \in Vecs
    PROVE  Elements(buf[v], 0, len[v]) = Held(v)
  <1>1. len[v] \in Nat /\ len[v] - 0 = len[v]
    BY Buffers
  <1>2. \A i \in 1 .. len[v] : 0 + i - 1 = i - 1
    BY <1>1
  <1>. QED  BY <1>1, <1>2, ElementsIn DEF Held, Content

-----------------------------------------------------------------------------
(* What a step leaves alone *)

Exact ==
    /\ \A v \in Vecs : \A x \in Ext(v) : x \in Addresses /\ mapping[x] \notin Unowned
    /\ \A v, w \in Vecs : v # w => Ext(v) \cap Ext(w) = {}
    /\ ~GiantPages => {x \in Addresses : mapping[x] \notin Unowned} \subseteq UNION {Ext(v) : v \in Vecs}

LEMMA ExactIsOwned == Ownership <=> Exact
  <1>1. \A v \in Owned : v \in Vecs /\ Ext(v) = Extents(buf[v])
    BY DEF Owned, Ext
  <1>2. \A v \in Vecs : v \notin Owned => Ext(v) = {}
    BY DEF Ext
  <1>3. UNION {Ext(v) : v \in Vecs} = UNION {Extents(buf[v]) : v \in Owned}
    BY <1>1, <1>2
  <1>4. BuffersApart <=> /\ \A v \in Vecs : \A x \in Ext(v) : x \in Addresses /\ mapping[x] \notin Unowned
                         /\ \A v, w \in Vecs : v # w => Ext(v) \cap Ext(w) = {}
    BY <1>1, <1>2 DEF BuffersApart, Lost, Unowned
  <1>5. {x \in Addresses : mapping[x] # "none"} \ Lost = {x \in Addresses : mapping[x] \notin Unowned}
    BY DEF Lost, Unowned
  <1>. QED  BY <1>3, <1>4, <1>5 DEF Ownership, ConsumedEntirely, Exact

LEMMA ExactIsOwnedNext == (Ownership <=> Exact)'
  BY ExactIsOwned, PTL

LEMMA OwnedMapped ==
    ASSUME IInv, NEW v \in Vecs
    PROVE  /\ Ext(v) \subseteq Addresses
           /\ \A x \in Ext(v) : mapping[x] \notin Unowned
           /\ \A w \in Vecs \ {v} : Ext(v) \cap Ext(w) = {}
  <1>1. Exact
    BY ExactIsOwned DEF IInv
  <1>. QED  BY <1>1 DEF Exact

\* Vector u is the same vector in the same place.
Same(u) == buf'[u] = buf[u] /\ len'[u] = len[u] /\ stage'[u] = stage[u]

\* A vector that nothing touches keeps its elements.
LEMMA Untouched ==
    ASSUME IInv, NEW u \in Vecs, Same(u),
           \A x \in Ext(u) : mapping'[x] = mapping[x] /\ memory'[x] = memory[x]
    PROVE  /\ u \in Owned' <=> u \in Owned
           /\ Ext(u)' = Ext(u)
           /\ u \in Owned => Held(u)' = Held(u)
           /\ VecOK(u)'
  <1>1. (u \in Owned' <=> u \in Owned) /\ Ext(u)' = Ext(u)
    BY DEF Owned, Ext, Same, Extents
  <1>2. BufferOK(buf[u]) /\ len[u] \in Nat
    BY Buffers DEF IInv
  <1>3. ASSUME u \in Owned
        PROVE  Held(u)' = Held(u)
    <2>1. VecOK(u) /\ len[u] <= buf[u].cap /\ Ext(u) = Extents(buf[u])
      BY <1>3 DEF IInv, VecOK, Ext
    <2>2. len[u] \in 0 .. buf[u].cap
      BY <1>2, <2>1 DEF BufferOK
    <2>3. Extent(buf[u].at, len[u] * buf[u].elem) \subseteq Ext(u)
      BY <1>2, <2>1, <2>2, Inside
    <2>4. Content(memory', buf[u], len[u]) = Content(memory, buf[u], len[u])
      <3> DEFINE b == buf[u]
                 n == len[u]
                 new == memory'
      <3>1. \A x \in Extent(b.at, n * b.elem) : new[x] = memory[x]
        BY <2>3
      <3>2. b.at \in Int /\ b.elem \in Nat \ {0} /\ n \in Nat
        BY <1>2 DEF BufferOK
      <3>. HIDE DEF b, n, new
      <3>3. Content(new, b, n) = Content(memory, b, n)
        BY <3>1, <3>2, SameContent
      <3>. QED  BY <3>3 DEF b, n, new
    <2>. QED  BY <2>4 DEF Held, Same
  <1>4. VecOK(u)'
    <2> SUFFICES ASSUME u \in Owned'
                 PROVE  /\ len'[u] <= buf'[u].cap
                        /\ ~GiantPages => InKind(u)'
                        /\ Held(u)' \in Seq(Tokens)
      BY DEF VecOK
    <2>1. /\ u \in Owned /\ VecOK(u) /\ Held(u)' = Held(u)
      BY <1>1, <1>3 DEF IInv
    <2>2. \A x \in Extent(buf[u].at, BlockSize(CapBytes(buf[u]))) : mapping'[x] = mapping[x]
      BY <2>1 DEF Ext, Extents
    <2>. QED  BY <2>1, <2>2 DEF VecOK, InKind, Covers, Same
  <1>. QED  BY <1>1, <1>3, <1>4

\* To the vectors outside of D nothing happens.
OthersSame(D) ==
    \A u \in Vecs \ D : (u \in Owned' <=> u \in Owned) /\ (u \in Owned => Held(u)' = Held(u))

\* A step touches v and w, and at most v remains: what it takes for v was free or
\* theirs, and what they no longer have has no owner, but for whole gigantic pages.
Exchanges(v, w) ==
    /\ w = v \/ w \notin Owned'
    /\ \A u \in Vecs \ {v, w} : Same(u)
    /\ \A x \in Addresses \ (Ext(v) \cup Ext(w) \cup Ext(v)') :
          mapping'[x] = mapping[x] /\ memory'[x] = memory[x]
    /\ \A x \in Ext(v)' : /\ x \in Addresses /\ mapping'[x] \notin Unowned
                          /\ x \in Ext(v) \cup Ext(w) \/ mapping[x] \in Unowned
    /\ ~GiantPages => \A x \in (Ext(v) \cup Ext(w)) \ Ext(v)' : mapping'[x] \in Unowned

LEMMA Frame ==
    ASSUME IInv, NEW v \in Vecs, NEW w \in Vecs, Exchanges(v, w)
    PROVE  /\ Ownership' /\ OthersSame({v, w})
           /\ \A u \in Vecs \ {v, w} : VecOK(u)'
  <1>1. Exact
    BY ExactIsOwned DEF IInv
  <1>2. ASSUME NEW u \in Vecs \ {v, w}
        PROVE  /\ u \in Owned' <=> u \in Owned
               /\ Ext(u)' = Ext(u)
               /\ u \in Owned => Held(u)' = Held(u)
               /\ VecOK(u)'
    <2>1. ASSUME NEW x \in Ext(u)
          PROVE  x \in Addresses \ (Ext(v) \cup Ext(w) \cup Ext(v)')
      <3>1. x \in Addresses /\ mapping[x] \notin Unowned /\ x \notin Ext(v) /\ x \notin Ext(w)
        BY <2>1, OwnedMapped
      <3>. QED  BY <3>1 DEF Exchanges
    <2>. QED  BY <2>1, Untouched DEF Exchanges
  <1>3. w = v \/ Ext(w)' = {}
    BY DEF Exchanges, Ext
  <1>4. \A t, u \in Vecs : t # u => Ext(t)' \cap Ext(u)' = {}
    <2>1. \A u \in Vecs \ {v, w} : Ext(v)' \cap Ext(u)' = {}
      <3> SUFFICES ASSUME NEW u \in Vecs \ {v, w}, NEW x \in Ext(u), x \in Ext(v)'
                   PROVE  FALSE
        BY <1>2
      <3>1. mapping[x] \notin Unowned /\ x \notin Ext(v) /\ x \notin Ext(w)
        BY OwnedMapped
      <3>. QED  BY <3>1 DEF Exchanges
    <2>2. \A t, u \in Vecs \ {v, w} : t # u => Ext(t)' \cap Ext(u)' = {}
      BY <1>1, <1>2 DEF Exact
    <2>. QED  BY <1>3, <2>1, <2>2
  <1>5. /\ ~GiantPages => {x \in Addresses : mapping'[x] \notin Unowned} \subseteq UNION {Ext(u)' : u \in Vecs}
        /\ \A u \in Vecs : \A x \in Ext(u)' : x \in Addresses /\ mapping'[x] \notin Unowned
    <2>1. ASSUME ~GiantPages, NEW x \in Addresses, mapping'[x] \notin Unowned
          PROVE  \E u \in Vecs : x \in Ext(u)'
      <3>1. CASE x \in Ext(v)'
        BY <3>1
      <3>2. CASE x \notin Ext(v)'
        <4>1. x \notin Ext(v) /\ x \notin Ext(w) /\ mapping[x] \notin Unowned
          BY <2>1, <3>2 DEF Exchanges
        <4>2. PICK u \in Vecs : x \in Ext(u)
          BY <1>1, <2>1, <4>1 DEF Exact
        <4>. QED  BY <1>2, <4>1, <4>2
      <3>. QED  BY <3>1, <3>2
    <2>2. ASSUME NEW u \in Vecs, NEW x \in Ext(u)'
          PROVE  x \in Addresses /\ mapping'[x] \notin Unowned
      <3>1. CASE u = v
        BY <2>2, <3>1 DEF Exchanges
      <3>2. CASE u \notin {v, w}
        <4>1. x \in Ext(u) /\ x \in Addresses /\ mapping[x] \notin Unowned
          BY <1>2, <2>2, <3>2, OwnedMapped
        <4>2. x \notin Ext(v) /\ x \notin Ext(w)
          BY <3>2, <4>1, OwnedMapped
        <4>3. x \notin Ext(v)'
          BY <4>1, <4>2 DEF Exchanges
        <4>. QED  BY <4>1, <4>2, <4>3 DEF Exchanges
      <3>. QED  BY <1>3, <2>2, <3>1, <3>2
    <2>. QED  BY <2>1, <2>2
  <1>6. Exact'
    BY <1>4, <1>5 DEF Exact
  <1>. QED  BY <1>2, <1>6, ExactIsOwnedNext DEF OthersSame

SpaceOK == mapping \in [Addresses -> Kinds] /\ memory \in [Addresses -> Values]

TablesOK ==
    /\ buf \in [Vecs -> [at : Addresses, elem : {ElemSize}, cap : Nat]]
    /\ len \in [Vecs -> Nat]
    /\ stage \in [Vecs -> {"none", "live", "raw", "gone"}]
    /\ chunks \in 0 .. Others

\* What is left to show of a step.
LEMMA StepInv ==
    ASSUME IInv, NEW v \in Vecs, NEW w \in Vecs, Exchanges(v, w),
           SpaceOK', TablesOK', StagesOK', VecOK(v)', VecOK(w)'
    PROVE  IInv' /\ OthersSame({v, w})
  <1>1. Ownership' /\ OthersSame({v, w}) /\ \A u \in Vecs : VecOK(u)'
    BY Frame
  <1>2. \A u \in Vecs : Live(u)' => len'[u] <= buf'[u].cap
    BY <1>1 DEF Live, Owned, VecOK
  <1>3. TypeOK'
    BY <1>2 DEF TypeOK, SpaceOK, TablesOK, Values
  <1>. QED  BY <1>1, <1>3 DEF IInv

-----------------------------------------------------------------------------
(* Vectors that are dropped *)

\* The allocator gives back what belongs to the vector and nothing else: without
\* giant_pages all of it, since the regime that it computes is the one the buffer
\* is in, unless the kernel will not have it; with giant_pages it may compute
\* another extent, and the pages stay as they are.
LEMMA Freed ==
    ASSUME IInv, NEW w \in Owned, Deallocates(buf[w])
    PROVE  /\ SpaceOK'
           /\ \A x \in Addresses \ Ext(w) : mapping'[x] = mapping[x] /\ memory'[x] = memory[x]
           /\ ~GiantPages => \A x \in Ext(w) : mapping'[x] \in Unowned
  <1> DEFINE b == buf[w]
             n == CapBytes(b)
  <1>1. /\ ~GiantPages => Covers(b.at, BlockSize(n), KindOf(n))
        /\ Ext(w) = Extent(b.at, BlockSize(n)) /\ w \in Vecs /\ SpaceOK
    BY Memory DEF IInv, VecOK, InKind, Owned, Ext, Extents, SpaceOK
  <1>2. Deallocates(b) /\ Ext(w) \subseteq Addresses
    BY <1>1, OwnedMapped
  <1>. HIDE DEF b
  <1>3. CASE UNCHANGED <<mapping, memory>> /\ GiantPages
    BY <1>1, <1>3 DEF SpaceOK
  <1>4. CASE \/ /\ mapping' = Painted(mapping, b.at, BlockSize(n), "none")
                /\ memory' = Painted(memory, b.at, BlockSize(n), Junk)
             \/ /\ mapping' = Painted(mapping, b.at, BlockSize(n), "lost")
                /\ memory' = memory
    <2>1. Unowned \subseteq Kinds /\ Unowned = {"none", "lost"} /\ Junk \in Values
      BY DEF Kinds, Values, Unowned
    <2>. QED  BY <1>1, <1>2, <1>4, <2>1 DEF SpaceOK, Painted
  <1>5. CASE uses_mmap(n)
    <2>1. BlockSize(n) = mapped_size(n) /\ (~GiantPages => KindOf(n) = "pages")
      BY <1>5, Ordinary DEF BlockSize
    <2>2. ~GiantPages => ~Splits(b.at, mapped_size(n))
      BY <1>1, <2>1 DEF Splits, Covers
    <2>3. Unmaps(b.at, mapped_size(n))
      BY <1>2, <1>5 DEF Deallocates, n
    <2>. QED  BY <1>3, <1>4, <2>1, <2>2, <2>3 DEF Unmaps, munmap, munmap_refused
  <1>6. CASE ~uses_mmap(n)
    <2>1. BlockSize(n) = n /\ (~GiantPages => KindOf(n) = "heap")
      BY <1>6, Ordinary DEF BlockSize
    <2>2. free(b.at, n)
      BY <1>2, <1>6 DEF Deallocates, n
    <2>. QED  BY <1>1, <1>3, <1>4, <2>1, <2>2 DEF free
  <1>. QED  BY <1>5, <1>6

LEMMA Released ==
    ASSUME IInv, Idle, NEW w \in Vecs, Live(w),
           Deallocates(buf[w]), Consumed(w), UNCHANGED <<buf, len>>, chunks' \in 0 .. Others
    PROVE  IInv' /\ OthersSame({w}) /\ w \in Owned /\ w \notin Owned'
  <1>1. /\ w \in Owned
        /\ stage' = [stage EXCEPT ![w] = "gone"] /\ stage'[w] = "gone"
        /\ \A u \in Vecs \ {w} : stage'[u] = stage[u]
    BY DEF Consumed, IInv, TypeOK, Live, Owned
  <1>2. w \notin Owned' /\ Ext(w)' = {} /\ \A u \in Vecs \ {w} : Same(u)
    BY <1>1 DEF Owned, Ext, Same
  <1>3. /\ SpaceOK'
        /\ \A x \in Addresses \ Ext(w) : mapping'[x] = mapping[x] /\ memory'[x] = memory[x]
        /\ ~GiantPages => \A x \in Ext(w) : mapping'[x] \in Unowned
    BY <1>1, Freed
  <1>4. Exchanges(w, w)
    BY <1>2, <1>3, OwnedMapped DEF Exchanges
  <1>5. SpaceOK'
    BY <1>3
  <1>6. TablesOK'
    BY <1>1 DEF TablesOK, IInv, TypeOK
  <1>7. StagesOK'
    BY <1>1 DEF StagesOK, IInv, Idle
  <1>8. VecOK(w)'
    BY <1>2 DEF VecOK
  <1>. QED  BY <1>1, <1>2, <1>4, <1>5, <1>6, <1>7, <1>8, StepInv

\* One chunk less.
LEMMA DoneTypes == TypeOK /\ Done => chunks' \in 0 .. Others
  BY OthersAssumption DEF TypeOK, Done

\* A vector that is taken apart is where it was.
LEMMA TakeApartInv ==
    ASSUME IInv, NEW v \in Vecs, NEW w \in Vecs, TakeApart(v, w)
    PROVE  IInv' /\ OthersSame({})
  <1>1. /\ v = 0 /\ w # 0 /\ Live(0) /\ Live(w) /\ Idle /\ PagesFit(0, w)
        /\ stage' = [stage EXCEPT ![w] = "raw"]
        /\ UNCHANGED <<mapping, memory, buf, len, chunks>>
    BY DEF TakeApart, MayExtend
  <1>2. stage'[w] = "raw" /\ \A u \in Vecs \ {w} : stage'[u] = stage[u]
    BY <1>1 DEF IInv, TypeOK
  <1>3. Owned' = Owned /\ \A u \in Vecs : Ext(u)' = Ext(u) /\ Held(u)' = Held(u)
    BY <1>1, <1>2 DEF Owned, Live, Ext, Held, Extents
  <1>4. \A u \in Vecs : VecOK(u)'
    BY <1>1, <1>3 DEF IInv, VecOK, InKind, Covers
  <1>5. Ownership'
    BY <1>1, <1>3 DEF IInv, Ownership, BuffersApart, ConsumedEntirely, Unowned, Lost
  <1>6. StagesOK'
    <2>1. stage'[0] = "live"
      BY <1>1, <1>2 DEF Live, Vecs
    <2>2. \A u \in Vecs : stage'[u] = "raw" => u = w
      BY <1>1, <1>2 DEF Idle
    <2>3. PagesFit(0, w)'
      BY <1>1 DEF PagesFit, Room, Bytes
    <2>. QED  BY <1>1, <1>2, <2>1, <2>2, <2>3 DEF StagesOK, IInv, Live
  <1>7. TypeOK'
    <2>1. stage' \in [Vecs -> {"none", "live", "raw", "gone"}]
      BY <1>1 DEF IInv, TypeOK
    <2>2. \A u \in Vecs : Live(u)' => Live(u)
      BY <1>1, <1>2 DEF Live
    <2>. QED  BY <1>1, <2>1, <2>2 DEF IInv, TypeOK
  <1>. QED  BY <1>3, <1>4, <1>5, <1>6, <1>7 DEF IInv, OthersSame

-----------------------------------------------------------------------------
(* Elements that move *)

\* The two vectors become one.
Joins(v, w) ==
    /\ v # w /\ v \in Owned /\ w \in Owned /\ v \in Owned' /\ w \notin Owned'
    /\ Held(v)' = Held(v) \o Held(w)

\* A whole number of huge pages is mapped as it is, unless it is rounded up to
\* a gigantic one.
LEMMA WholePages ==
    ASSUME ~GiantPages, NEW n \in Nat, uses_mmap(n), n % HugePage = 0
    PROVE  BlockSize(n) = n
  <1>1. n = (n \div HugePage) * HugePage /\ n \div HugePage \in Nat
    BY HugePageAssumption, MultipleIfNoRemainder, DivBounds
  <1>2. RoundUp(n, HugePage) <= n /\ RoundUp(n, HugePage) >= n /\ RoundUp(n, HugePage) \in Nat
    <2> DEFINE k == n \div HugePage
    <2>1. k \in Nat /\ n <= k * HugePage /\ n = k * HugePage
      BY <1>1
    <2>. HIDE DEF k
    <2>. QED  BY <2>1, HugePageAssumption, RoundUpBounds, RoundUpLeast
  <1>3. n # 0
    BY HugePageAssumption DEF uses_mmap
  <1>. QED  BY <1>2, <1>3 DEF BlockSize, mapped_size, uses_giant_pages

\* What is in a vector, by elements and by bytes.
LEMMA HeldBytes ==
    ASSUME IInv, NEW v \in Owned
    PROVE  /\ v \in Vecs /\ BufferOK(buf[v]) /\ len[v] \in 0 .. buf[v].cap
           /\ Held(v) \in Seq(Tokens) /\ Len(Held(v)) = len[v]
           /\ \A o \in 0 .. len[v] * ElemSize - 1 :
                 memory[buf[v].at + o] = ByteOf(Held(v), ElemSize, o)
           /\ Extent(buf[v].at, len[v] * ElemSize) \subseteq Ext(v)
  <1>1. /\ v \in Vecs /\ VecOK(v) /\ BufferOK(buf[v]) /\ len[v] \in Nat
        /\ Ext(v) = Extents(buf[v])
    BY Buffers DEF Owned, IInv, Ext
  <1>2. len[v] \in 0 .. buf[v].cap /\ Held(v) \in Seq(Tokens)
    BY <1>1 DEF VecOK, BufferOK
  <1>3. Extent(buf[v].at, len[v] * ElemSize) \subseteq Ext(v)
    BY <1>1, <1>2, Inside DEF BufferOK
  <1>4. /\ Len(Held(v)) = len[v]
        /\ Spelled(memory, buf[v].at, ElemSize, Held(v), 0, len[v] * ElemSize)
    <2> DEFINE b == buf[v]
               n == len[v]
    <2>1. b.at \in Int /\ b.elem \in Nat \ {0} /\ b.elem = ElemSize /\ n \in Nat
      BY <1>1 DEF BufferOK
    <2>2. Content(memory, b, n) \in Seq(Tokens) /\ Held(v) = Content(memory, b, n)
      BY <1>2 DEF Held
    <2>. HIDE DEF b, n
    <2>3. /\ Len(Content(memory, b, n)) = n
          /\ Spelled(memory, b.at, b.elem, Content(memory, b, n), 0, n * b.elem)
      BY <2>1, <2>2, ContentSpelled
    <2>. QED  BY <2>1, <2>2, <2>3 DEF b, n
  <1>. QED  BY <1>1, <1>2, <1>3, <1>4 DEF Spelled

\* The bytes of v and then those of w are the elements of both.
LEMMA Gathered ==
    ASSUME IInv, NEW v \in Owned, NEW w \in Owned, NEW mem, NEW b, BufferOK(b),
           \A o \in 0 .. len[v] * ElemSize - 1 : mem[b.at + o] = ByteOf(Held(v), ElemSize, o),
           \A o \in 0 .. len[w] * ElemSize - 1 :
               mem[b.at + len[v] * ElemSize + o] = ByteOf(Held(w), ElemSize, o)
    PROVE  /\ Content(mem, b, len[v] + len[w]) = Held(v) \o Held(w)
           /\ Held(v) \o Held(w) \in Seq(Tokens)
  <1> DEFINE s == Held(v)
             t == Held(w)
             u == s \o t
  <1>1. s \in Seq(Tokens) /\ t \in Seq(Tokens) /\ Len(s) = len[v] /\ Len(t) = len[w]
    BY HeldBytes
  <1>2. b.at \in Int /\ ElemSize \in Nat \ {0} /\ b.elem = ElemSize
    BY DEF BufferOK
  <1>3. /\ Spelled(mem, b.at, ElemSize, s, 0, Len(s) * ElemSize)
        /\ \A o \in 0 .. Len(t) * ElemSize - 1 :
              mem[b.at + Len(s) * ElemSize + o] = ByteOf(t, ElemSize, o)
    BY <1>1 DEF Spelled
  <1>. HIDE DEF s, t
  <1>4. Spelled(mem, b.at, ElemSize, u, 0, Len(u) * ElemSize)
    BY <1>1, <1>2, <1>3, ConcatSpelled
  <1>5. u \in Seq(Tokens) /\ Len(u) = len[v] + len[w]
    BY <1>1
  <1>. HIDE DEF u
  <1>6. Content(mem, b, Len(u)) = u
    BY <1>2, <1>4, <1>5, SpelledContent
  <1>. QED  BY <1>5, <1>6 DEF s, t, u

\* The pages of w take the place behind the elements of v, all of them.
LEMMA MovePagesInv ==
    ASSUME IInv, NEW v \in Vecs, NEW w \in Vecs, MovePages(v, w)
    PROVE  IInv' /\ OthersSame({v, w}) /\ Joins(v, w)
  <1> DEFINE b == buf[0]
             c == buf[w]
             m == len[0] * ElemSize
             n == len[w] * ElemSize
             dest == b.at + m
  <1>1. /\ v = 0 /\ w # 0 /\ 0 \in Vecs /\ Live(0) /\ stage[w] = "raw" /\ PagesFit(0, w)
        /\ 0 \in Owned /\ w \in Owned
        /\ \A u \in Vecs \ {w} : stage[u] # "raw"
    BY DEF MovePages, IInv, StagesOK, Live, Owned
  <1>2. /\ len' = [len EXCEPT ![0] = len[0] + len[w]]
        /\ stage' = [stage EXCEPT ![w] = "gone"] /\ Done /\ buf' = buf
    BY <1>1 DEF MovePages, Consumed
  <1>3. /\ BufferOK(b) /\ BufferOK(c) /\ len[0] \in 0 .. b.cap /\ len[w] \in 0 .. c.cap
        /\ VecOK(0) /\ VecOK(w) /\ Ext(0) = Extents(b) /\ Ext(w) = Extents(c)
        /\ Extent(b.at, m) \subseteq Ext(0)
    BY <1>1, HeldBytes DEF IInv, Ext
  <1>4. /\ len[0] + len[w] \in 0 .. b.cap /\ c.cap = len[w] /\ n % HugePage = 0
        /\ uses_mmap(CapBytes(b)) /\ uses_mmap(CapBytes(c))
    BY <1>1, <1>3 DEF PagesFit, Room, Bytes, BufferOK
  <1>5. /\ m \in Nat /\ n \in Nat /\ b.at \in Int /\ c.at \in Int /\ dest \in Int
        /\ CapBytes(c) = n /\ m + n <= BlockSize(CapBytes(b)) /\ BlockSize(CapBytes(b)) \in Nat
    <2>1. /\ m \in Nat /\ n \in Nat /\ b.at \in Int /\ c.at \in Int
          /\ CapBytes(c) = n /\ BlockSize(CapBytes(b)) \in Nat
          /\ (len[0] + len[w]) * ElemSize <= BlockSize(CapBytes(b))
      BY <1>3, <1>4 DEF BufferOK
    <2>2. (len[0] + len[w]) * ElemSize = m + n
      BY <1>3, ElemSizeAssumption, SMT
    <2>. QED  BY <2>1, <2>2
  <1>6. /\ Extent(c.at, n) \subseteq Ext(w) /\ Extent(c.at, n) \subseteq Addresses
        /\ ~GiantPages => Ext(w) = Extent(c.at, n)
    <2>1. Extent(c.at, n) \subseteq Ext(w)
      BY <1>1, HeldBytes
    <2>2. ~GiantPages => Ext(w) = Extent(c.at, n)
      BY <1>3, <1>4, <1>5, WholePages DEF Extents
    <2>. QED  BY <1>1, <2>1, <2>2, OwnedMapped
  <1>7. /\ Extent(dest, n) \subseteq Ext(0)
        /\ Extent(b.at, m) \cap Extent(dest, n) = {}
    <2> DEFINE z == BlockSize(CapBytes(b))
               a == b.at
    <2>1. Ext(0) = Extent(a, z)
      BY <1>3 DEF Extents
    <2>2. m \in Nat /\ n \in Nat /\ a \in Int /\ dest = a + m /\ m + n <= z /\ z \in Nat
      BY <1>5
    <2>3. Extent(dest, n) \subseteq Extent(a, z) /\ Extent(a, m) \cap Extent(dest, n) = {}
      <3>. HIDE DEF m, n, z, a, dest
      <3>. QED  BY <2>2 DEF Extent
    <2>. QED  BY <2>1, <2>3
  <1>8. /\ Ext(0) \subseteq Addresses /\ Ext(w) \subseteq Addresses /\ Ext(0) \cap Ext(w) = {}
        /\ \A x \in Ext(0) : mapping[x] \notin Unowned
    BY <1>1, OwnedMapped
  <1>9. /\ mapping' = [x \in Addresses |->
                IF x \in Extent(dest, n) THEN "pages"
                ELSE IF x \in Extent(c.at, n) THEN "none" ELSE mapping[x]]
        /\ memory' = [x \in Addresses |->
                IF x \in Extent(dest, n) THEN memory[c.at + x - dest]
                ELSE IF x \in Extent(c.at, n) THEN Junk ELSE memory[x]]
    <2>1. mremap_fixed(c.at, n, dest, FALSE)
      <3>1. b.elem = ElemSize /\ c.elem = ElemSize
        BY <1>3 DEF BufferOK
      <3>. QED  BY <1>1, <3>1 DEF MovePages, Bytes
    <2>. HIDE DEF dest, n, c
    <2>. QED  BY <2>1 DEF mremap_fixed, Painted
  <1>. HIDE DEF dest
  <1>10. /\ 0 \in Owned' /\ w \notin Owned' /\ Ext(0)' = Ext(0)
         /\ \A u \in Vecs \ {0, w} : Same(u)
         /\ stage'[w] = "gone" /\ stage'[0] = "live" /\ len'[0] = len[0] + len[w]
    BY <1>1, <1>2 DEF IInv, TypeOK, Owned, Ext, Same, Live
  <1>11. Exchanges(0, w)
    <2>1. \A x \in Addresses \ (Ext(0) \cup Ext(w)) : mapping'[x] = mapping[x] /\ memory'[x] = memory[x]
      BY <1>6, <1>7, <1>9
    <2>2. \A x \in Ext(0) : x \in Addresses /\ mapping'[x] \notin Unowned
      BY <1>6, <1>8, <1>9 DEF Unowned
    <2>3. ~GiantPages => \A x \in (Ext(0) \cup Ext(w)) \ Ext(0) : mapping'[x] \in Unowned
      BY <1>6, <1>7, <1>8, <1>9 DEF Unowned
    <2>. QED  BY <1>10, <2>1, <2>2, <2>3 DEF Exchanges
  <1>12. SpaceOK'
    <2>1. \A x \in Extent(dest, n) : c.at + x - dest \in Addresses
      <3>1. dest \in Int
        BY <1>5 DEF dest
      <3>2. \A x \in Extent(dest, n) : c.at + x - dest \in Extent(c.at, n)
        <4>. HIDE DEF n, c
        <4>. QED  BY <1>5, <3>1 DEF Extent
      <3>. QED  BY <1>6, <3>2
    <2>2. mapping \in [Addresses -> Kinds] /\ memory \in [Addresses -> Values]
      BY Memory DEF IInv
    <2>3. mapping' \in [Addresses -> Kinds]
      BY <1>9, <2>2 DEF Kinds
    <2>4. memory' \in [Addresses -> Values]
      <3>1. Junk \in Values
        BY DEF Values
      <3>. QED  BY <1>9, <2>1, <2>2, <3>1
    <2>. QED  BY <2>3, <2>4 DEF SpaceOK
  <1>13. TablesOK'
    <2>1. chunks' \in 0 .. Others
      BY <1>2, DoneTypes DEF IInv
    <2>2. len[0] + len[w] \in Nat
      BY <1>4
    <2>. QED  BY <1>1, <1>2, <2>1, <2>2 DEF TablesOK, IInv, TypeOK
  <1>14. StagesOK'
    <2>1. \A u \in Vecs : stage'[u] # "raw"
      BY <1>1, <1>2 DEF IInv, TypeOK
    <2>2. \A u \in Vecs \ {0} : stage'[u] # "none"
      BY <1>1, <1>2 DEF IInv, TypeOK, StagesOK
    <2>. QED  BY <1>1, <1>10, <2>1, <2>2 DEF StagesOK
  <1>15. Held(0)' = Held(0) \o Held(w) /\ Held(0)' \in Seq(Tokens)
    <2> DEFINE new == memory'
    <2>1. ASSUME NEW o \in 0 .. m - 1
          PROVE  new[b.at + o] = ByteOf(Held(0), ElemSize, o)
      <3>1. b.at + o \in Extent(b.at, m)
        BY <1>5 DEF Extent
      <3>2. new[b.at + o] = memory[b.at + o]
        BY <1>3, <1>6, <1>7, <1>8, <1>9, <3>1
      <3>. QED  BY <1>1, <3>2, HeldBytes
    <2>2. ASSUME NEW o \in 0 .. n - 1
          PROVE  new[b.at + m + o] = ByteOf(Held(w), ElemSize, o)
      <3>1. dest = b.at + m /\ dest \in Int
        BY <1>5 DEF dest
      <3>2. dest + o \in Extent(dest, n) /\ c.at + (dest + o) - dest = c.at + o
        <4>. HIDE DEF n, c
        <4>. QED  BY <1>5, <3>1 DEF Extent
      <3>3. new[dest + o] = memory[c.at + o]
        BY <1>6, <1>7, <1>8, <1>9, <3>2
      <3>. QED  BY <1>1, <3>1, <3>3, HeldBytes
    <2>. HIDE DEF new
    <2>3. /\ Content(new, b, len[0] + len[w]) = Held(0) \o Held(w)
          /\ Held(0) \o Held(w) \in Seq(Tokens)
      BY <1>1, <1>3, <2>1, <2>2, Gathered
    <2>. QED  BY <1>2, <1>10, <2>3 DEF Held, new
  <1>16. VecOK(0)'
    <2>1. ASSUME ~GiantPages
          PROVE  InKind(0)'
      <3>1. KindOf(CapBytes(b)) = "pages"
        BY <1>4, <2>1, Ordinary
      <3>2. Covers(b.at, BlockSize(CapBytes(b)), "pages")
        BY <1>1, <1>3, <2>1, <3>1 DEF VecOK, InKind
      <3>3. \A x \in Extent(b.at, BlockSize(CapBytes(b))) : x \in Ext(0)
        BY <1>3 DEF Extents
      <3>4. Covers(b.at, BlockSize(CapBytes(b)), "pages")'
        BY <1>2, <1>6, <1>8, <1>9, <3>2, <3>3 DEF Covers
      <3>. QED  BY <1>2, <3>1, <3>4 DEF InKind
    <2>. QED  BY <1>2, <1>4, <1>10, <1>15, <2>1 DEF VecOK
  <1>17. VecOK(w)'
    BY <1>10 DEF VecOK
  <1>18. IInv' /\ OthersSame({0, w})
    BY <1>1, <1>11, <1>12, <1>13, <1>14, <1>16, <1>17, StepInv
  <1>. QED  BY <1>1, <1>10, <1>15, <1>18 DEF Joins

\* Vec grows to a capacity that holds all elements.
LEMMA GrownRoom ==
    ASSUME IInv, NEW v \in Owned, NEW w \in Owned
    PROVE  /\ Grown(v, w) \in Nat /\ len[v] + len[w] \in 0 .. Grown(v, w)
  <1> DEFINE p == 2 * buf[v].cap
             q == len[v] + len[w]
  <1>1. /\ buf[v].cap \in Nat /\ len[v] \in Nat /\ len[w] \in Nat
    BY HeldBytes DEF BufferOK
  <1>2. p \in Nat /\ q \in Nat
    BY <1>1
  <1>3. Max({p, q}) \in {p, q} /\ Max({p, q}) >= q
    <2>1. \E x \in {p, q} : \A y \in {p, q} : x >= y
      <3>. HIDE DEF p, q
      <3>1. p >= q \/ q >= p
        BY <1>2
      <3>. QED  BY <1>2, <3>1
    <2>. QED  BY <2>1 DEF Max
  <1>4. Room(v, w) => len[v] + len[w] <= buf[v].cap
    BY <1>1 DEF Room
  <1>. QED  BY <1>1, <1>2, <1>3, <1>4 DEF Grown

\* Vec::extend: the elements of both are in the block of v, which is a new one if
\* it had to grow; the block of w and the old one are given back.
LEMMA AppendsInv ==
    ASSUME IInv, NEW w \in Vecs \ {0}, Live(0), w \in Owned,
           \A u \in Vecs \ {w} : stage[u] # "raw", Appends(0, w)
    PROVE  IInv' /\ OthersSame({0, w}) /\ Joins(0, w)
  <1> DEFINE old == buf[0]
             size == Grown(0, w) * ElemSize
             all == Held(0) \o Held(w)
             n == len[0] + len[w]
  <1>1. 0 \in Vecs /\ 0 \in Owned /\ w \in Vecs
    BY OthersAssumption DEF Vecs, Live, Owned
  <1>2. PICK at \in Places \cup {old.at}, kind \in Kinds :
          LET new == Buffer(at, ElemSize, Grown(0, w))
              left == (Extents(old) \ Extents(new)) \cup Extents(buf[w])
              both == Elements(old, 0, len[0]) \o Elements(buf[w], 0, len[w])
          IN /\ GrowsInto(0, CapBytes(new), at, kind)
             /\ \E lostOld \in IF Copied(0, new, kind) THEN Stays(old) ELSE {{}},
                   lostW \in Stays(buf[w]) :
                  LET lost == lostOld \cup lostW
                  IN /\ mapping' = [x \in Addresses |->
                            IF x \in Extents(new) \ Extents(old) THEN kind
                            ELSE MappingWithout(left, lost)[x]]
                     /\ memory' = Stored(MemoryWithout(left, lost), new, 0, both)
             /\ buf' = [buf EXCEPT ![0] = new]
             /\ len' = [len EXCEPT ![0] = n]
             /\ Consumed(w) /\ Done
    BY DEF Appends
  <1> DEFINE new == Buffer(at, ElemSize, Grown(0, w))
             left == (Extents(old) \ Extents(new)) \cup Extents(buf[w])
             both == Elements(old, 0, len[0]) \o Elements(buf[w], 0, len[w])
  <1>27. PICK lost \in SUBSET left :
          /\ mapping' = [x \in Addresses |->
                IF x \in Extents(new) \ Extents(old) THEN kind
                ELSE MappingWithout(left, lost)[x]]
          /\ memory' = Stored(MemoryWithout(left, lost), new, 0, both)
    <2>1. PICK lostOld \in IF Copied(0, new, kind) THEN Stays(old) ELSE {{}},
               lostW \in Stays(buf[w]) :
            /\ mapping' = [x \in Addresses |->
                  IF x \in Extents(new) \ Extents(old) THEN kind
                  ELSE MappingWithout(left, lostOld \cup lostW)[x]]
            /\ memory' = Stored(MemoryWithout(left, lostOld \cup lostW), new, 0, both)
      BY <1>2
    <2>2. lostW \subseteq Extents(buf[w])
      BY <2>1 DEF Stays
    <2>3. lostOld \subseteq Extents(old) \ Extents(new)
      BY <2>1 DEF Stays, Copied
    <2>4. lostOld \cup lostW \in SUBSET left
      BY <2>2, <2>3
    <2>. QED  BY <2>1, <2>4
  <1> DEFINE mem == MemoryWithout(left, lost)
  <1>3. Elements(old, 0, len[0]) = Held(0) /\ Elements(buf[w], 0, len[w]) = Held(w)
    BY <1>1, HeldElements DEF IInv
  <1>4. /\ GrowsInto(0, CapBytes(new), at, kind)
        /\ mapping' = [x \in Addresses |->
                IF x \in Extents(new) \ Extents(old) THEN kind
                ELSE MappingWithout(left, lost)[x]]
        /\ memory' = Stored(mem, new, 0, all)
        /\ buf' = [buf EXCEPT ![0] = new]
        /\ len' = [len EXCEPT ![0] = n]
        /\ stage' = [stage EXCEPT ![w] = "gone"] /\ Done
    BY <1>2, <1>3, <1>27 DEF Consumed
  <1>5. /\ BufferOK(old) /\ VecOK(0) /\ Ext(0) = Extents(old) /\ Ext(w) = Extents(buf[w])
        /\ len[0] \in Nat /\ len[w] \in Nat
        /\ Held(0) \in Seq(Tokens) /\ Len(Held(0)) = len[0]
        /\ Held(w) \in Seq(Tokens) /\ Len(Held(w)) = len[w]
    BY <1>1, HeldBytes DEF IInv, Ext, BufferOK
  <1>6. /\ Ext(0) \subseteq Addresses /\ Ext(w) \subseteq Addresses /\ Ext(0) \cap Ext(w) = {}
        /\ \A x \in Ext(0) : mapping[x] \notin Unowned
        /\ \A x \in Ext(w) : mapping[x] \notin Unowned
    BY <1>1, OwnedMapped
  <1>7. Grown(0, w) \in Nat /\ n \in 0 .. Grown(0, w)
    BY <1>1, GrownRoom
  <1>8. at \in Addresses
    BY <1>5, PlacesAssumption DEF BufferOK, Addresses
  <1>9. BufferOK(new) /\ new.at = at /\ new.cap = Grown(0, w) /\ new.elem = ElemSize /\ CapBytes(new) = size
    BY <1>7, <1>8, BufferFacts DEF Buffer, CapBytes
  <1>10. kind \notin Unowned /\ (~GiantPages => kind = KindOf(CapBytes(new)))
    BY <1>4, <1>9, Ordinary DEF GrowsInto, Unowned
  <1>11. /\ Extents(new) \subseteq Addresses
         /\ \A x \in Extents(new) : x \in Ext(0) \/ mapping[x] = "none"
         /\ ~GiantPages => \A x \in Extents(new) : x \in Ext(0) => mapping[x] = kind
    <2> DEFINE n1 == BlockSize(CapBytes(old))
               n2 == BlockSize(CapBytes(new))
    <2>1. /\ n1 \in Nat /\ n2 \in Nat /\ at \in Int /\ old.at \in Int
          /\ Ext(0) = Extent(old.at, n1) /\ Extents(new) = Extent(at, n2)
      BY <1>5, <1>9 DEF BufferOK, Extents
    <2>2. ~GiantPages => \A x \in Ext(0) : mapping[x] = KindOf(CapBytes(old))
      BY <1>1, <1>5 DEF VecOK, InKind, Covers, Extents
    <2>3. \/ /\ at = old.at /\ n2 = n1
             /\ uses_mmap(CapBytes(new)) <=> uses_mmap(CapBytes(old))
          \/ /\ at = old.at /\ n2 >= n1 /\ Covers(at + n1, n2 - n1, "none")
             /\ uses_mmap(CapBytes(new)) <=> uses_mmap(CapBytes(old))
          \/ Covers(at, n2, "none")
      BY <1>4, <1>9 DEF GrowsInto, SameExtent
    <2>. HIDE DEF n1, n2
    <2>4. CASE Covers(at, n2, "none")
      BY <1>6, <2>1, <2>4 DEF Covers, Unowned
    <2>5. CASE /\ at = old.at /\ n2 >= n1 /\ \A x \in Extent(at + n1, n2 - n1) : x \in Addresses /\ mapping[x] = "none"
               /\ uses_mmap(CapBytes(new)) <=> uses_mmap(CapBytes(old))
      <3>1. \A x \in Extents(new) : x \in Ext(0) \/ x \in Extent(at + n1, n2 - n1)
        <4>1. n1 \in Nat /\ n2 \in Nat /\ at \in Int /\ n2 >= n1
          BY <2>1, <2>5
        <4>2. Extent(at, n2) \subseteq Extent(at, n1) \cup Extent(at + n1, n2 - n1)
          BY <4>1 DEF Extent
        <4>3. Ext(0) = Extent(at, n1) /\ Extents(new) = Extent(at, n2)
          BY <2>1, <2>5
        <4>. QED  BY <4>2, <4>3
      <3>2. ~GiantPages => kind = KindOf(CapBytes(old))
        BY <1>10, <2>5, Ordinary
      <3>. QED  BY <1>6, <2>2, <2>5, <3>1, <3>2
    <2>6. Extent(at + n1, n1 - n1) = {}
      BY <2>1 DEF Extent
    <2>. QED  BY <2>1, <2>3, <2>4, <2>5, <2>6 DEF Covers
  <1>12. mem \in [Addresses -> Values] /\ all \in Seq(Tokens) /\ Len(all) = n
    <2>1. Junk \in Values /\ memory \in [Addresses -> Values]
      BY Memory DEF IInv, Values
    <2>2. mem \in [Addresses -> Values]
      <3>. HIDE DEF left
      <3>. QED  BY <2>1 DEF MemoryWithout
    <2>3. all \in Seq(Tokens) /\ Len(all) = n
      BY <1>5
    <2>. QED  BY <2>2, <2>3
  <1>. HIDE DEF new, mem, all, old, size
  <1>13. /\ memory' \in [Addresses -> Values]
         /\ Stores(mem, new.at, new.elem, 0, all, memory')
    <2>1. /\ Tokens \X Nat \subseteq Values /\ new.at \in Int /\ new.elem \in Nat \ {0}
          /\ 0 \in Nat
      BY <1>9 DEF Values, BufferOK
    <2>. QED  BY <1>4, <1>12, <2>1, StoredContents
  <1>14. /\ n \in Nat /\ Len(all) * ElemSize = n * ElemSize
         /\ \A x \in Addresses \ Extents(new) : memory'[x] = mem[x]
         /\ \A o \in 0 .. n * ElemSize - 1 : memory'[at + o] = ByteOf(all, ElemSize, o)
    <2>1. n \in Nat /\ Len(all) * ElemSize = n * ElemSize
      BY <1>7, <1>12
    <2>2. 0 * ElemSize = 0 /\ new.at + 0 * ElemSize = new.at /\ (0 + Len(all)) * ElemSize = n * ElemSize
      BY <1>9, <1>12, <2>1, ElemSizeAssumption DEF BufferOK
    <2>3. Extent(new.at, n * ElemSize) \subseteq Extents(new)
      BY <1>7, <1>9, Inside
    <2>4. \A x \in Addresses \ Extents(new) : memory'[x] = mem[x]
      BY <1>9, <1>13, <2>1, <2>2, <2>3 DEF Stores
    <2>5. ASSUME NEW o \in 0 .. n * ElemSize - 1
          PROVE  memory'[at + o] = ByteOf(all, ElemSize, o)
      <3>1. n * ElemSize \in Nat /\ at \in Int
        BY <1>9, <2>1, ElemSizeAssumption, SMT DEF BufferOK
      <3>2. at + o \in Addresses
        <4>1. at + o \in Extent(at, n * ElemSize)
          BY <3>1 DEF Extent
        <4>. QED  BY <1>9, <1>11, <2>3, <4>1
      <3>3. o - 0 = o
        BY <3>1
      <3>. QED  BY <1>9, <1>13, <2>1, <2>2, <3>2, <3>3 DEF Stores
    <2>. QED  BY <2>1, <2>4, <2>5
  <1>15. /\ buf'[0] = new /\ len'[0] = n /\ stage'[w] = "gone" /\ stage'[0] = "live"
         /\ 0 \in Owned' /\ w \notin Owned' /\ Ext(0)' = Extents(new)
         /\ \A u \in Vecs \ {0, w} : Same(u)
    BY <1>1, <1>4 DEF IInv, TypeOK, Owned, Ext, Same, Live, Extents
  <1>16. /\ \A x \in Extents(new) \ Ext(0) : x \in Addresses /\ mapping'[x] = kind
         /\ \A x \in Addresses : x \in left => mapping'[x] \in Unowned
         /\ \A x \in Addresses : x \notin Extents(new) \ Ext(0) /\ x \notin left =>
               mapping'[x] = mapping[x]
    <2>1. \A x \in left : x \notin Extents(new) \ Ext(0)
      BY <1>5, <1>6, <1>11 DEF Unowned
    <2>2. \A x \in Addresses :
             /\ x \in left => MappingWithout(left, lost)[x] \in Unowned
             /\ x \notin left => MappingWithout(left, lost)[x] = mapping[x]
      <3>. HIDE DEF left
      <3>. QED  BY <1>27 DEF MappingWithout, Unowned
    <2>. QED  BY <1>4, <1>5, <1>11, <2>1, <2>2
  <1>17. left = (Ext(0) \ Extents(new)) \cup Ext(w)
    BY <1>5
  <1>. HIDE DEF left
  <1>18. \A x \in Extents(new) : x \notin left
    BY <1>6, <1>11, <1>17 DEF Unowned
  <1>19. Exchanges(0, w)
    <2>1. ASSUME NEW x \in Addresses, x \notin Ext(0), x \notin Ext(w), x \notin Extents(new)
          PROVE  mapping'[x] = mapping[x] /\ memory'[x] = memory[x]
      <3>1. x \notin left
        BY <1>17, <2>1
      <3>2. memory'[x] = mem[x] /\ mem[x] = memory[x]
        BY <1>14, <2>1, <3>1 DEF mem, MemoryWithout
      <3>. QED  BY <1>16, <2>1, <3>1, <3>2
    <2>2. ASSUME NEW x \in Extents(new)
          PROVE  mapping'[x] \notin Unowned
      <3>1. CASE x \in Ext(0)
        BY <1>6, <1>16, <1>18, <3>1
      <3>2. CASE x \notin Ext(0)
        BY <1>10, <1>16, <3>2
      <3>. QED  BY <3>1, <3>2
    <2>3. \A x \in (Ext(0) \cup Ext(w)) \ Extents(new) : mapping'[x] \in Unowned
      BY <1>6, <1>16, <1>17
    <2>. QED  BY <1>11, <1>15, <2>1, <2>2, <2>3 DEF Exchanges, Unowned
  <1>20. SpaceOK'
    <2>1. kind \in Kinds /\ "none" \in Kinds /\ "lost" \in Kinds
      BY DEF Kinds
    <2>2. mapping' \in [Addresses -> Kinds]
      BY <1>4, <2>1, Memory DEF IInv, MappingWithout
    <2>. QED  BY <1>13, <2>2 DEF SpaceOK
  <1>21. TablesOK'
    <2>1. new \in [at : Addresses, elem : {ElemSize}, cap : Nat]
      BY <1>7, <1>8 DEF new, Buffer
    <2>2. chunks' \in 0 .. Others
      BY <1>4, DoneTypes DEF IInv
    <2>. QED  BY <1>1, <1>4, <1>14, <2>1, <2>2 DEF TablesOK, IInv, TypeOK
  <1>22. StagesOK'
    <2>1. \A u \in Vecs : stage'[u] # "raw"
      BY <1>4, <1>15 DEF IInv, TypeOK
    <2>2. \A u \in Vecs \ {0} : stage'[u] # "none"
      BY <1>1, <1>4 DEF IInv, TypeOK, StagesOK
    <2>. QED  BY <1>1, <1>15, <2>1, <2>2 DEF StagesOK
  <1>23. Held(0)' = all /\ all \in Seq(Tokens)
    <2> DEFINE next == memory'
    <2>1. Spelled(next, new.at, new.elem, all, 0, Len(all) * new.elem)
      BY <1>9, <1>14 DEF Spelled
    <2>2. new.at \in Int /\ new.elem \in Nat \ {0}
      BY <1>9 DEF BufferOK
    <2>. HIDE DEF next
    <2>3. Content(next, new, Len(all)) = all
      BY <1>12, <2>1, <2>2, SpelledContent
    <2>. QED  BY <1>12, <1>15, <2>3 DEF Held, next
  <1>24. VecOK(0)'
    <2>1. ASSUME ~GiantPages, NEW x \in Extents(new)
          PROVE  x \in Addresses /\ mapping'[x] = KindOf(CapBytes(new))
      <3>1. mapping'[x] = kind /\ x \in Addresses
        BY <1>11, <1>16, <1>18, <2>1
      <3>. QED  BY <1>10, <2>1, <3>1
    <2>2. ~GiantPages => InKind(0)'
      BY <1>15, <2>1 DEF InKind, Covers, Extents
    <2>3. len'[0] <= buf'[0].cap
      BY <1>7, <1>9, <1>15
    <2>. QED  BY <1>23, <2>2, <2>3 DEF VecOK
  <1>25. VecOK(w)'
    BY <1>15 DEF VecOK
  <1>26. IInv' /\ OthersSame({0, w})
    BY <1>1, <1>19, <1>20, <1>21, <1>22, <1>24, <1>25, StepInv
  <1>. QED  BY <1>1, <1>15, <1>23, <1>26 DEF Joins, all

-----------------------------------------------------------------------------
(* from_chunks *)

\* The chunks lie in the address space, so their elements can be counted.
LEMMA TotalLength ==
    ASSUME IInv, MayConcatenate
    PROVE  /\ TotalLen \in Nat
           /\ TotalLen = 0 => \A w \in Vecs \ {0} : len[w] = 0
  <1> DEFINE U == UNION {{w} \X (1 .. len[w]) : w \in Vecs \ {0}}
  <1>1. ASSUME NEW w \in Vecs \ {0}
        PROVE  len[w] \in Nat /\ len[w] <= Top
    <2>1. w \in Owned
      BY DEF MayConcatenate, Live, Owned
    <2> DEFINE n == len[w]
               a == buf[w].at
               m == n * ElemSize
    <2>2. n \in Nat /\ a \in Int /\ a >= 0 /\ Extent(a, m) \subseteq 0 .. Top - 1
      BY <2>1, HeldBytes, OwnedMapped DEF BufferOK, Addresses
    <2>. HIDE DEF n, a
    <2>3. m \in Nat /\ n <= m
      BY <2>2, ElemSizeAssumption, SMT
    <2>. HIDE DEF m
    <2>4. n > 0 => a + m - 1 \in Extent(a, m)
      BY <2>2, <2>3 DEF Extent
    <2>. QED  BY <2>2, <2>3, <2>4, TopAssumption DEF n
  <1>2. IsFiniteSet(U)
    <2>1. IsFiniteSet(0 .. Others) /\ IsFiniteSet(1 .. Top)
      BY OthersAssumption, TopAssumption, FS_Interval
    <2>2. IsFiniteSet(Vecs \X (1 .. Top))
      BY <2>1, FS_Product DEF Vecs
    <2>3. ASSUME NEW w \in Vecs \ {0}
          PROVE  {w} \X (1 .. len[w]) \subseteq Vecs \X (1 .. Top)
      BY <1>1, TopAssumption
    <2>4. U \subseteq Vecs \X (1 .. Top)
      BY <2>3
    <2>. QED  BY <2>2, <2>4, FS_Subset
  <1>3. TotalLen = Cardinality(U)
    BY DEF TotalLen
  <1>4. ASSUME NEW w \in Vecs \ {0}, U = {}
        PROVE  len[w] = 0
    <2>1. len[w] # 0 => <<w, 1>> \in {w} \X (1 .. len[w])
      BY <1>1
    <2>. QED  BY <1>4, <2>1
  <1>. HIDE DEF U
  <1>5. Cardinality(U) \in Nat /\ (Cardinality(U) = 0 <=> U = {})
    BY <1>2, FS_CardinalityType, FS_EmptySet
  <1>. QED  BY <1>3, <1>4, <1>5

\* A block for all chunks together, without an element yet.
LEMMA FromChunksInv ==
    ASSUME IInv, FromChunks
    PROVE  /\ IInv' /\ OthersSame({0}) /\ 0 \in Vecs /\ 0 \notin Owned /\ 0 \in Owned'
           /\ Held(0)' = <<>>
  <1> DEFINE size == TotalLen * ElemSize
             n == BlockSize(size)
  <1>1. /\ stage[0] = "none" /\ 0 \in Vecs /\ \A w \in Vecs \ {0} : stage[w] = "live"
        /\ 0 \notin Owned /\ Ext(0) = {} /\ len[0] = 0
    BY OthersAssumption DEF FromChunks, MayConcatenate, Live, Vecs, Owned, Ext, IInv, StagesOK
  <1>2. TotalLen \in Nat
    BY TotalLength DEF FromChunks
  <1>3. PICK a \in Places :
          /\ IF uses_mmap(size) THEN mmap(a, mapped_size(size), KindOf(size)) ELSE malloc(a, size, Junk)
          /\ buf' = [buf EXCEPT ![0] = Buffer(a, ElemSize, TotalLen)]
    BY DEF FromChunks
  <1> DEFINE b == Buffer(a, ElemSize, TotalLen)
  <1>4. a \in Addresses
    BY PlacesAssumption DEF Addresses
  <1>5. BufferOK(b) /\ b.at = a /\ b.cap = TotalLen /\ CapBytes(b) = size
    BY <1>2, <1>4, BufferFacts DEF Buffer, CapBytes
  <1>. HIDE DEF size
  <1>6. \E v \in {Zero, Junk} :
          /\ Covers(a, n, "none")
          /\ mapping' = Painted(mapping, a, n, KindOf(size))
          /\ memory' = Painted(memory, a, n, v)
    <2>1. CASE uses_mmap(size)
      BY <1>3, <2>1 DEF mmap, BlockSize
    <2>2. CASE ~uses_mmap(size)
      BY <1>3, <2>2 DEF malloc, BlockSize, KindOf
    <2>. QED  BY <2>1, <2>2
  <1>. HIDE DEF n, b
  <1>7. /\ buf'[0] = b /\ len' = len /\ stage'[0] = "live" /\ chunks' = Others
        /\ buf' = [buf EXCEPT ![0] = b] /\ stage' = [stage EXCEPT ![0] = "live"]
        /\ 0 \in Owned' /\ \A u \in Vecs \ {0} : Same(u)
    BY <1>1, <1>3 DEF FromChunks, IInv, TypeOK, Owned, Same, b
  <1>8. Ext(0)' = Extent(a, n)
    BY <1>5, <1>7 DEF Ext, Extents, n
  <1>9. Exchanges(0, 0)
    <2>1. /\ \A x \in Extent(a, n) : x \in Addresses /\ mapping[x] = "none" /\ mapping'[x] \notin Unowned
          /\ \A x \in Addresses \ Extent(a, n) : mapping'[x] = mapping[x] /\ memory'[x] = memory[x]
      BY <1>6, Ordinary DEF Covers, Painted
    <2>. QED  BY <1>1, <1>7, <1>8, <2>1 DEF Exchanges, Unowned
  <1>10. SpaceOK'
    <2>1. KindOf(size) \in Kinds /\ Zero \in Values /\ Junk \in Values
      BY Ordinary DEF Kinds, Values
    <2>. QED  BY <1>6, <2>1, Memory DEF IInv, SpaceOK, Painted
  <1>11. TablesOK'
    <2>1. b \in [at : Addresses, elem : {ElemSize}, cap : Nat]
      BY <1>2, <1>4 DEF b, Buffer
    <2>2. Others \in 0 .. Others
      BY OthersAssumption
    <2>. QED  BY <1>7, <2>1, <2>2 DEF TablesOK, IInv, TypeOK
  <1>12. StagesOK'
    <2>1. \A u \in Vecs \ {0} : stage'[u] = "live"
      BY <1>1, <1>7 DEF Same
    <2>. QED  BY <1>7, <2>1 DEF StagesOK
  <1>13. Held(0)' = <<>>
    <2>1. Held(0)' = Content(memory', buf'[0], 0)
      BY <1>1, <1>7 DEF Held
    <2>2. \A mem, c : Content(mem, c, 0) = <<>>
      BY DEF Content
    <2>. QED  BY <2>1, <2>2
  <1>14. VecOK(0)'
    <2>1. \A x \in Extent(a, n) : x \in Addresses /\ mapping'[x] = KindOf(size)
      BY <1>6 DEF Covers, Painted
    <2>2. InKind(0)'
      BY <1>5, <1>7, <2>1 DEF n, InKind, Covers
    <2>3. len'[0] <= buf'[0].cap /\ <<>> \in Seq(Tokens)
      BY <1>1, <1>2, <1>5, <1>7
    <2>. QED  BY <1>13, <2>2, <2>3 DEF VecOK
  <1>. QED  BY <1>1, <1>7, <1>9, <1>10, <1>11, <1>12, <1>13, <1>14, StepInv

\* A vector without capacity has no block.
LEMMA EmptyBlock ==
    /\ BufferOK(NoBuffer) /\ Extents(NoBuffer) = {} /\ KindOf(CapBytes(NoBuffer)) = "heap"
    /\ NoBuffer.cap = 0 /\ NoBuffer.at \in Addresses /\ NoBuffer.at = 0
  <1>1. 0 \in Addresses /\ 0 \in Nat
    BY TopAssumption DEF Addresses
  <1>2. BufferOK(NoBuffer) /\ NoBuffer.cap = 0 /\ NoBuffer.at = 0
    BY <1>1, BufferFacts DEF NoBuffer, Buffer
  <1>3. CapBytes(NoBuffer) = 0
    BY <1>2, ElemSizeAssumption DEF CapBytes, NoBuffer, Buffer
  <1>4. ~uses_mmap(0)
    BY HugePageAssumption DEF uses_mmap
  <1>. QED  BY <1>1, <1>2, <1>3, <1>4 DEF Extents, BlockSize, KindOf, Extent

\* The chunks are gone, and the result is a vector without a block.
LEMMA FromNothingInv ==
    ASSUME IInv, FromNothing
    PROVE  /\ IInv' /\ 0 \in Vecs /\ 0 \notin Owned /\ 0 \in Owned' /\ Held(0)' = <<>>
           /\ \A w \in Vecs \ {0} : w \in Owned /\ Held(w) = <<>> /\ w \notin Owned'
  <1>1. /\ stage[0] = "none" /\ 0 \in Vecs /\ \A w \in Vecs \ {0} : w \in Owned
        /\ 0 \notin Owned /\ buf[0] = NoBuffer /\ len[0] = 0 /\ Ext(0) = {}
    BY OthersAssumption DEF FromNothing, MayConcatenate, Live, Vecs, Owned, Ext, IInv, StagesOK
  <1>2. \A w \in Vecs : len[w] = 0
    BY <1>1, TotalLength DEF FromNothing
  <1>3. /\ stage' = [v \in Vecs |-> IF v = 0 THEN "live" ELSE "gone"]
        /\ buf' = buf /\ len' = len /\ chunks' = chunks
    BY DEF FromNothing
  <1>4. /\ 0 \in Owned' /\ stage'[0] = "live"
        /\ \A w \in Vecs \ {0} : w \notin Owned' /\ stage'[w] = "gone"
    BY <1>1, <1>3 DEF Owned
  <1>5. \A w \in Vecs : Ext(w)' = {}
    BY <1>1, <1>3, <1>4, EmptyBlock DEF Ext, Extents
  <1>6. /\ \A w \in Vecs : Ext(w) = Extents(buf[w])
        /\ ~GiantPages => {x \in Addresses : mapping[x] \notin Unowned} \subseteq UNION {Ext(w) : w \in Vecs}
    <2>1. \A w \in Vecs : Ext(w) = Extents(buf[w])
      BY <1>1, EmptyBlock DEF Ext
    <2>. QED  BY <2>1, ExactIsOwned DEF IInv, Exact
  <1> DEFINE left == UNION {Extents(buf[w]) : w \in Vecs}
  <1>14. PICK lost : mapping' = MappingWithout(left, lost) /\ memory' = MemoryWithout(left, lost)
    BY DEF FromNothing
  <1>7. ~GiantPages => \A x \in Addresses : mapping'[x] \in Unowned
    <2>1. ~GiantPages => \A x \in Addresses : x \in left \/ mapping[x] \in Unowned
      BY <1>6
    <2>. HIDE DEF left
    <2>. QED  BY <1>14, <2>1 DEF MappingWithout, Unowned
  <1>. HIDE DEF left
  <1>8. SpaceOK'
    <2>1. Junk \in Values /\ "none" \in Kinds /\ "lost" \in Kinds
      BY DEF Values, Kinds
    <2>. QED  BY <1>14, <2>1, Memory DEF IInv, SpaceOK, MappingWithout, MemoryWithout
  <1>9. \A w \in Vecs : Held(w) = <<>> /\ Held(w)' = <<>>
    <2>1. \A mem, c : Content(mem, c, 0) = <<>>
      BY DEF Content
    <2>2. \A w \in Vecs : Held(w) = Content(memory, buf[w], 0) /\ Held(w)' = Content(memory', buf[w], 0)
      BY <1>2, <1>3 DEF Held
    <2>. QED  BY <2>1, <2>2
  <1>10. \A w \in Vecs : VecOK(w)'
    <2>1. <<>> \in Seq(Tokens)
      OBVIOUS
    <2>2. /\ BlockSize(CapBytes(NoBuffer)) = 0 /\ KindOf(CapBytes(NoBuffer)) = "heap"
          /\ NoBuffer.at = 0 /\ NoBuffer.cap = 0
      <3>1. BlockSize(CapBytes(NoBuffer)) \in Nat /\ Extents(NoBuffer) = {}
        BY EmptyBlock DEF BufferOK
      <3>2. BlockSize(CapBytes(NoBuffer)) = 0
        BY <3>1, EmptyBlock DEF Extents, Extent
      <3>. QED  BY <3>2, EmptyBlock
    <2>3. VecOK(0)'
      <3>1. buf'[0] = NoBuffer /\ len'[0] = 0
        BY <1>1, <1>3
      <3>2. len'[0] <= buf'[0].cap
        BY <2>2, <3>1
      <3>3. InKind(0)'
        <4>1. Extent(buf'[0].at, BlockSize(CapBytes(buf'[0]))) = {}
          BY <2>2, <3>1 DEF Extent
        <4>. QED  BY <4>1 DEF InKind, Covers
      <3>4. Held(0)' \in Seq(Tokens)
        BY <1>1, <1>9, <2>1
      <3>. QED  BY <3>2, <3>3, <3>4 DEF VecOK
    <2>. QED  BY <1>4, <2>3 DEF VecOK
  <1>11. TypeOK'
    <2>1. TablesOK'
      BY <1>3 DEF TablesOK, IInv, TypeOK
    <2>2. \A v \in Vecs : Live(v)' => len'[v] <= buf'[v].cap
      BY <1>10 DEF Live, Owned, VecOK
    <2>. QED  BY <1>8, <2>1, <2>2 DEF TypeOK, SpaceOK, TablesOK, Values
  <1>12. Ownership'
    <2>1. Exact'
      BY <1>5, <1>7 DEF Exact
    <2>. QED  BY <2>1, ExactIsOwnedNext
  <1>13. StagesOK'
    BY <1>1, <1>3, <1>4 DEF StagesOK
  <1>. QED  BY <1>1, <1>4, <1>9, <1>10, <1>11, <1>12, <1>13 DEF IInv

-----------------------------------------------------------------------------
(* Every step is one of the contract *)

\* The vectors as the contract sees them.
Seqs == [v \in Vecs |-> IF v \in Owned THEN Elements(buf[v], 0, len[v]) ELSE NoVec]

LEMMA SeqsHeld ==
    ASSUME IInv
    PROVE  /\ Seqs = [v \in Vecs |-> IF v \in Owned THEN Held(v) ELSE NoVec]
           /\ \A v \in Vecs : v \in Owned => Held(v) \in Seq(Tokens) /\ Held(v) # NoVec
           /\ \A v \in Vecs : Contract!Exists(v) <=> v \in Owned
  <1>1. \A v \in Vecs : Elements(buf[v], 0, len[v]) = Held(v)
    BY HeldElements DEF IInv
  <1>2. Seqs = [v \in Vecs |-> IF v \in Owned THEN Held(v) ELSE NoVec]
    BY <1>1 DEF Seqs
  <1>3. Seq(Tokens) \subseteq Seq(Tokens \cup {Torn})
    OBVIOUS
  <1>4. \A v \in Vecs : v \in Owned => Held(v) \in Seq(Tokens) /\ Held(v) # NoVec
    BY <1>3, NoVecAssumption DEF IInv, VecOK
  <1>5. \A v \in Vecs : Contract!Exists(v) <=> Seqs[v] # NoVec
    BY DEF Contract!Exists, Seqs
  <1>. QED  BY <1>2, <1>4, <1>5

LEMMA SeqsHeldNext ==
    (IInv => Seqs = [v \in Vecs |-> IF v \in Owned THEN Held(v) ELSE NoVec])'
  <1>1. IInv => Seqs = [v \in Vecs |-> IF v \in Owned THEN Held(v) ELSE NoVec]
    BY SeqsHeld
  <1>. QED  BY <1>1, PTL

LEMMA IsExtend ==
    ASSUME IInv, IInv', NEW v \in Vecs, NEW w \in Vecs, Joins(v, w), OthersSame({v, w})
    PROVE  Contract!Extend(v, w)
  <1>1. /\ Seqs = [u \in Vecs |-> IF u \in Owned THEN Held(u) ELSE NoVec]
        /\ Seqs' = [u \in Vecs |-> IF u \in Owned' THEN Held(u)' ELSE NoVec]
    BY SeqsHeld, SeqsHeldNext
  <1>2. Seqs' = [Seqs EXCEPT ![v] = Seqs[v] \o Seqs[w], ![w] = NoVec]
    BY <1>1 DEF Joins, OthersSame
  <1>3. v # w /\ Contract!Exists(v) /\ Contract!Exists(w)
    BY SeqsHeld DEF Joins
  <1>. QED  BY <1>2, <1>3 DEF Contract!Extend, Seqs

LEMMA IsDrop ==
    ASSUME IInv, IInv', NEW v \in Vecs, v \in Owned, v \notin Owned', OthersSame({v})
    PROVE  Contract!Drop(v)
  <1>1. /\ Seqs = [u \in Vecs |-> IF u \in Owned THEN Held(u) ELSE NoVec]
        /\ Seqs' = [u \in Vecs |-> IF u \in Owned' THEN Held(u)' ELSE NoVec]
    BY SeqsHeld, SeqsHeldNext
  <1>2. Seqs' = [Seqs EXCEPT ![v] = NoVec]
    BY <1>1 DEF OthersSame
  <1>3. Contract!Exists(v)
    BY SeqsHeld
  <1>. QED  BY <1>2, <1>3 DEF Contract!Drop, Seqs

LEMMA IsCreate ==
    ASSUME IInv, IInv', NEW v \in Vecs, v \notin Owned, v \in Owned', Held(v)' = <<>>, OthersSame({v})
    PROVE  Contract!Create(v)
  <1>1. /\ Seqs = [u \in Vecs |-> IF u \in Owned THEN Held(u) ELSE NoVec]
        /\ Seqs' = [u \in Vecs |-> IF u \in Owned' THEN Held(u)' ELSE NoVec]
    BY SeqsHeld, SeqsHeldNext
  <1>2. Seqs' = [Seqs EXCEPT ![v] = <<>>]
    BY <1>1 DEF OthersSame
  <1>3. ~Contract!Exists(v)
    BY SeqsHeld
  <1>. QED  BY <1>2, <1>3 DEF Contract!Create, Seqs

LEMMA IsCreateEmpty ==
    ASSUME IInv, IInv', NEW v \in Vecs, v \notin Owned, v \in Owned', Held(v)' = <<>>,
           \A w \in Vecs \ {v} : w \in Owned /\ Held(w) = <<>> /\ w \notin Owned'
    PROVE  Contract!CreateEmpty(v)
  <1>1. /\ Seqs = [u \in Vecs |-> IF u \in Owned THEN Held(u) ELSE NoVec]
        /\ Seqs' = [u \in Vecs |-> IF u \in Owned' THEN Held(u)' ELSE NoVec]
    BY SeqsHeld, SeqsHeldNext
  <1>2. /\ \A w \in Vecs \ {v} : Seqs[w] = <<>>
        /\ Seqs' = [w \in Vecs |-> IF w = v THEN <<>> ELSE NoVec]
    BY <1>1
  <1>3. ~Contract!Exists(v)
    BY SeqsHeld
  <1>. QED  BY <1>2, <1>3 DEF Contract!CreateEmpty, Seqs

LEMMA IsStutter ==
    ASSUME IInv, IInv', OthersSame({})
    PROVE  Seqs' = Seqs
  <1>1. /\ Seqs = [u \in Vecs |-> IF u \in Owned THEN Held(u) ELSE NoVec]
        /\ Seqs' = [u \in Vecs |-> IF u \in Owned' THEN Held(u)' ELSE NoVec]
    BY SeqsHeld, SeqsHeldNext
  <1>. QED  BY <1>1 DEF OthersSame

\* A step keeps the invariant and is one of the contract, or leaves the vectors
\* as they are.
Lawful == IInv' /\ (Contract!Next \/ Seqs' = Seqs)

LEMMA ExtendLawful ==
    ASSUME IInv, NEW v \in Vecs, NEW w \in Vecs, v # w, Extend(v, w)
    PROVE  Lawful
  <1>1. CASE ExtendEmpty(v, w)
    <2>1. /\ v = 0 /\ Idle /\ Live(v) /\ Live(w) /\ len[w] = 0 /\ Deallocates(buf[w])
          /\ Consumed(w) /\ Done /\ UNCHANGED <<buf, len>>
      BY <1>1 DEF ExtendEmpty, MayExtend
    <2>2. chunks' \in 0 .. Others
      BY <2>1, DoneTypes DEF IInv
    <2>3. IInv' /\ OthersSame({w}) /\ w \in Owned /\ w \notin Owned'
      BY <2>1, <2>2, Released
    <2>4. v \in Owned /\ v \in Owned' /\ Held(v)' = Held(v)
      BY <2>1, <2>3 DEF OthersSame, Live, Owned
    <2>5. Held(w) = <<>> /\ Held(v) \in Seq(Tokens)
      <3>1. Held(w) = Content(memory, buf[w], 0)
        BY <2>1 DEF Held
      <3>. QED  BY <2>4, <3>1, SeqsHeld DEF Content
    <2>6. Joins(v, w) /\ OthersSame({v, w})
      <3>1. Held(v) \o <<>> = Held(v)
        <4> DEFINE s == Held(v)
        <4>. HIDE DEF s
        <4>1. s \in Seq(Tokens) => s \o <<>> = s
          OBVIOUS
        <4>. QED  BY <2>5, <4>1 DEF s
      <3>2. Held(v)' = Held(v) \o Held(w)
        BY <2>4, <2>5, <3>1
      <3>. QED  BY <2>3, <2>4, <3>2 DEF Joins, OthersSame
    <2>7. Contract!Extend(v, w)
      BY <2>3, <2>6, IsExtend
    <2>. QED  BY <2>3, <2>7 DEF Lawful, Contract!Next
  <1>2. CASE TakeApart(v, w)
    BY <1>2, TakeApartInv, IsStutter DEF Lawful
  <1>3. CASE MovePages(v, w)
    BY <1>3, MovePagesInv, IsExtend DEF Lawful, Contract!Next
  <1>4. CASE MoveRefused(v, w) \/ MoveElements(v, w)
    <2>1. /\ v = 0 /\ w # 0 /\ Live(0) /\ w \in Owned /\ Appends(0, w)
          /\ \A u \in Vecs \ {w} : stage[u] # "raw"
      <3>1. CASE MoveRefused(v, w)
        BY <3>1 DEF MoveRefused, IInv, StagesOK, Owned
      <3>2. CASE MoveElements(v, w)
        BY <3>2 DEF MoveElements, MayExtend, Idle, Live, Owned
      <3>. QED  BY <1>4, <3>1, <3>2
    <2>2. IInv' /\ OthersSame({0, w}) /\ Joins(0, w) /\ 0 \in Vecs
      BY <2>1, AppendsInv
    <2>3. Contract!Extend(0, w)
      BY <2>2, IsExtend
    <2>. QED  BY <2>2, <2>3 DEF Lawful, Contract!Next
  <1>. QED  BY <1>1, <1>2, <1>3, <1>4 DEF Extend

LEMMA StepLawful ==
    ASSUME IInv, [Next]_vars
    PROVE  Lawful
  <1>1. CASE \E v, w \in Vecs : v # w /\ Extend(v, w)
    BY <1>1, ExtendLawful
  <1>2. CASE FromChunks
    <2>1. Contract!Create(0)
      BY <1>2, FromChunksInv, IsCreate
    <2>. QED  BY <1>2, <2>1, FromChunksInv DEF Lawful, Contract!Next
  <1>3. CASE FromNothing
    <2>1. Contract!CreateEmpty(0)
      BY <1>3, FromNothingInv, IsCreateEmpty
    <2>. QED  BY <1>3, <2>1, FromNothingInv DEF Lawful, Contract!Next
  <1>4. CASE \E v \in Vecs : DropVec(v)
    <2>1. PICK v \in Vecs : DropVec(v)
      BY <1>4
    <2>2. IInv' /\ OthersSame({v}) /\ v \in Owned /\ v \notin Owned'
      BY <2>1, Released DEF DropVec, IInv, TypeOK
    <2>3. Contract!Drop(v)
      BY <2>2, IsDrop
    <2>. QED  BY <2>2, <2>3 DEF Lawful, Contract!Next
  <1>5. CASE AllGone \/ UNCHANGED vars
    <2>1. UNCHANGED <<mapping, memory, buf, len, stage, chunks>>
      BY <1>5 DEF AllGone, vars
    <2>2. Owned' = Owned /\ \A v \in Vecs : Held(v)' = Held(v)
      BY <2>1 DEF Owned, Held
    <2>3. IInv'
      <3>1. TypeOK'
        BY <2>1 DEF IInv, TypeOK, Live
      <3>2. Ownership'
        BY <2>1, <2>2 DEF IInv, Ownership, BuffersApart, ConsumedEntirely, Unowned, Lost
      <3>3. StagesOK'
        <4>1. \A v, w \in Vecs : PagesFit(v, w) => PagesFit(v, w)'
          BY <2>1 DEF PagesFit, Room, Bytes
        <4>2. 0 \in Vecs
          BY OthersAssumption DEF Vecs
        <4>. QED  BY <2>1, <4>1, <4>2 DEF IInv, StagesOK, Live
      <3>4. \A v \in Vecs : VecOK(v)'
        BY <2>1, <2>2 DEF IInv, VecOK, InKind, Covers
      <3>. QED  BY <3>1, <3>2, <3>3, <3>4 DEF IInv
    <2>4. Seqs' = Seqs
      BY <2>2, <2>3, IsStutter DEF OthersSame
    <2>. QED  BY <2>3, <2>4 DEF Lawful
  <1>. QED  BY <1>1, <1>2, <1>3, <1>4, <1>5 DEF Next

-----------------------------------------------------------------------------
(* The start *)

\* The addresses between one buffer and the next.
Cell(v) == v * Gap .. v * Gap + Gap - 1

LEMMA Cells ==
    ASSUME NEW v \in Vecs
    PROVE  /\ v * Gap \in Nat /\ v * Gap \in Cell(v) /\ Cell(v) \subseteq Addresses
           /\ \A x \in Cell(v) : x + 1 \in Tokens
           /\ \A w \in Vecs : w # v => Cell(v) \cap Cell(w) = {}
  <1>1. v \in Nat /\ v <= Others /\ Gap \in Nat \ {0} /\ Others \in Nat
    BY OthersAssumption, GapAssumption DEF Vecs
  <1>2. v * Gap \in Nat /\ v * Gap + Gap <= (Others + 1) * Gap
    <2>1. (v + 1) * Gap <= (Others + 1) * Gap
      BY <1>1, MultiplesOrdered
    <2>2. (v + 1) * Gap = v * Gap + Gap /\ v * Gap \in Nat
      BY <1>1, SMT
    <2>. QED  BY <2>1, <2>2
  <1>3. v * Gap + Gap <= Top /\ v * Gap + Gap <= MaxTokens
    <2>1. (Others + 1) * Gap \in Nat
      BY <1>1, SMT
    <2>. QED  BY <1>1, <1>2, <2>1, GapAssumption, TopAssumption, MaxTokensAssumption
  <1>4. ASSUME NEW w \in Vecs, NEW x \in Cell(v), x \in Cell(w)
        PROVE  w = v
    <2>1. w \in Nat /\ w * Gap \in Nat
      BY <1>1, SMT DEF Vecs
    <2>2. v * Gap < w * Gap + Gap /\ w * Gap < v * Gap + Gap
      BY <1>1, <1>2, <1>4, <2>1 DEF Cell
    <2>3. v <= w /\ w <= v
      BY <1>1, <2>1, <2>2, NoMultipleBetween
    <2>. QED  BY <1>1, <2>1, <2>3
  <1>5. Cell(v) \subseteq Addresses /\ \A x \in Cell(v) : x + 1 \in Tokens
    BY <1>1, <1>2, <1>3, TopAssumption, MaxTokensAssumption DEF Cell, Addresses, Tokens
  <1>6. v * Gap \in Cell(v)
    BY <1>1, <1>2 DEF Cell
  <1>. QED  BY <1>2, <1>4, <1>5, <1>6

\* Each vector lies in its cell.
Placed(v) ==
    /\ buf[v] \in [at : Addresses, elem : {ElemSize}, cap : Nat] /\ BufferOK(buf[v])
    /\ buf[v].at = v * Gap /\ len[v] \in 0 .. buf[v].cap
    /\ Extents(buf[v]) \subseteq Cell(v)
    /\ Extent(buf[v].at, len[v] * ElemSize) \subseteq Extents(buf[v])

LEMMA PlacedInCell ==
    ASSUME NEW v \in Vecs, NEW c \in Nat, NEW n \in 0 .. c, BlockSize(c * ElemSize) <= Gap
    PROVE  LET b == Buffer(v * Gap, ElemSize, c)
           IN /\ b \in [at : Addresses, elem : {ElemSize}, cap : Nat] /\ BufferOK(b)
              /\ b.at = v * Gap /\ n \in 0 .. b.cap
              /\ Extents(b) \subseteq Cell(v)
              /\ Extent(b.at, n * ElemSize) \subseteq Extents(b)
  <1> DEFINE b == Buffer(v * Gap, ElemSize, c)
  <1>1. v * Gap \in Addresses /\ v * Gap \in Nat /\ Gap \in Nat
    BY Cells, GapAssumption
  <1>2. /\ BufferOK(b) /\ b.at = v * Gap /\ b.cap = c /\ b.elem = ElemSize
        /\ b \in [at : Addresses, elem : {ElemSize}, cap : Nat]
    BY <1>1, BufferFacts DEF Buffer
  <1>. HIDE DEF b
  <1>3. Extents(b) \subseteq Cell(v)
    <2>1. BlockSize(CapBytes(b)) \in Nat /\ BlockSize(CapBytes(b)) <= Gap
      BY <1>2 DEF BufferOK
    <2>. QED  BY <1>1, <1>2, <2>1 DEF Extents, Extent, Cell
  <1>4. Extent(b.at, n * ElemSize) \subseteq Extents(b)
    BY <1>2, Inside
  <1>. QED  BY <1>2, <1>3, <1>4 DEF b

LEMMA Start ==
    ASSUME Init
    PROVE  /\ \A v \in Vecs : Placed(v)
           /\ \A v \in Vecs : \/ stage[v] = "live"
                              \/ v = 0 /\ stage[v] = "none" /\ buf[v] = NoBuffer /\ len[v] = 0
           /\ buf \in [Vecs -> [at : Addresses, elem : {ElemSize}, cap : Nat]]
           /\ len \in [Vecs -> Nat] /\ stage \in [Vecs -> {"none", "live"}] /\ chunks = 0
           /\ mapping = [x \in Addresses |->
                  IF Owner(x) = {} THEN "none"
                  ELSE IF uses_mmap(CapBytes(buf[CHOOSE v \in Owner(x) : TRUE]))
                       THEN "pages" ELSE "heap"]
           /\ memory = [x \in Addresses |->
                  IF Filled(x) = {} THEN Junk
                  ELSE LET v == CHOOSE u \in Filled(x) : TRUE
                           k == (x - buf[v].at) % ElemSize
                       IN <<x - k + 1, k>>]
  <1>1. PICK shape \in {f \in [Vecs -> SelfShapes \cup OtherShapes] :
                           f[0] \in SelfShapes /\ \A w \in Vecs \ {0} : f[w] \in OtherShapes},
             fresh \in BOOLEAN :
          /\ buf = [v \in Vecs |-> IF v = 0 /\ fresh THEN NoBuffer
                                   ELSE Buffer(v * Gap, ElemSize, shape[v][1])]
          /\ len = [v \in Vecs |-> IF v = 0 /\ fresh THEN 0 ELSE shape[v][2]]
          /\ stage = [v \in Vecs |-> IF v = 0 /\ fresh THEN "none" ELSE "live"]
    BY DEF Init
  <1>2. ASSUME NEW v \in Vecs
        PROVE  /\ Placed(v)
               /\ \/ stage[v] = "live"
                  \/ v = 0 /\ stage[v] = "none" /\ buf[v] = NoBuffer /\ len[v] = 0
               /\ len[v] \in Nat
    <2>1. CASE v = 0 /\ fresh
      <3>1. buf[v] = Buffer(v * Gap, ElemSize, 0) /\ len[v] = 0 /\ buf[v] = NoBuffer
        BY <1>1, <2>1, GapAssumption DEF NoBuffer
      <3>2. BlockSize(0 * ElemSize) <= Gap
        <4>1. 0 * ElemSize = 0
          BY ElemSizeAssumption
        <4>2. BlockSize(0) = 0
          BY HugePageAssumption DEF BlockSize, uses_mmap
        <4>. QED  BY <4>1, <4>2, GapAssumption
      <3>3. 0 \in Nat /\ 0 \in 0 .. 0
        OBVIOUS
      <3>4. Placed(v)
        BY <3>1, <3>2, <3>3, PlacedInCell DEF Placed
      <3>. QED  BY <1>1, <2>1, <3>1, <3>4
    <2>2. CASE ~(v = 0 /\ fresh)
      <3>1. /\ shape[v] \in Nat \X Nat
            /\ shape[v][2] <= shape[v][1] /\ BlockSize(shape[v][1] * ElemSize) <= Gap
        BY ShapesAssumption
      <3>2. shape[v][1] \in Nat /\ shape[v][2] \in 0 .. shape[v][1]
        BY <3>1
      <3>3. buf[v] = Buffer(v * Gap, ElemSize, shape[v][1]) /\ len[v] = shape[v][2]
        BY <1>1, <2>2
      <3>4. Placed(v)
        BY <3>1, <3>2, <3>3, PlacedInCell DEF Placed
      <3>. QED  BY <1>1, <2>2, <3>2, <3>3, <3>4
    <2>. QED  BY <2>1, <2>2
  <1>3. /\ buf \in [Vecs -> [at : Addresses, elem : {ElemSize}, cap : Nat]]
        /\ len \in [Vecs -> Nat] /\ stage \in [Vecs -> {"none", "live"}]
    BY <1>1, <1>2 DEF Placed
  <1>. QED  BY <1>2, <1>3 DEF Init

\* The elements of a vector at the start: the addresses where they begin.
Named(v) == [i \in 1 .. len[v] |-> v * Gap + (i - 1) * ElemSize + 1]

LEMMA NamedInCell ==
    ASSUME NEW v \in Vecs, Placed(v)
    PROVE  /\ Named(v) \in Seq(Tokens) /\ Len(Named(v)) = len[v]
           /\ \A i \in 1 .. len[v] : (i - 1) * ElemSize \in Nat /\ v * Gap + (i - 1) * ElemSize \in Cell(v)
  <1> DEFINE n == len[v]
             a == v * Gap
  <1>1. a \in Nat /\ n \in Nat /\ ElemSize \in Nat \ {0} /\ Extent(a, n * ElemSize) \subseteq Cell(v)
    BY Cells, ElemSizeAssumption DEF Placed, BufferOK
  <1>2. ASSUME NEW i \in 1 .. n
        PROVE  /\ (i - 1) * ElemSize \in Nat /\ a + (i - 1) * ElemSize \in Cell(v)
               /\ a + (i - 1) * ElemSize + 1 \in Tokens
    <2>. HIDE DEF a, n
    <2>1. i \in Int /\ i - 1 \in Nat
      BY <1>1
    <2>2. (i - 1) * ElemSize \in Nat
      BY <1>1, <2>1, SMT
    <2>3. n * ElemSize \in Nat /\ (i - 1) * ElemSize + ElemSize <= n * ElemSize
      <3>1. i * ElemSize <= n * ElemSize
        BY <1>1, <2>1, MultiplesOrdered
      <3>2. i * ElemSize = (i - 1) * ElemSize + ElemSize /\ n * ElemSize \in Nat
        BY <1>1, <2>1, SMT
      <3>. QED  BY <3>1, <3>2
    <2>4. a + (i - 1) * ElemSize \in Extent(a, n * ElemSize)
      BY <1>1, <2>2, <2>3 DEF Extent
    <2>5. a + (i - 1) * ElemSize \in Cell(v)
      BY <1>1, <2>4
    <2>. QED  BY <2>2, <2>5, Cells
  <1>3. Named(v) \in Seq(Tokens) /\ Len(Named(v)) = n
    <2> DEFINE f(i) == a + (i - 1) * ElemSize + 1
    <2>1. Named(v) = [i \in 1 .. n |-> f(i)]
      BY DEF Named
    <2>2. \A i \in 1 .. n : f(i) \in Tokens
      BY <1>2
    <2>. HIDE DEF a, n, f
    <2>. QED  BY <1>1, <2>1, <2>2
  <1>. QED  BY <1>2, <1>3

\* At the start each vector owns the bytes of its block, and its elements are
\* whole.
LEMMA StartMemory ==
    ASSUME Init, NEW v \in Vecs
    PROVE  /\ ~GiantPages => InKind(v)
           /\ Held(v) = Named(v)
  <1>1. Placed(v) /\ Cell(v) \subseteq Addresses
    BY Start, Cells
  <1>2. ASSUME NEW x \in Cell(v), NEW w \in Vecs, w # v
        PROVE  x \notin Extents(buf[w]) /\ x \notin Extent(buf[w].at, len[w] * ElemSize)
    BY <1>2, Start, Cells DEF Placed
  <1>3. ASSUME NEW x \in Extents(buf[v])
        PROVE  x \in Addresses /\ (~GiantPages => mapping[x] = KindOf(CapBytes(buf[v])))
    <2>1. x \in Cell(v) /\ x \in Addresses
      BY <1>1 DEF Placed
    <2>2. Owner(x) = {v}
      BY <1>2, <2>1 DEF Owner
    <2>3. (CHOOSE u \in Owner(x) : TRUE) = v
      BY <2>2
    <2>. QED  BY <2>1, <2>2, <2>3, Start, Ordinary
  <1>4. ~GiantPages => InKind(v)
    BY <1>3 DEF InKind, Covers, Extents
  <1> DEFINE a == v * Gap
             n == len[v]
             s == Named(v)
  <1>5. /\ a \in Nat /\ n \in Nat /\ ElemSize \in Nat \ {0} /\ buf[v].at = a /\ buf[v].elem = ElemSize
        /\ s \in Seq(Tokens) /\ Len(s) = n
    BY <1>1, Cells, NamedInCell DEF Placed, BufferOK
  <1>6. ASSUME NEW o \in 0 .. n * ElemSize - 1
        PROVE  memory[a + o] = ByteOf(s, ElemSize, o)
    <2> DEFINE x == a + o
               q == o \div ElemSize
               k == o % ElemSize
    <2>1. q \in 0 .. n - 1 /\ k \in 0 .. ElemSize - 1 /\ o = q * ElemSize + k /\ o \in Nat
      <3>1. n * ElemSize \in Nat
        BY <1>5, SMT
      <3>2. o \in Nat
        BY <3>1
      <3>. HIDE DEF n
      <3>. QED  BY <1>5, <3>2, ElementOfByte
    <2>2. x \in Extent(a, n * ElemSize)
      <3> DEFINE m == n * ElemSize
      <3>1. m \in Nat
        BY <1>5, SMT
      <3>2. o \in 0 .. m - 1
        OBVIOUS
      <3>. HIDE DEF m, a
      <3>3. a + o \in Extent(a, m)
        BY <1>5, <3>1, <3>2 DEF Extent
      <3>. QED  BY <3>3 DEF m, a
    <2>3. x \in Cell(v) /\ x \in Addresses
      BY <1>1, <1>5, <2>2 DEF Placed
    <2>4. Filled(x) = {v}
      BY <1>2, <1>5, <2>2, <2>3 DEF Filled
    <2>5. (CHOOSE u \in Filled(x) : TRUE) = v
      BY <2>4
    <2>6. memory[x] = <<x - ((x - buf[v].at) % ElemSize) + 1, (x - buf[v].at) % ElemSize>>
      <3>. HIDE DEF x
      <3>1. Filled(x) # {}
        BY <2>4
      <3>. QED  BY <2>3, <2>5, <3>1, Start
    <2>7. x - buf[v].at = o /\ x \in Nat
      <3>. HIDE DEF a
      <3>. QED  BY <1>5, <2>1
    <2>8. memory[x] = <<x - k + 1, k>>
      BY <2>6, <2>7
    <2>9. s[q + 1] = x - k + 1
      <3>. HIDE DEF q, k
      <3>1. q + 1 \in 1 .. n /\ (q + 1) - 1 = q
        BY <1>5, <2>1
      <3>2. s[q + 1] = a + q * ElemSize + 1
        BY <3>1 DEF Named
      <3>3. q * ElemSize \in Nat
        BY <1>5, <2>1, SMT
      <3>. QED  BY <1>5, <2>1, <3>2, <3>3
    <2>. QED  BY <2>8, <2>9 DEF ByteOf
  <1>7. Held(v) = s
    <2> DEFINE b == buf[v]
    <2>1. /\ Spelled(memory, b.at, b.elem, s, 0, Len(s) * b.elem)
          /\ b.at \in Int /\ b.elem \in Nat \ {0}
      BY <1>5, <1>6 DEF Spelled
    <2>. HIDE DEF b, s
    <2>2. Content(memory, b, Len(s)) = s
      BY <1>5, <2>1, SpelledContent
    <2>. QED  BY <1>5, <2>2 DEF Held, b
  <1>. QED  BY <1>4, <1>7

LEMMA InitInv ==
    ASSUME Init
    PROVE  IInv /\ Contract!Init
  <1>1. \A v \in Vecs : Placed(v) /\ Cell(v) \subseteq Addresses
    BY Start, Cells
  <1>2. \A v \in Vecs : VecOK(v)
    BY <1>1, StartMemory, NamedInCell DEF VecOK, Placed
  <1>3. \A v \in Vecs : Ext(v) = Extents(buf[v])
    BY Start, EmptyBlock DEF Ext, Owned
  <1>4. Exact
    <2>1. ASSUME NEW x \in Addresses
          PROVE  mapping[x] \notin Unowned <=> \E v \in Vecs : x \in Extents(buf[v])
      BY Start DEF Owner, Unowned
    <2>2. \A v \in Vecs : Extents(buf[v]) \subseteq Addresses
      BY <1>1 DEF Placed
    <2>3. \A v, w \in Vecs : v # w => Extents(buf[v]) \cap Extents(buf[w]) = {}
      BY <1>1, Cells DEF Placed
    <2>. QED  BY <1>3, <2>1, <2>2, <2>3 DEF Exact
  <1>5. StagesOK
    BY Start, OthersAssumption DEF StagesOK, Vecs
  <1>6. TypeOK
    <2>1. mapping \in [Addresses -> Kinds]
      BY Start DEF Kinds
    <2>2. ASSUME NEW x \in Addresses
          PROVE  memory[x] \in Values
      <3>1. CASE \A v \in Vecs : x \notin Extents(buf[v])
        <4>1. Filled(x) = {}
          BY <1>1, <3>1 DEF Filled, Placed
        <4>. QED  BY <4>1, Start DEF Values
      <3>2. CASE Filled(x) = {}
        BY <3>2, Start DEF Values
      <3>3. CASE Filled(x) # {}
        <4>1. PICK v \in Vecs : x \in Extent(buf[v].at, len[v] * ElemSize)
          BY <3>3 DEF Filled
        <4>2. /\ Held(v) \in Seq(Tokens) /\ Placed(v)
              /\ buf[v].at \in Int /\ len[v] \in Nat
          <5>1. Held(v) \in Seq(Tokens) /\ Placed(v)
            BY <1>1, StartMemory, NamedInCell
          <5>. QED  BY <5>1, Start DEF Placed, BufferOK
        <4> DEFINE o == x - buf[v].at
                   n == len[v]
                   b == buf[v]
        <4>3. /\ b.at \in Int /\ b.elem = ElemSize /\ b.elem \in Nat \ {0} /\ n \in Nat
              /\ Content(memory, b, n) \in Seq(Tokens)
          BY <4>2 DEF Placed, BufferOK, Held
        <4>4. n * ElemSize \in Nat /\ o \in 0 .. n * ElemSize - 1 /\ b.at + o = x
          <5> DEFINE m == n * ElemSize
                     at == b.at
          <5>1. m \in Nat /\ at \in Int
            BY <4>3, SMT
          <5>2. x \in Extent(at, m)
            BY <4>1
          <5>. HIDE DEF m, at
          <5>3. x - at \in 0 .. m - 1 /\ at + (x - at) = x
            BY <5>1, <5>2 DEF Extent
          <5>. QED  BY <5>1, <5>3 DEF m, at
        <4>. HIDE DEF n, b, o
        <4>5. /\ Len(Content(memory, b, n)) = n
              /\ Spelled(memory, b.at, b.elem, Content(memory, b, n), 0, n * b.elem)
          BY <4>3, ContentSpelled
        <4>6. memory[x] = ByteOf(Content(memory, b, n), ElemSize, o)
          BY <4>3, <4>4, <4>5 DEF Spelled
        <4>7. o \div ElemSize \in 0 .. n - 1 /\ o % ElemSize \in 0 .. ElemSize - 1
          BY <4>3, <4>4, ElementOfByte
        <4>8. Content(memory, b, n)[o \div ElemSize + 1] \in Tokens
          <5>1. o \div ElemSize + 1 \in 1 .. n
            BY <4>3, <4>7
          <5>. QED  BY <4>3, <4>5, <5>1
        <4>9. o % ElemSize \in Nat
          BY <4>3, <4>7
        <4>. QED  BY <4>6, <4>8, <4>9 DEF ByteOf, Values
      <3>. QED  BY <3>2, <3>3
    <2>3. memory \in [Addresses -> Values]
      BY <2>2, Start
    <2>4. chunks \in 0 .. Others
      BY Start, OthersAssumption
    <2>5. \A v \in Vecs : len[v] <= buf[v].cap
      BY <1>1 DEF Placed, BufferOK
    <2>6. stage \in [Vecs -> {"none", "live", "raw", "gone"}]
      BY Start
    <2>. QED  BY <2>1, <2>3, <2>4, <2>5, <2>6, Start DEF TypeOK, Values
  <1>7. IInv
    BY <1>2, <1>4, <1>5, <1>6, ExactIsOwned DEF IInv
  <1>8. Contract!Init
    <2>1. \A u \in Vecs : Contract!Exists(u) => Seqs[u] = Named(u)
      BY <1>7, SeqsHeld, StartMemory
    <2>2. ASSUME NEW v \in Vecs, NEW w \in Vecs,
                 NEW i \in 1 .. Len(Named(v)), NEW j \in 1 .. Len(Named(w)), Named(v)[i] = Named(w)[j]
          PROVE  v = w /\ i = j
      <3> DEFINE p == (i - 1) * ElemSize
                 q == (j - 1) * ElemSize
      <3>1. /\ i \in 1 .. len[v] /\ j \in 1 .. len[w] /\ i \in Int /\ j \in Int
            /\ p \in Nat /\ q \in Nat /\ v * Gap \in Nat /\ w * Gap \in Nat
            /\ v * Gap + p \in Cell(v) /\ w * Gap + q \in Cell(w)
        <4>1. /\ Len(Named(v)) = len[v] /\ Len(Named(w)) = len[w]
              /\ v * Gap \in Nat /\ w * Gap \in Nat
          BY <1>1, NamedInCell, Cells
        <4>2. i \in 1 .. len[v] /\ j \in 1 .. len[w] /\ len[v] \in Nat /\ len[w] \in Nat
          BY <4>1, Start
        <4>3. p \in Nat /\ v * Gap + p \in Cell(v)
          BY <1>1, <4>2, NamedInCell
        <4>4. q \in Nat /\ w * Gap + q \in Cell(w)
          BY <1>1, <4>2, NamedInCell
        <4>. QED  BY <4>1, <4>2, <4>3, <4>4
      <3>2. Named(v)[i] = v * Gap + p + 1 /\ Named(w)[j] = w * Gap + q + 1
        BY <3>1 DEF Named
      <3>. HIDE DEF p, q
      <3>3. v * Gap + p = w * Gap + q
        <4> DEFINE a == v * Gap
                   b == w * Gap
        <4>1. a + p + 1 = b + q + 1 /\ a \in Nat /\ b \in Nat
          BY <2>2, <3>1, <3>2
        <4>. HIDE DEF a, b
        <4>2. a + p = b + q
          BY <3>1, <4>1
        <4>. QED  BY <4>2 DEF a, b
      <3>4. v = w
        BY <3>1, <3>3, Cells
      <3>5. p = q
        BY <3>1, <3>3, <3>4
      <3>6. i - 1 <= j - 1 /\ j - 1 <= i - 1
        <4>1. i - 1 \in Int /\ j - 1 \in Int /\ ElemSize \in Nat \ {0}
          BY <3>1, ElemSizeAssumption
        <4>2. p < q + ElemSize /\ q < p + ElemSize
          BY <3>1, <3>5, <4>1
        <4>. QED  BY <4>1, <4>2, NoMultipleBetween DEF p, q
      <3>7. i = j
        BY <3>1, <3>6
      <3>. QED  BY <3>4, <3>7
    <2>. QED  BY <2>1, <2>2 DEF Contract!Init, Contract!Exists, Seqs
  <1>. QED  BY <1>7, <1>8

-----------------------------------------------------------------------------
(* The theorems *)

LEMMA Invariance == Spec => []IInv
  <1>1. Init => IInv
    BY InitInv
  <1>2. IInv /\ [Next]_vars => IInv'
    BY StepLawful DEF Lawful
  <1>. QED  BY <1>1, <1>2, PTL DEF Spec

\* Types: no vector grows beyond its capacity, whichever path extend_from_vec64
\* (1055) and from_chunks (521) take.
THEOREM AppendTypes == Spec => []TypeOK
  <1>1. IInv => TypeOK
    BY DEF IInv
  <1>. QED  BY <1>1, Invariance, PTL

\* No byte of a buffer is unmapped under its vector, released twice or given to
\* another one, on any path and also when a mapping is rounded up to 1 GB.
THEOREM AppendKeepsApart == Spec => []BuffersApart
  <1>1. IInv => BuffersApart
    BY DEF IInv, Ownership
  <1>. QED  BY <1>1, Invariance, PTL

\* Each mapped byte belongs to the buffer of a vector: moving pages into the spare
\* capacity (try_mremap_append) leaves none of them behind without an owner.
THEOREM AppendConsumesEntirely ==
    ASSUME ~GiantPages
    PROVE  Spec => []ConsumedEntirely
  <1>1. IInv => ConsumedEntirely
    BY DEF IInv, Ownership
  <1>. QED  BY <1>1, Invariance, PTL

\* By pages, by elements, or after the kernel has refused half way: the elements
\* of the consumed vector follow those of the destination, whole and in order.
THEOREM AppendKeepsContract == Spec => Concatenates
  <1>1. Init => Contract!Init
    BY InitInv
  <1>2. IInv /\ [Next]_vars => [Contract!Next]_Seqs
    BY StepLawful DEF Lawful
  <1>3. [Contract!Next]_Seqs <=> [Contract!Next]_[v \in Vecs |->
            IF v \in Owned THEN Elements(buf[v], 0, len[v]) ELSE NoVec]
    BY DEF Seqs
  <1>. QED  BY <1>1, <1>2, <1>3, Invariance, PTL DEF Spec, Concatenates, Contract!Spec

=============================================================================
