------------------------- MODULE Vec64Splice_proof -------------------------
(***************************************************************************)
(* delete_range by moving pages, for any page and element sizes, any       *)
(* capacity and number of elements: the buffer keeps its extent, nobody    *)
(* else's memory is touched, no element is dropped twice, and the whole    *)
(* is a deletion on sequences.                                             *)
(*                                                                         *)
(* The argument is about bytes, not elements, since pages cut elements     *)
(* apart: Spelled says which bytes of a sequence lie where.  First what    *)
(* the operators of the model do to bytes, then the lengths of             *)
(* try_mremap_splice, then the invariant: who provides which addresses     *)
(* (RegionsOK), what delete_range has been asked and has found out         *)
(* (CallOK), and where the bytes of the elements are (ContentOK).  There   *)
(* is a lemma for each action, which also says what the step does to the   *)
(* elements (Stutters, Finishes, Removes, Begins, Pushes); these are the   *)
(* steps of the contract.                                                  *)
(***************************************************************************)
EXTENDS Vec64Splice, Vec64Buffer_proof

-----------------------------------------------------------------------------
(* Elements that are cut out *)

Memories == [Addresses -> Bytes]

\* s without its elements lo .. hi-1, counted from 0.
Cut(s, lo, hi) ==
    [i \in 1 .. Len(s) - (hi - lo) |-> IF i <= lo THEN s[i] ELSE s[i + (hi - lo)]]

\* Which bytes remain when elements are cut out.
CutsBytes(s, e, lo, hi) ==
    /\ \A o \in 0 .. lo * e - 1 : ByteOf(Cut(s, lo, hi), e, o) = ByteOf(s, e, o)
    /\ \A o \in hi * e .. Len(s) * e - 1 :
          ByteOf(Cut(s, lo, hi), e, o - (hi * e - lo * e)) = ByteOf(s, e, o)

LEMMA CutBytes ==
    ASSUME NEW s \in Seq(Tokens), NEW e \in Nat \ {0}, NEW lo \in Nat, NEW hi \in Nat,
           lo <= hi, hi <= Len(s)
    PROVE  /\ Cut(s, lo, hi) \in Seq(Tokens) /\ Len(Cut(s, lo, hi)) = Len(s) - (hi - lo)
           /\ CutsBytes(s, e, lo, hi)
  <1>1. Cut(s, lo, hi) \in Seq(Tokens) /\ Len(Cut(s, lo, hi)) = Len(s) - (hi - lo)
    BY DEF Cut
  <1>2. ASSUME NEW o \in 0 .. lo * e - 1
        PROVE  ByteOf(Cut(s, lo, hi), e, o) = ByteOf(s, e, o)
    <2> DEFINE i == o \div e
    <2>1. i \in 0 .. lo - 1
      BY ElementOfByte
    <2>. HIDE DEF i
    <2>2. Cut(s, lo, hi)[i + 1] = s[i + 1]
      <3>1. i + 1 \in 1 .. Len(s) - (hi - lo) /\ i + 1 <= lo
        BY <2>1
      <3>. QED  BY <3>1 DEF Cut
    <2>. QED  BY <2>2 DEF ByteOf, i
  <1>3. ASSUME NEW o \in hi * e .. Len(s) * e - 1
        PROVE  ByteOf(Cut(s, lo, hi), e, o - (hi * e - lo * e)) = ByteOf(s, e, o)
    <2> DEFINE i == o \div e
               k == o % e
               j == i - (hi - lo)
    <2>1. hi * e \in Nat /\ lo * e \in Nat /\ Len(s) \in Nat
      BY SMT
    <2>2. i \in 0 .. Len(s) - 1 /\ k \in 0 .. e - 1 /\ o = i * e + k
      <3>1. o \in 0 .. Len(s) * e - 1
        BY <2>1
      <3>. HIDE DEF i, k
      <3>2. /\ o \div e \in 0 .. Len(s) - 1 /\ o % e \in 0 .. e - 1
            /\ o = (o \div e) * e + (o % e)
        BY <2>1, <3>1, ElementOfByte
      <3>. QED  BY <3>2 DEF i, k
    <2>3. hi <= i
      <3>. HIDE DEF i, k
      <3>1. hi * e < i * e + e
        <4>1. o >= hi * e /\ o \in Int /\ i * e \in Int
          BY <2>1, <2>2
        <4>. QED  BY <2>1, <2>2, <4>1
      <3>. QED  BY <2>2, <3>1, NoMultipleBetween
    <2>. HIDE DEF i, k
    <2>4. j \in Nat /\ j >= lo /\ j + (hi - lo) = i
      BY <2>2, <2>3
    <2>5. o - (hi * e - lo * e) = j * e + k
      BY <2>2, <2>4
    <2>. HIDE DEF j
    <2>6. (j * e + k) \div e = j /\ (j * e + k) % e = k
      BY <2>2, <2>4, ByteOfElement
    <2>7. Cut(s, lo, hi)[j + 1] = s[i + 1]
      BY <2>2, <2>4 DEF Cut
    <2>. QED  BY <2>5, <2>6, <2>7 DEF ByteOf, i, k
  <1>. QED  BY <1>1, <1>2, <1>3 DEF CutsBytes

-----------------------------------------------------------------------------
(* The lengths of try_mremap_splice *)

\* What SpliceBegin has checked of its arguments.
DeletionOK ==
    /\ buf.elem \in Nat \ {0} /\ buf.cap \in Nat
    /\ del.start \in Nat /\ del.end \in Nat /\ del.length \in Nat
    /\ del.start < del.end /\ del.end < del.length /\ del.length <= buf.cap
    /\ FitsPages(del.start, del.end)

BufferBytes == BlockSize(CapBytes(buf))

LengthsOK ==
    /\ byte_start \in Nat /\ byte_end \in Nat /\ byte_len \in Nat /\ seam \in Nat
    /\ byte_start < byte_end /\ byte_end < byte_len /\ byte_len <= BufferBytes
    /\ BufferBytes \in Nat
    /\ new_len \in Nat /\ del.start <= new_len /\ new_len <= buf.cap
    /\ new_len = del.length - (del.end - del.start)
    /\ new_len * buf.elem = byte_len - (byte_end - byte_start)
    /\ splice_dst = byte_start + seam /\ splice_src = byte_end + seam
    /\ splice_dst < splice_src
    /\ tail_total = byte_len - byte_end
    /\ tail_bytes = byte_len - splice_src
    /\ splice_dst + tail_bytes = new_len * buf.elem
    /\ used \in Nat /\ new_len * buf.elem <= used
    /\ mapped_end \in Nat /\ mapped_end <= BufferBytes
    /\ tail_bytes > 0 => /\ tail_mapped \in Nat /\ tail_bytes <= tail_mapped
                         /\ splice_src + tail_mapped <= BufferBytes

\* What is aligned is a number of pages.
LEMMA AlignedPages ==
    ASSUME NEW n \in Nat, Aligned(n)
    PROVE  \E k \in Nat : n = k * Page
  <1>1. n = (n \div Page) * Page /\ n \div Page \in Nat
    BY PageAssumption, MultipleIfNoRemainder, DivBounds DEF Aligned
  <1>. QED  BY <1>1

\* A mapped block is a whole number of pages.
LEMMA MappedPages ==
    ASSUME NEW n \in Nat
    PROVE  \E k \in Nat : mapped_size(n) = k * Page
  <1>1. PICK h \in Nat : HugePage = h * Page
    <2>1. HugePage \in Nat /\ Aligned(HugePage)
      BY HugePageAssumption, PageAssumption DEF Aligned
    <2>. QED  BY <2>1, AlignedPages
  <1>2. PICK g \in Nat : GiganticPage = g * HugePage
    BY GiganticIsMultiple
  <1>3. ASSUME NEW k \in Nat, NEW m \in Nat, NEW p \in Nat, p = m * Page
        PROVE  \E j \in Nat : k * p = j * Page
    <2>1. k * m \in Nat /\ k * p = (k * m) * Page
      BY <1>3, PageAssumption, SMT
    <2>. QED  BY <2>1
  <1>4. \E m \in Nat : GiganticPage = m * Page
    BY <1>1, <1>2, <1>3, HugePageAssumption
  <1>5. CASE uses_giant_pages(n)
    <2>1. PICK k \in Nat : RoundUp(n, GiganticPage) = k * GiganticPage
      BY RoundUpBounds, GiganticPageAssumption
    <2>2. PICK m \in Nat : GiganticPage = m * Page
      BY <1>4
    <2>3. \E j \in Nat : k * GiganticPage = j * Page
      BY <1>3, <2>2, GiganticPageAssumption
    <2>. QED  BY <1>5, <2>1, <2>3 DEF mapped_size
  <1>6. CASE ~uses_giant_pages(n)
    <2>1. PICK k \in Nat : RoundUp(n, HugePage) = k * HugePage
      BY RoundUpBounds, HugePageAssumption
    <2>2. \E j \in Nat : k * HugePage = j * Page
      BY <1>1, <1>3, HugePageAssumption
    <2>. QED  BY <1>1, <1>6, <2>1, <2>2 DEF mapped_size
  <1>. QED  BY <1>5, <1>6

LEMMA Lengths == DeletionOK => LengthsOK
  <1> SUFFICES ASSUME DeletionOK
               PROVE  LengthsOK
    OBVIOUS
  <1> DEFINE e == buf.elem
  <1>1. /\ e \in Nat \ {0} /\ buf.cap \in Nat
        /\ del.start \in Nat /\ del.end \in Nat /\ del.length \in Nat
        /\ del.start < del.end /\ del.end < del.length /\ del.length <= buf.cap
        /\ Page \in Nat \ {0}
    BY PageAssumption DEF DeletionOK
  <1>. HIDE DEF e
  <1>2. /\ byte_start \in Nat /\ byte_end \in Nat /\ byte_len \in Nat /\ CapBytes(buf) \in Nat
        /\ byte_start < byte_end /\ byte_end < byte_len /\ byte_len <= CapBytes(buf)
    <2>1. del.start + 1 <= del.end /\ del.end + 1 <= del.length
      BY <1>1
    <2>2. del.start * e \in Nat /\ del.end * e \in Nat /\ del.length * e \in Nat /\ buf.cap * e \in Nat
      BY <1>1, SMT
    <2>3. (del.start + 1) * e <= del.end * e
      BY <1>1, <2>1, MultiplesOrdered
    <2>4. (del.end + 1) * e <= del.length * e
      BY <1>1, <2>1, MultiplesOrdered
    <2>5. del.length * e <= buf.cap * e
      BY <1>1, MultiplesOrdered
    <2>6. (del.start + 1) * e = del.start * e + e /\ (del.end + 1) * e = del.end * e + e
      BY <1>1, SMT
    <2>7. /\ byte_start = del.start * e /\ byte_end = del.end * e
          /\ byte_len = del.length * e /\ CapBytes(buf) = buf.cap * e
      BY DEF byte_start, byte_end, byte_len, CapBytes, e
    <2>. QED  BY <1>1, <2>2, <2>3, <2>4, <2>5, <2>6, <2>7
  <1>3. /\ BufferBytes = mapped_size(CapBytes(buf)) /\ BufferBytes \in Nat
        /\ CapBytes(buf) <= BufferBytes
    BY <1>2, MappingHoldsBlock DEF DeletionOK, FitsPages, BlockSize, BufferBytes
  <1>4. /\ new_len \in Nat /\ del.start <= new_len /\ new_len <= buf.cap
        /\ new_len = del.length - (del.end - del.start)
        /\ new_len * e = byte_len - (byte_end - byte_start)
    <2>1. /\ new_len \in Nat /\ del.start <= new_len /\ new_len <= buf.cap
          /\ new_len = del.length - (del.end - del.start)
      BY <1>1 DEF new_len
    <2>2. (del.start + (del.length - del.end)) * e = del.length * e - (del.end * e - del.start * e)
      BY <1>1, SMT
    <2>. QED  BY <2>1, <2>2 DEF new_len, byte_start, byte_end, byte_len, e
  <1>5. PICK b \in Nat : RoundUp(byte_start, Page) = b * Page
    BY <1>1, <1>2, RoundUpBounds
  <1>6. /\ seam \in Nat /\ seam = b * Page - byte_start
        /\ splice_dst = byte_start + seam /\ splice_src = byte_end + seam
        /\ splice_dst < splice_src
        /\ tail_total = byte_len - byte_end
        /\ tail_bytes = byte_len - splice_src
        /\ splice_dst + tail_bytes = new_len * e
    <2>1. RoundUp(byte_start, Page) \in Nat /\ RoundUp(byte_start, Page) >= byte_start
      BY <1>1, <1>2, RoundUpBounds
    <2>. QED  BY <1>2, <1>4, <1>5, <2>1 DEF seam, splice_dst, splice_src, tail_total, tail_bytes
  <1>7. PICK m \in Nat : BufferBytes = m * Page
    BY <1>2, <1>3, MappedPages
  <1>8. used \in Nat /\ new_len * e <= used /\ mapped_end \in Nat /\ mapped_end <= BufferBytes
    <2>1. used \in Nat /\ new_len * e <= used
      <3>1. new_len * e \in Nat
        BY <1>1, <1>4, SMT
      <3>. QED  BY <1>1, <3>1, RoundUpBounds DEF used, e
    <2>2. mapped_end \in Nat
      BY <1>1, <1>2, RoundUpBounds DEF mapped_end
    <2>3. byte_len <= m * Page
      BY <1>2, <1>3, <1>7
    <2>4. mapped_end <= m * Page
      BY <1>1, <1>2, <2>3, RoundUpLeast DEF mapped_end
    <2>. QED  BY <1>7, <2>1, <2>2, <2>4
  <1>9. ASSUME tail_bytes > 0
        PROVE  /\ tail_mapped \in Nat /\ tail_bytes <= tail_mapped
               /\ splice_src + tail_mapped <= BufferBytes
    <2>1. tail_bytes \in Nat
      BY <1>2, <1>6, <1>9
    <2>2. tail_mapped \in Nat /\ tail_bytes <= tail_mapped
      BY <1>1, <2>1, RoundUpBounds DEF tail_mapped
    <2>3. PICK d \in Nat : byte_end - byte_start = d * Page
      <3>1. (del.end - del.start) * e = byte_end - byte_start
        BY <1>1, SMT DEF byte_end, byte_start, e
      <3>2. byte_end - byte_start \in Nat /\ Aligned(byte_end - byte_start)
        BY <1>2, <3>1 DEF DeletionOK, FitsPages, e
      <3>. QED  BY <3>2, AlignedPages
    <2>4. splice_src = (b + d) * Page
      <3>1. splice_src = b * Page + d * Page
        <4>1. b * Page \in Int /\ d * Page \in Int
          BY <1>1, SMT
        <4>. QED  BY <1>2, <1>6, <2>3, <4>1
      <3>. QED  BY <1>1, <3>1, SMT
    <2>5. b + d <= m
      <3>1. (b + d) * Page < m * Page + Page
        <4>1. (b + d) * Page < BufferBytes
          <5>1. splice_src < byte_len /\ byte_len <= BufferBytes
            BY <1>2, <1>3, <1>6, <1>9
          <5>2. splice_src \in Int
            BY <1>2, <1>6
          <5>. QED  BY <1>2, <1>3, <2>4, <5>1, <5>2
        <4>2. (b + d) * Page \in Int
          BY <1>1, SMT
        <4>. QED  BY <1>1, <1>3, <1>7, <4>1, <4>2
      <3>. QED  BY <1>1, <3>1, NoMultipleBetween
    <2>6. m - (b + d) \in Nat /\ tail_bytes <= (m - (b + d)) * Page
      <3>1. (m - (b + d)) * Page = m * Page - (b + d) * Page
        BY <1>1, SMT
      <3>. QED  BY <1>1, <1>2, <1>3, <1>6, <1>7, <2>4, <2>5, <3>1
    <2>7. tail_mapped <= (m - (b + d)) * Page
      BY <1>1, <2>1, <2>6, RoundUpLeast DEF tail_mapped
    <2>8. (m - (b + d)) * Page = m * Page - (b + d) * Page
      BY <1>1, SMT
    <2>. QED  BY <1>1, <1>2, <1>6, <1>7, <2>2, <2>4, <2>7, <2>8
  <1>. QED  BY <1>2, <1>3, <1>4, <1>6, <1>8, <1>9 DEF LengthsOK, e

-----------------------------------------------------------------------------
(* Which elements have been dropped *)

\* With m elements made so far, those of s are distinct, and of them just the
\* elements lo .. hi-1 have been dropped.
Alive(s, d, m, lo, hi) ==
    /\ s \in Seq(1 .. m)
    /\ \A i, j \in 1 .. Len(s) : s[i] = s[j] => i = j
    /\ \A i \in 1 .. Len(s) : d[s[i]] = IF lo < i /\ i <= hi THEN 1 ELSE 0
    /\ \A t \in Tokens : t > m => d[t] = 0

\* d after the drop of the elements lo .. hi-1 of s.
DropsOf(s, d, lo, hi) ==
    [t \in Tokens |-> d[t] + IF \E i \in lo .. hi - 1 : s[i + 1] = t THEN 1 ELSE 0]

LEMMA AliveDrop ==
    ASSUME NEW s, NEW d \in [Tokens -> Nat], NEW m \in 0 .. MaxTokens, Alive(s, d, m, 0, 0),
           NEW lo \in Nat, NEW hi \in 0 .. Len(s), lo <= hi
    PROVE  /\ DropsOf(s, d, lo, hi) \in [Tokens -> Nat]
           /\ Alive(s, DropsOf(s, d, lo, hi), m, lo, hi)
  <1>1. /\ s \in Seq(1 .. m) /\ Len(s) \in Nat
        /\ \A i \in 1 .. Len(s) : s[i] \in Tokens /\ s[i] \in 1 .. m /\ d[s[i]] = 0
        /\ \A i, j \in 1 .. Len(s) : s[i] = s[j] => i = j
    BY MaxTokensAssumption DEF Alive, Tokens
  <1>2. ASSUME NEW j \in 1 .. Len(s)
        PROVE  DropsOf(s, d, lo, hi)[s[j]] = IF lo < j /\ j <= hi THEN 1 ELSE 0
    <2>1. \A i \in lo .. hi - 1 : s[i + 1] = s[j] => i + 1 = j
      BY <1>1
    <2>2. (\E i \in lo .. hi - 1 : s[i + 1] = s[j]) <=> lo < j /\ j <= hi
      <3>1. lo < j /\ j <= hi => j - 1 \in lo .. hi - 1 /\ (j - 1) + 1 = j
        BY <1>1
      <3>2. ASSUME NEW i \in lo .. hi - 1, s[i + 1] = s[j]
            PROVE  lo < j /\ j <= hi
        <4>1. i + 1 = j
          BY <2>1, <3>2
        <4>. QED  BY <1>1, <4>1
      <3>3. ASSUME lo < j, j <= hi
            PROVE  \E i \in lo .. hi - 1 : s[i + 1] = s[j]
        BY <3>1, <3>3
      <3>. QED  BY <3>2, <3>3
    <2>. QED  BY <1>1, <2>2 DEF DropsOf
  <1>3. ASSUME NEW t \in Tokens, t > m
        PROVE  DropsOf(s, d, lo, hi)[t] = 0
    <2>1. \A i \in lo .. hi - 1 : s[i + 1] # t
      <3>1. \A i \in lo .. hi - 1 : s[i + 1] \in 1 .. m
        BY <1>1
      <3>. QED  BY <1>3, <3>1 DEF Tokens
    <2>. QED  BY <1>3, <2>1 DEF DropsOf, Alive
  <1>4. DropsOf(s, d, lo, hi) \in [Tokens -> Nat]
    BY DEF DropsOf
  <1>. QED  BY <1>1, <1>2, <1>3, <1>4 DEF Alive

\* Cutting out the dropped elements, and any behind them.
LEMMA AliveCut ==
    ASSUME NEW s, NEW d, NEW m \in Nat, NEW lo \in Nat, NEW hi \in Nat, Alive(s, d, m, lo, hi),
           NEW end \in 0 .. Len(s), lo <= hi, hi <= end, hi = end \/ end = Len(s)
    PROVE  Alive(Cut(s, lo, end), d, m, 0, 0)
  <1> DEFINE c == Cut(s, lo, end)
             at(i) == IF i <= lo THEN i ELSE i + (end - lo)
  <1>1. s \in Seq(1 .. m) /\ Len(s) \in Nat
    BY DEF Alive
  <1>2. c \in Seq(1 .. m) /\ Len(c) = Len(s) - (end - lo)
    BY <1>1 DEF Cut
  <1>3. \A i \in 1 .. Len(c) : c[i] = s[at(i)] /\ at(i) \in 1 .. Len(s)
    BY <1>1, <1>2 DEF Cut
  <1>. HIDE DEF c
  <1>4. \A i \in 1 .. Len(c) : ~(lo < at(i) /\ at(i) <= hi)
    BY <1>1, <1>2
  <1>a. \A i, j \in 1 .. Len(c) : at(i) = at(j) => i = j
    BY <1>1, <1>2
  <1>. HIDE DEF at
  <1>5. ASSUME NEW i \in 1 .. Len(c)
        PROVE  d[c[i]] = 0
    <2>1. c[i] = s[at(i)] /\ at(i) \in 1 .. Len(s) /\ ~(lo < at(i) /\ at(i) <= hi)
      BY <1>3, <1>4
    <2>2. d[s[at(i)]] = 0
      BY <2>1 DEF Alive
    <2>. QED  BY <2>1, <2>2
  <1>6. \A i, j \in 1 .. Len(c) : c[i] = c[j] => i = j
    <2> SUFFICES ASSUME NEW i \in 1 .. Len(c), NEW j \in 1 .. Len(c), c[i] = c[j]
                 PROVE  i = j
      OBVIOUS
    <2>1. /\ c[i] = s[at(i)] /\ at(i) \in 1 .. Len(s)
          /\ c[j] = s[at(j)] /\ at(j) \in 1 .. Len(s)
      BY <1>3
    <2>2. at(i) = at(j)
      BY <2>1 DEF Alive
    <2>. QED  BY <1>a, <2>2
  <1>7. Alive(c, d, m, 0, 0)
    BY <1>2, <1>5, <1>6 DEF Alive
  <1>. QED  BY <1>7 DEF c

LEMMA AlivePush ==
    ASSUME NEW s, NEW d, NEW m \in Nat, Alive(s, d, m, 0, 0), m + 1 \in Tokens
    PROVE  Alive(Append(s, m + 1), d, m + 1, 0, 0)
  <1> DEFINE c == Append(s, m + 1)
  <1>1. s \in Seq(1 .. m) /\ Len(s) \in Nat /\ \A i \in 1 .. Len(s) : s[i] \in 1 .. m
    BY DEF Alive
  <1>2. /\ c \in Seq(1 .. m + 1) /\ Len(c) = Len(s) + 1 /\ c[Len(s) + 1] = m + 1
        /\ \A i \in 1 .. Len(s) : c[i] = s[i]
    BY <1>1
  <1>. HIDE DEF c
  <1>3. \A i, j \in 1 .. Len(c) : c[i] = c[j] => i = j
    <2> SUFFICES ASSUME NEW i \in 1 .. Len(c), NEW j \in 1 .. Len(c), c[i] = c[j]
                 PROVE  i = j
      OBVIOUS
    <2>1. CASE i <= Len(s) /\ j <= Len(s)
      <3>1. i \in 1 .. Len(s) /\ j \in 1 .. Len(s)
        BY <1>1, <1>2, <2>1
      <3>. QED  BY <1>2, <3>1 DEF Alive
    <2>2. CASE i <= Len(s) /\ j = Len(s) + 1
      <3>1. i \in 1 .. Len(s)
        BY <1>1, <1>2, <2>2
      <3>. QED  BY <1>1, <1>2, <2>2, <3>1
    <2>3. CASE j <= Len(s) /\ i = Len(s) + 1
      <3>1. j \in 1 .. Len(s)
        BY <1>1, <1>2, <2>3
      <3>. QED  BY <1>1, <1>2, <2>3, <3>1
    <2>4. CASE i = Len(s) + 1 /\ j = Len(s) + 1
      BY <2>4
    <2>. QED  BY <1>1, <1>2, <2>1, <2>2, <2>3, <2>4
  <1>4. \A i \in 1 .. Len(c) : d[c[i]] = 0
    <2> SUFFICES ASSUME NEW i \in 1 .. Len(c)
                 PROVE  d[c[i]] = 0
      OBVIOUS
    <2>1. CASE i \in 1 .. Len(s)
      <3>1. d[s[i]] = IF 0 < i /\ i <= 0 THEN 1 ELSE 0
        BY <2>1 DEF Alive
      <3>2. ~(0 < i /\ i <= 0) /\ c[i] = s[i]
        BY <1>2, <2>1
      <3>. QED  BY <3>1, <3>2
    <2>2. CASE i = Len(s) + 1
      <3>1. d[m + 1] = 0
        BY DEF Alive
      <3>. QED  BY <1>2, <2>2, <3>1
    <2>. QED  BY <1>1, <1>2, <2>1, <2>2
  <1>5. \A t \in Tokens : t > m + 1 => d[t] = 0
    BY DEF Alive, Tokens
  <1>6. Alive(c, d, m + 1, 0, 0)
    BY <1>2, <1>3, <1>4, <1>5 DEF Alive
  <1>. QED  BY <1>6 DEF c

-----------------------------------------------------------------------------
(* What Stored does to the bytes *)

LEMMA StoredBytes ==
    ASSUME NEW mem \in Memories, NEW b, b.at \in Int, b.elem \in Nat \ {0},
           NEW lo \in Nat, NEW s \in Seq(Tokens)
    PROVE  /\ Stored(mem, b, lo, s) \in Memories
           /\ Stores(mem, b.at, b.elem, lo, s, Stored(mem, b, lo, s))
  <1>1. Tokens \X Nat \subseteq Bytes
    BY DEF Bytes
  <1>. QED  BY <1>1, StoredContents DEF Memories

\* Vec::drain: the elements behind hi go to the place of lo.
LEMMA DrainBytes ==
    ASSUME NEW mem \in Memories, NEW b, b.at \in Int, b.elem \in Nat \ {0},
           NEW s \in Seq(Tokens), Spelled(mem, b.at, b.elem, s, 0, Len(s) * b.elem),
           NEW lo \in Nat, NEW hi \in 0 .. Len(s), lo <= hi,
           \A o \in 0 .. Len(s) * b.elem - 1 : b.at + o \in Addresses
    PROVE  Spelled(Stored(mem, b, lo, Cut(s, 0, hi)), b.at, b.elem, Cut(s, lo, hi), 0,
                   (Len(s) - (hi - lo)) * b.elem)
  <1> DEFINE e == b.elem
             t == Cut(s, 0, hi)
             c == Cut(s, lo, hi)
             m == Stored(mem, b, lo, t)
             n == Len(s) - (hi - lo)
  <1>0. /\ Len(s) \in Nat /\ e \in Nat \ {0} /\ b.at \in Int
        /\ hi \in Nat /\ hi <= Len(s) /\ 0 \in Nat /\ 0 <= hi
    OBVIOUS
  <1>4. \A o \in 0 .. Len(s) * e - 1 : b.at + o \in Addresses /\ mem[b.at + o] = ByteOf(s, e, o)
    BY DEF Spelled
  <1>a. b.elem = e
    OBVIOUS
  <1>. HIDE DEF e
  <1>1. /\ Len(s) \in Nat /\ e \in Nat \ {0} /\ b.at \in Int
        /\ t \in Seq(Tokens) /\ Len(t) = Len(s) - hi
        /\ \A o \in hi * e .. Len(s) * e - 1 : ByteOf(t, e, o - (hi * e - 0 * e)) = ByteOf(s, e, o)
    <2>1. Len(s) - (hi - 0) = Len(s) - hi
      BY <1>0
    <2>2. t \in Seq(Tokens) /\ Len(t) = Len(s) - (hi - 0) /\ CutsBytes(s, e, 0, hi)
      BY <1>0, CutBytes
    <2>. QED  BY <1>0, <2>1, <2>2 DEF CutsBytes
  <1>2. /\ \A o \in 0 .. lo * e - 1 : ByteOf(c, e, o) = ByteOf(s, e, o)
        /\ \A o \in hi * e .. Len(s) * e - 1 :
              ByteOf(c, e, o - (hi * e - lo * e)) = ByteOf(s, e, o)
    <2>1. CutsBytes(s, e, lo, hi)
      BY <1>0, CutBytes
    <2>. QED  BY <2>1 DEF CutsBytes
  <1>3. /\ \A x \in Addresses : x \notin Extent(b.at + lo * e, Len(t) * e) => m[x] = mem[x]
        /\ \A o \in lo * e .. (lo + Len(t)) * e - 1 : b.at + o \in Addresses =>
                 m[b.at + o] = ByteOf(t, e, o - lo * e)
    <2>. HIDE DEF t
    <2>1. Stores(mem, b.at, e, lo, t, m)
      BY <1>1, <1>a, StoredBytes
    <2>. HIDE DEF m
    <2>. QED  BY <2>1 DEF Stores
  <1>. HIDE DEF t, c, m, n
  <1>5. /\ hi * e \in Nat /\ lo * e \in Nat /\ Len(s) * e \in Nat /\ lo * e <= hi * e
        /\ n * e = Len(s) * e - (hi * e - lo * e) /\ (lo + Len(t)) * e = n * e
        /\ Len(t) * e \in Nat /\ hi * e <= Len(s) * e /\ 0 * e = 0
    <2>1. lo * e <= hi * e /\ hi * e <= Len(s) * e
      <3> DEFINE L == Len(s)
      <3>1. L \in Int /\ lo \in Int /\ hi \in Int /\ hi <= L
        BY <1>0
      <3>. HIDE DEF L
      <3>2. lo * e <= hi * e /\ hi * e <= L * e
        BY <1>0, <3>1, MultiplesOrdered
      <3>. QED  BY <3>2 DEF L
    <2>2. /\ hi * e \in Nat /\ lo * e \in Nat /\ Len(s) * e \in Nat /\ 0 * e = 0
          /\ (Len(s) - (hi - lo)) * e = Len(s) * e - (hi * e - lo * e)
      <3> DEFINE L == Len(s)
      <3>1. L \in Nat
        OBVIOUS
      <3>. HIDE DEF L
      <3>2. /\ hi * e \in Nat /\ lo * e \in Nat /\ L * e \in Nat /\ 0 * e = 0
            /\ (L - (hi - lo)) * e = L * e - (hi * e - lo * e)
        BY <1>0, <3>1, SMT
      <3>. QED  BY <3>2 DEF L
    <2>a. Len(t) * e \in Nat
      <3> DEFINE L == Len(t)
      <3>1. L \in Nat
        BY <1>1
      <3>. HIDE DEF L
      <3>2. L * e \in Nat
        BY <1>0, <3>1, SMT
      <3>. QED  BY <3>2 DEF L
    <2>3. lo + Len(t) = n
      BY <1>1 DEF n
    <2>. QED  BY <1>1, <2>1, <2>2, <2>a, <2>3 DEF n
  <1>6. ASSUME NEW o \in 0 .. n * e - 1
        PROVE  m[b.at + o] = ByteOf(c, e, o)
    <2>1. CASE o < lo * e
      <3>1. o \in 0 .. lo * e - 1 /\ o \in 0 .. Len(s) * e - 1
        BY <1>5, <2>1
      <3>2. b.at + o \notin Extent(b.at + lo * e, Len(t) * e)
        BY <1>1, <1>5, <2>1 DEF Extent
      <3>. QED  BY <1>2, <1>3, <1>4, <3>1, <3>2
    <2>2. CASE o >= lo * e
      <3> DEFINE p == o + (hi * e - lo * e)
      <3>1. /\ p \in hi * e .. Len(s) * e - 1 /\ p - (hi * e - lo * e) = o
            /\ p - (hi * e - 0 * e) = o - lo * e
            /\ o \in lo * e .. (lo + Len(t)) * e - 1 /\ o \in 0 .. Len(s) * e - 1
        <4> DEFINE A == lo * e
                   B == hi * e
                   C == Len(s) * e
                   N == n * e
                   Z == 0 * e
                   E == (lo + Len(t)) * e
        <4>1. /\ A \in Nat /\ B \in Nat /\ C \in Nat /\ A <= B /\ B <= C /\ Z = 0
              /\ N = C - (B - A) /\ E = N /\ p = o + (B - A) /\ o >= A /\ o \in 0 .. N - 1
          BY <1>5, <2>2
        <4>2. /\ p \in B .. C - 1 /\ p - (B - A) = o /\ p - (B - Z) = o - A
              /\ o \in A .. E - 1 /\ o \in 0 .. C - 1
          <5>. HIDE DEF A, B, C, N, Z, E, p
          <5>. QED  BY <4>1
        <4>. QED  BY <4>2
      <3>. HIDE DEF p
      <3>2. ByteOf(c, e, o) = ByteOf(s, e, p)
        BY <1>2, <3>1
      <3>3. ByteOf(t, e, o - lo * e) = ByteOf(s, e, p)
        BY <1>1, <3>1
      <3>4. m[b.at + o] = ByteOf(t, e, o - lo * e)
        BY <1>3, <1>4, <3>1
      <3>. QED  BY <3>2, <3>3, <3>4
    <2>. QED  BY <1>5, <2>1, <2>2
  <1>. QED  BY <1>6 DEF Spelled, e, t, c, m, n

\* A new element behind the others.
LEMMA PushBytes ==
    ASSUME NEW mem \in Memories, NEW b, b.at \in Int, b.elem \in Nat \ {0},
           NEW s \in Seq(Tokens), Spelled(mem, b.at, b.elem, s, 0, Len(s) * b.elem),
           NEW t \in Tokens,
           \A o \in 0 .. (Len(s) + 1) * b.elem - 1 : b.at + o \in Addresses
    PROVE  Spelled(Stored(mem, b, Len(s), <<t>>), b.at, b.elem, Append(s, t), 0,
                   (Len(s) + 1) * b.elem)
  <1> DEFINE e == b.elem
             n == Len(s)
             r == Append(s, t)
             m == Stored(mem, b, n, <<t>>)
  <1>1. /\ n \in Nat /\ e \in Nat \ {0} /\ b.at \in Int
        /\ r \in Seq(Tokens) /\ Len(r) = n + 1 /\ Cut(r, 0, n) = <<t>> /\ Cut(r, n, n + 1) = s
    <2>1. n \in Nat /\ r \in Seq(Tokens) /\ Len(r) = n + 1 /\ r[n + 1] = t
          /\ \A i \in 1 .. n : r[i] = s[i]
      OBVIOUS
    <2>. HIDE DEF r
    <2>2. Cut(r, 0, n) = <<t>>
      <3>1. Cut(r, 0, n) \in Seq(Tokens) /\ Len(Cut(r, 0, n)) = 1 /\ Cut(r, 0, n)[1] = t
        BY <2>1 DEF Cut
      <3>. QED  BY <3>1
    <2>3. Cut(r, n, n + 1) = s
      <3>1. Cut(r, n, n + 1) = [i \in 1 .. n |-> s[i]]
        BY <2>1 DEF Cut
      <3>. QED  BY <3>1
    <2>. QED  BY <2>1, <2>2, <2>3
  <1>2. <<t>> \in Seq(Tokens) /\ Len(<<t>>) = 1
    OBVIOUS
  <1>3. /\ \A x \in Addresses : x \notin Extent(b.at + n * e, Len(<<t>>) * e) => m[x] = mem[x]
        /\ \A o \in n * e .. (n + Len(<<t>>)) * e - 1 : b.at + o \in Addresses =>
                 m[b.at + o] = ByteOf(<<t>>, e, o - n * e)
    <2>1. Stores(mem, b.at, e, n, <<t>>, m)
      <3>. HIDE DEF n
      <3>. QED  BY <1>1, <1>2, StoredBytes
    <2>. HIDE DEF m, n, e
    <2>. QED  BY <2>1 DEF Stores
  <1>4. \A o \in 0 .. n * e - 1 : mem[b.at + o] = ByteOf(s, e, o)
    BY DEF Spelled
  <1>5. \A o \in 0 .. (n + 1) * e - 1 : b.at + o \in Addresses
    OBVIOUS
  <1>. HIDE DEF e, n, r, m
  <1>6. \A o \in 0 .. n * e - 1 : ByteOf(s, e, o) = ByteOf(r, e, o)
    <2>1. n \in Nat /\ n + 1 \in Nat /\ n <= n + 1 /\ n + 1 <= Len(r)
      BY <1>1
    <2>2. CutsBytes(r, e, n, n + 1)
      BY <1>1, <2>1, CutBytes
    <2>. QED  BY <1>1, <2>2 DEF CutsBytes
  <1>7. \A o \in n * e .. (n + 1) * e - 1 : ByteOf(<<t>>, e, o - (n * e - 0 * e)) = ByteOf(r, e, o)
    <2>1. 0 \in Nat /\ n \in Nat /\ 0 <= n /\ n <= Len(r)
      BY <1>1
    <2>2. CutsBytes(r, e, 0, n)
      BY <1>1, <2>1, CutBytes
    <2>. QED  BY <1>1, <2>2 DEF CutsBytes
  <1>8. n * e \in Nat /\ 0 * e = 0 /\ 1 * e = e /\ (n + 1) * e = n * e + e
    BY <1>1, SMT
  <1>9. ASSUME NEW o \in 0 .. (n + 1) * e - 1
        PROVE  m[b.at + o] = ByteOf(r, e, o)
    <2>1. CASE o < n * e
      <3>1. o \in 0 .. n * e - 1 /\ b.at + o \notin Extent(b.at + n * e, Len(<<t>>) * e)
        BY <1>1, <1>2, <1>8, <2>1 DEF Extent
      <3>. QED  BY <1>3, <1>4, <1>5, <1>6, <3>1
    <2>2. CASE o >= n * e
      <3>1. /\ o \in n * e .. (n + 1) * e - 1 /\ o - (n * e - 0 * e) = o - n * e
            /\ n + Len(<<t>>) = n + 1
        BY <1>1, <1>2, <1>8, <2>2
      <3>2. ByteOf(<<t>>, e, o - n * e) = ByteOf(r, e, o)
        BY <1>7, <3>1
      <3>3. m[b.at + o] = ByteOf(<<t>>, e, o - n * e)
        BY <1>3, <1>5, <3>1
      <3>. QED  BY <3>2, <3>3
    <2>. QED  BY <1>8, <2>1, <2>2
  <1>. QED  BY <1>9 DEF Spelled, e, n, r, m

-----------------------------------------------------------------------------
(* The invariant *)

\* What delete_range will leave.
rest == Cut(before, del.start, del.end)

\* Who provides which addresses.
RegionsOK ==
    /\ OwnExtent \cup ScratchExtent \cup AlienExtent \subseteq Addresses
    /\ OwnExtent \cap ScratchExtent = {}
    /\ AlienExtent \cap (OwnExtent \cup ScratchExtent) = {}
    /\ \A x \in OwnExtent : mapping[x] = KindOf(CapBytes(buf))
    /\ \A x \in ScratchExtent \cup AlienExtent : mapping[x] = "pages"
    /\ \A x \in Addresses \ (OwnExtent \cup ScratchExtent \cup AlienExtent) :
          mapping[x] \in Unowned

\* Where delete_range is, and with what.
CallOK ==
    /\ KindOf(CapBytes(buf)) = "giant" => buf.at % GiganticPage = 0
    /\ Extents(buf) \subseteq Addresses
    /\ Busy => /\ DeletionOK /\ len = del.start
               /\ before \in Seq(Tokens) /\ Len(before) = del.length
               /\ pc \notin {"patch", "trim"} => tail_bytes > 0
               /\ pc = "place" => KindOf(CapBytes(buf)) = "pages"
    /\ ~Busy => del = NoDeletion /\ before = <<>>
    /\ pc = "gone" => len = 0

\* The bytes of the tail that move with the pages lie at a in mem.
TailIn(mem, a) ==
    \A j \in 0 .. tail_bytes - 1 : mem[a + j] = ByteOf(rest, buf.elem, splice_dst + j)

\* What the buffer and the scratch region hold between two steps.
ContentOK ==
    /\ pc = "patch" => Spelled(memory, buf.at, buf.elem, before, 0, byte_len)
    /\ pc \in {"reserve", "lift", "copy"} =>
          Spelled(memory, buf.at, buf.elem, rest, 0, splice_dst) /\ TailIn(memory, buf.at + splice_src)
    /\ pc \in {"place", "rescue"} =>
          Spelled(memory, buf.at, buf.elem, rest, 0, splice_dst) /\ TailIn(memory, scratch)
    /\ pc \in {"discard", "trim"} =>
          Spelled(memory, buf.at, buf.elem, rest, 0, new_len * buf.elem)

HeldOK == Alive(held, dropped, made, del.start, del.end)

IInv == TypeOK /\ RegionsOK /\ OthersUntouched /\ CallOK /\ ContentOK /\ HeldOK

-----------------------------------------------------------------------------
(* What the invariant gives *)

SpaceOK == mapping \in [Addresses -> Kinds] /\ memory \in Memories

LEMMA ElementsAre ==
    \A lo, hi : Elements(buf, lo, hi) =
        [i \in 1 .. hi - lo |-> ElementIn(memory, buf.at + (lo + i - 1) * buf.elem, buf.elem)]
  BY DEF Elements, ElementAt, ElementAddress, ReadsAs, ElementIn

LEMMA ElementsAreNext ==
    (\A lo, hi : Elements(buf, lo, hi) =
        [i \in 1 .. hi - lo |-> ElementIn(memory, buf.at + (lo + i - 1) * buf.elem, buf.elem)])'
  BY ElementsAre, PTL

\* The bytes of the buffer, counted from its start.
LEMMA BufferAddresses ==
    ASSUME TypeOK, CallOK
    PROVE  /\ buf.at \in Int /\ buf.elem \in Nat \ {0} /\ buf.cap \in Nat
           /\ CapBytes(buf) \in Nat /\ CapBytes(buf) = buf.cap * buf.elem
           /\ BufferBytes \in Nat /\ CapBytes(buf) <= BufferBytes
           /\ \A o \in 0 .. BufferBytes - 1 : buf.at + o \in Addresses /\ buf.at + o \in Extents(buf)
           /\ \A n \in 0 .. buf.cap : n * buf.elem \in Nat /\ n * buf.elem <= BufferBytes
  <1>1. buf.at \in Int /\ buf.elem \in Nat \ {0} /\ buf.cap \in Nat
    BY DEF TypeOK, Addresses
  <1>2. CapBytes(buf) = buf.cap * buf.elem /\ buf.cap * buf.elem \in Nat
    BY <1>1, SMT DEF CapBytes
  <1>3. BufferBytes \in Nat /\ CapBytes(buf) <= BufferBytes
    BY <1>2, BlockHolds DEF BufferBytes
  <1>4. \A o \in 0 .. BufferBytes - 1 : buf.at + o \in Addresses /\ buf.at + o \in Extents(buf)
    <2>1. \A o \in 0 .. BufferBytes - 1 : buf.at + o \in Extents(buf)
      BY <1>1, <1>3 DEF Extents, Extent, BufferBytes
    <2>. QED  BY <2>1 DEF CallOK
  <1>5. ASSUME NEW n \in 0 .. buf.cap
        PROVE  n * buf.elem \in Nat /\ n * buf.elem <= BufferBytes
    <2>1. n * buf.elem \in Nat
      BY <1>1, SMT
    <2>2. n * buf.elem <= buf.cap * buf.elem
      BY <1>1, MultiplesOrdered
    <2>. QED  BY <1>2, <1>3, <2>1, <2>2
  <1>. QED  BY <1>1, <1>2, <1>3, <1>4, <1>5

\* Between two calls the vector's elements are whole.
LEMMA HeldWhole ==
    ASSUME IInv, ~Busy
    PROVE  /\ held = Elements(buf, 0, len) /\ held \in Seq(Tokens) /\ Len(held) = len
           /\ len \in Nat /\ len <= buf.cap
           /\ Alive(held, dropped, made, 0, 0)
           /\ Spelled(memory, buf.at, buf.elem, held, 0, len * buf.elem)
  <1>1. held = Elements(buf, 0, len) /\ len \in Nat /\ len <= buf.cap
    BY DEF held, IInv, TypeOK
  <1> DEFINE f(j) == ElementIn(memory, buf.at + j * buf.elem, buf.elem)
  <1>2. held = [i \in 1 .. len |-> f(i - 1)]
    BY <1>1, ElementsAre
  <1>3. Alive(held, dropped, made, 0, 0)
    BY DEF IInv, HeldOK, CallOK, NoDeletion, Deletion
  <1>4. held \in Seq(Tokens)
    BY <1>3, MaxTokensAssumption DEF Alive, Tokens, IInv, TypeOK
  <1>5. Len(held) = len
    BY <1>1, <1>2
  <1>6. Spelled(memory, buf.at, buf.elem, held, 0, len * buf.elem)
    <2>1. Reads(memory, buf.at, buf.elem, held, len)
      <3>1. ASSUME NEW i \in 0 .. len - 1
            PROVE  f(i) = held[i + 1]
        <4>1. i + 1 \in 1 .. len /\ (i + 1) - 1 = i
          BY <1>1
        <4>. HIDE DEF f
        <4>. QED  BY <1>2, <4>1
      <3>. QED  BY <3>1 DEF Reads
    <2>2. buf.at \in Int /\ buf.elem \in Nat \ {0} /\ len \in 0 .. Len(held)
      BY <1>1, <1>5, BufferAddresses DEF IInv
    <2>. QED  BY <1>4, <2>1, <2>2, ElementsSpelled
  <1>. QED  BY <1>1, <1>3, <1>4, <1>5, <1>6

\* Within delete_range.
LEMMA BusyFacts ==
    ASSUME IInv, Busy
    PROVE  /\ LengthsOK /\ rest \in Seq(Tokens) /\ Len(rest) = new_len
           /\ \A o \in 0 .. byte_start - 1 : ByteOf(rest, buf.elem, o) = ByteOf(before, buf.elem, o)
           /\ \A o \in byte_end .. byte_len - 1 :
                 ByteOf(rest, buf.elem, o - (byte_end - byte_start)) = ByteOf(before, buf.elem, o)
           /\ Alive(rest, dropped, made, 0, 0) /\ held = before
  <1>1. DeletionOK /\ LengthsOK /\ before \in Seq(Tokens) /\ Len(before) = del.length
    BY Lengths DEF IInv, CallOK
  <1>2. /\ buf.elem \in Nat \ {0} /\ del.start \in Nat /\ del.end \in Nat /\ del.length \in Nat
        /\ del.start <= del.end /\ del.end <= Len(before)
    BY <1>1 DEF DeletionOK
  <1>3. /\ rest \in Seq(Tokens) /\ Len(rest) = Len(before) - (del.end - del.start)
        /\ CutsBytes(before, buf.elem, del.start, del.end)
    BY <1>1, <1>2, CutBytes DEF rest
  <1>4. held = before
    BY DEF held
  <1>5. Alive(rest, dropped, made, 0, 0)
    <2>1. Alive(before, dropped, made, del.start, del.end) /\ made \in Nat
      BY <1>4 DEF IInv, HeldOK, TypeOK
    <2>2. del.end \in 0 .. Len(before)
      BY <1>2
    <2>. QED  BY <1>2, <2>1, <2>2, AliveCut DEF rest
  <1>. QED  BY <1>1, <1>3, <1>4, <1>5
            DEF CutsBytes, byte_start, byte_end, byte_len, rest, LengthsOK

\* Nothing that is computed from the arguments changes while they stay.
LEMMA SameLengths ==
    ASSUME buf' = buf, del' = del, before' = before
    PROVE  /\ byte_start' = byte_start /\ byte_end' = byte_end /\ byte_len' = byte_len
           /\ new_len' = new_len /\ splice_dst' = splice_dst /\ splice_src' = splice_src
           /\ tail_bytes' = tail_bytes /\ tail_mapped' = tail_mapped
           /\ rest' = rest /\ DeletionOK' = DeletionOK
  BY DEF byte_start, byte_end, byte_len, new_len, splice_dst, splice_src, seam, tail_bytes,
         tail_mapped, rest, DeletionOK, FitsPages

LEMMA SameRegions ==
    ASSUME RegionsOK, buf' = buf, alien' = alien, mapping' = mapping,
           OwnExtent' = OwnExtent, ScratchExtent' = ScratchExtent
    PROVE  RegionsOK'
  <1>1. AlienExtent' = AlienExtent
    BY DEF AlienExtent
  <1>. QED  BY <1>1 DEF RegionsOK

\* The content between two steps, by the bytes.
LEMMA TailInBuffer ==
    ASSUME buf' = buf, del' = del, before' = before, pc' \in {"reserve", "lift", "copy"},
           Spelled(memory', buf.at, buf.elem, rest, 0, splice_dst),
           TailIn(memory', buf.at + splice_src)
    PROVE  ContentOK'
  BY SameLengths DEF ContentOK, Spelled, TailIn

LEMMA TailInScratch ==
    ASSUME buf' = buf, del' = del, before' = before, pc' \in {"place", "rescue"},
           Spelled(memory', buf.at, buf.elem, rest, 0, splice_dst), TailIn(memory', scratch')
    PROVE  ContentOK'
  BY SameLengths DEF ContentOK, Spelled, TailIn

LEMMA TailPlaced ==
    ASSUME buf' = buf, del' = del, before' = before, pc' \in {"discard", "trim"},
           Spelled(memory', buf.at, buf.elem, rest, 0, new_len * buf.elem)
    PROVE  ContentOK'
  BY SameLengths DEF ContentOK, Spelled

-----------------------------------------------------------------------------
(* Steps within a call, and returns *)

\* A step that leaves what has been agreed on.
LEMMA Moved ==
    ASSUME IInv, Busy, Busy', pc' \in Stages, UNCHANGED <<buf, made, alien>>,
           UNCHANGED <<len, dropped, del, before>>,
           scratch' \in Addresses, SpaceOK', RegionsOK', ContentOK',
           pc' \notin {"patch", "trim"} => tail_bytes > 0,
           pc' = "place" => KindOf(CapBytes(buf)) = "pages",
           \A x \in AlienExtent : memory'[x] = memory[x]
    PROVE  IInv' /\ held' = held
  <1>1. held' = held
    BY DEF held
  <1>2. TypeOK'
    BY DEF TypeOK, IInv, SpaceOK, Memories
  <1>3. OthersUntouched'
    BY DEF IInv, OthersUntouched, AlienExtent
  <1>4. CallOK'
    BY SameLengths DEF CallOK, IInv, Busy
  <1>5. HeldOK'
    BY <1>1 DEF HeldOK, IInv
  <1>. QED  BY <1>1, <1>2, <1>3, <1>4, <1>5 DEF IInv

\* The bytes of the buffer say what the vector holds.
HoldsSpelled ==
    \A s \in Seq(Tokens) :
        /\ ~Busy /\ len = Len(s) /\ buf.at \in Int /\ buf.elem \in Nat \ {0}
        /\ Spelled(memory, buf.at, buf.elem, s, 0, Len(s) * buf.elem)
        => held = s

LEMMA HeldNow == HoldsSpelled
  <1> SUFFICES ASSUME NEW s \in Seq(Tokens), ~Busy, len = Len(s),
                      buf.at \in Int, buf.elem \in Nat \ {0},
                      Spelled(memory, buf.at, buf.elem, s, 0, Len(s) * buf.elem)
               PROVE  held = s
    BY DEF HoldsSpelled
  <1>1. Reads(memory, buf.at, buf.elem, s, Len(s))
    <2>1. Len(s) \in 0 .. Len(s)
      OBVIOUS
    <2>. QED  BY <2>1, SpelledElements
  <1> DEFINE f(j) == ElementIn(memory, buf.at + j * buf.elem, buf.elem)
  <1>2. held = [i \in 1 .. Len(s) |-> f(i - 1)]
    <2>1. held = Elements(buf, 0, len)
      BY DEF held
    <2>2. Elements(buf, 0, len) = [i \in 1 .. len - 0 |-> f(0 + i - 1)]
      BY ElementsAre
    <2>3. 1 .. len - 0 = 1 .. Len(s) /\ \A i \in 1 .. Len(s) : 0 + i - 1 = i - 1
      OBVIOUS
    <2>. HIDE DEF f
    <2>. QED  BY <2>1, <2>2, <2>3
  <1>3. ASSUME NEW i \in 1 .. Len(s)
        PROVE  held[i] = s[i]
    <2>1. i - 1 \in 0 .. Len(s) - 1 /\ (i - 1) + 1 = i
      OBVIOUS
    <2>2. f(i - 1) = s[i]
      BY <1>1, <2>1 DEF Reads
    <2>. HIDE DEF f
    <2>. QED  BY <1>2, <2>2
  <1>. HIDE DEF f
  <1>. QED  BY <1>2, <1>3

LEMMA HeldNext ==
    ASSUME NEW s \in Seq(Tokens), ~Busy', buf' = buf, len' = Len(s),
           buf.at \in Int, buf.elem \in Nat \ {0},
           Spelled(memory', buf.at, buf.elem, s, 0, Len(s) * buf.elem)
    PROVE  held' = s
  <1>1. HoldsSpelled'
    BY HeldNow, PTL
  <1>. QED  BY <1>1 DEF HoldsSpelled

\* A step after which the vector holds the elements s and no call is under way.
LEMMA Settled ==
    ASSUME IInv, NEW s, len' = Len(s), pc' = "idle", del' = NoDeletion, before' = <<>>,
           scratch' \in Addresses, UNCHANGED <<buf, alien>>, made' \in 0 .. MaxTokens,
           SpaceOK', RegionsOK', dropped' \in [Tokens -> Nat], Alive(s, dropped', made', 0, 0),
           Len(s) <= buf.cap, Spelled(memory', buf.at, buf.elem, s, 0, Len(s) * buf.elem),
           \A x \in AlienExtent : memory'[x] = memory[x]
    PROVE  IInv' /\ held' = s /\ ~Busy'
  <1>1. ~Busy'
    BY DEF Busy
  <1>2. s \in Seq(Tokens) /\ Len(s) \in Nat
    BY MaxTokensAssumption DEF Alive, Tokens
  <1>3. buf.at \in Int /\ buf.elem \in Nat \ {0} /\ buf.cap \in Nat
    BY BufferAddresses DEF IInv
  <1>4. held' = s
    BY <1>1, <1>2, <1>3, HeldNext
  <1>5. TypeOK'
    BY <1>2, <1>3 DEF TypeOK, IInv, SpaceOK, Memories, Stages, NoDeletion, Deletion
  <1>6. OthersUntouched'
    BY DEF IInv, OthersUntouched, AlienExtent
  <1>7. CallOK'
    BY DEF CallOK, IInv, Busy
  <1>8. HeldOK'
    BY <1>4 DEF HeldOK, NoDeletion, Deletion
  <1>9. ContentOK'
    BY DEF ContentOK
  <1>. QED  BY <1>1, <1>4, <1>5, <1>6, <1>7, <1>8, <1>9 DEF IInv

\* A return, with the elements s in the vector.
LEMMA Returned ==
    ASSUME IInv, NEW s, Returns(Len(s)), SpaceOK', RegionsOK',
           dropped' \in [Tokens -> Nat], Alive(s, dropped', made, 0, 0), Len(s) <= buf.cap,
           Spelled(memory', buf.at, buf.elem, s, 0, Len(s) * buf.elem),
           \A x \in AlienExtent : memory'[x] = memory[x]
    PROVE  IInv' /\ held' = s /\ ~Busy'
  <1>1. /\ len' = Len(s) /\ pc' = "idle" /\ del' = NoDeletion /\ scratch' = 0 /\ before' = <<>>
        /\ buf' = buf /\ made' = made /\ alien' = alien
    BY DEF Returns
  <1>2. scratch' \in Addresses /\ made' \in 0 .. MaxTokens
    BY <1>1, TopAssumption DEF Addresses, IInv, TypeOK
  <1>3. Alive(s, dropped', made', 0, 0)
    BY <1>1
  <1>. QED  BY <1>1, <1>2, <1>3, Settled

-----------------------------------------------------------------------------
(* Bytes that move *)

LEMMA Contents == Zero \in Bytes /\ Junk \in Bytes /\ Foreign \in Bytes
  BY DEF Bytes

LEMMA Copied ==
    ASSUME memory \in Memories, NEW a \in Int, NEW b \in Int, NEW n \in Nat, memcpy(a, b, n),
           Extent(a, n) \subseteq Addresses
    PROVE  /\ memory' \in Memories
           /\ \A x \in Addresses : x \notin Extent(b, n) => memory'[x] = memory[x]
           /\ \A j \in 0 .. n - 1 : b + j \in Addresses => memory'[b + j] = memory[a + j]
  <1>1. memory' = [x \in Addresses |-> IF x \in Extent(b, n) THEN memory[a + x - b] ELSE memory[x]]
    BY DEF memcpy
  <1>2. \A x \in Extent(b, n) : a + x - b \in Extent(a, n)
    BY DEF Extent
  <1>3. memory' \in Memories
    BY <1>1, <1>2 DEF Memories
  <1>4. ASSUME NEW j \in 0 .. n - 1, b + j \in Addresses
        PROVE  memory'[b + j] = memory[a + j]
    <2>1. b + j \in Extent(b, n) /\ a + (b + j) - b = a + j
      BY DEF Extent
    <2>. QED  BY <1>1, <1>4, <2>1
  <1>. QED  BY <1>1, <1>3, <1>4

\* What a mremap_fixed that is done leaves: the source is mapped as left.
Remaps(a, n, b, left) ==
    /\ Covers(a, n, "pages") /\ Extent(a, n) \cap Extent(b, n) = {}
    /\ \A x \in Addresses : mapping'[x] =
          IF x \in Extent(b, n) THEN "pages" ELSE IF x \in Extent(a, n) THEN left ELSE mapping[x]
    /\ \A x \in Addresses : x \notin Extent(a, n) \cup Extent(b, n) => memory'[x] = memory[x]
    /\ \A j \in 0 .. n - 1 : b + j \in Addresses => memory'[b + j] = memory[a + j]

LEMMA Remapped ==
    ASSUME SpaceOK, NEW a \in Int, NEW b \in Int, NEW n \in Nat, NEW left,
           \/ left = "pages" /\ mremap_fixed(a, n, b, TRUE)
           \/ left = "none" /\ mremap_fixed(a, n, b, FALSE)
    PROVE  SpaceOK' /\ Remaps(a, n, b, left)
  <1>1. PICK v \in Bytes :
           /\ Covers(a, n, "pages") /\ Extent(a, n) \cap Extent(b, n) = {}
           /\ mapping' = Painted(Painted(mapping, a, n, left), b, n, "pages")
           /\ memory' = [x \in Addresses |->
                  IF x \in Extent(b, n) THEN memory[a + x - b]
                  ELSE IF x \in Extent(a, n) THEN v ELSE memory[x]]
    <2>1. CASE left = "pages" /\ mremap_fixed(a, n, b, TRUE)
      BY <2>1, Contents DEF mremap_fixed
    <2>2. CASE left = "none" /\ mremap_fixed(a, n, b, FALSE)
      BY <2>2, Contents DEF mremap_fixed
    <2>. QED  BY <2>1, <2>2
  <1>2. \A x \in Extent(b, n) : a + x - b \in Extent(a, n)
    BY DEF Extent
  <1>3. memory' \in Memories
    BY <1>1, <1>2 DEF Memories, SpaceOK, Covers
  <1>4. /\ mapping' \in [Addresses -> Kinds]
        /\ \A x \in Addresses : mapping'[x] =
              IF x \in Extent(b, n) THEN "pages"
              ELSE IF x \in Extent(a, n) THEN left ELSE mapping[x]
    BY <1>1 DEF Painted, SpaceOK, Kinds
  <1>5. ASSUME NEW j \in 0 .. n - 1, b + j \in Addresses
        PROVE  memory'[b + j] = memory[a + j]
    <2>1. b + j \in Extent(b, n) /\ a + (b + j) - b = a + j
      BY DEF Extent
    <2>. QED  BY <1>1, <1>5, <2>1
  <1>. QED  BY <1>1, <1>3, <1>4, <1>5 DEF SpaceOK, Remaps

\* What a region leaves behind that is given back, or that the kernel keeps.
GivesBack(region) ==
    /\ \A x \in Addresses \cap region : mapping'[x] \in Unowned
    /\ \A x \in Addresses \ region : mapping'[x] = mapping[x] /\ memory'[x] = memory[x]

LEMMA Released ==
    ASSUME SpaceOK, NEW a \in Int, NEW n \in Nat, Unmaps(a, n), ~Splits(a, n)
    PROVE  SpaceOK' /\ GivesBack(Extent(a, n))
  <1>1. CASE munmap(a, n)
    <2>1. mapping' = Painted(mapping, a, n, "none") /\ memory' = Painted(memory, a, n, Junk)
      BY <1>1 DEF munmap
    <2>. QED  BY <2>1, Contents DEF Painted, SpaceOK, Memories, Kinds, GivesBack, Unowned
  <1>2. CASE munmap_refused(a, n)
    <2>1. mapping' = Painted(mapping, a, n, "lost") /\ memory' = memory
      BY <1>2 DEF munmap_refused
    <2>. QED  BY <2>1 DEF Painted, SpaceOK, Kinds, GivesBack, Unowned
  <1>. QED  BY <1>1, <1>2 DEF Unmaps

\* No scratch region, and the same mappings as before.
LEMMA RegionsStay ==
    ASSUME IInv, UNCHANGED <<buf, alien, mapping>>, pc # "gone", pc' # "gone",
           pc \notin {"lift", "place", "rescue", "discard"},
           pc' \notin {"lift", "place", "rescue", "discard"}
    PROVE  RegionsOK'
  <1>1. OwnExtent' = OwnExtent /\ ScratchExtent' = ScratchExtent
    BY DEF OwnExtent, ScratchExtent
  <1>. QED  BY <1>1, SameRegions DEF IInv

\* A part of the buffer, offsets from its start.
LEMMA InBuffer ==
    ASSUME IInv, NEW lo \in Nat, NEW n \in Nat, lo + n <= BufferBytes, pc # "gone"
    PROVE  /\ Extent(buf.at + lo, n) \subseteq OwnExtent
           /\ Extent(buf.at + lo, n) \subseteq Addresses
           /\ Extent(buf.at + lo, n) \cap (ScratchExtent \cup AlienExtent) = {}
  <1>1. /\ buf.at \in Int /\ BufferBytes \in Nat
        /\ \A o \in 0 .. BufferBytes - 1 : buf.at + o \in Addresses /\ buf.at + o \in Extents(buf)
    BY BufferAddresses DEF IInv
  <1>2. ASSUME NEW x \in Extent(buf.at + lo, n)
        PROVE  x \in Extents(buf) /\ x \in Addresses
    <2>1. x - buf.at \in 0 .. BufferBytes - 1 /\ buf.at + (x - buf.at) = x
      BY <1>1 DEF Extent
    <2>. QED  BY <1>1, <2>1
  <1>3. OwnExtent = Extents(buf)
    BY DEF OwnExtent
  <1>. QED  BY <1>2, <1>3 DEF IInv, RegionsOK

-----------------------------------------------------------------------------
(* The steps of the splice *)

\* A step changes no element that the vector holds or will hold.
Stutters == held' = held /\ (Busy' <=> Busy) /\ UNCHANGED <<dropped, made, del>>

LEMMA PatchStep ==
    ASSUME IInv, Patch
    PROVE  IInv' /\ Stutters
  <1> DEFINE at == buf.at
             e == buf.elem
             n == Min2(seam, tail_total)
  <1>0. /\ pc = "patch" /\ memcpy(at + byte_end, at + byte_start, n)
        /\ pc' = IF tail_total <= seam /\ seam > 0 THEN "trim" ELSE "reserve"
        /\ UNCHANGED <<buf, made, alien, mapping, len, dropped, del, scratch, before>>
    BY DEF Patch, GoesTo, locals
  <1>1. Busy /\ Busy' /\ pc' \in {"trim", "reserve"} /\ pc' \in Stages
    BY <1>0 DEF Busy, Stages
  <1>2. /\ LengthsOK
        /\ \A o \in 0 .. byte_start - 1 : ByteOf(rest, e, o) = ByteOf(before, e, o)
        /\ \A o \in byte_end .. byte_len - 1 :
                 ByteOf(rest, e, o - (byte_end - byte_start)) = ByteOf(before, e, o)
    BY <1>1, BusyFacts
  <1>3. /\ at \in Int
        /\ \A o \in 0 .. BufferBytes - 1 : at + o \in Addresses
    BY BufferAddresses DEF IInv
  <1>4. /\ n \in Nat /\ n <= seam /\ byte_end + n <= byte_len
        /\ pc' = "trim" => n = tail_total
        /\ pc' = "reserve" => n = seam /\ tail_bytes > 0
    <2>1. /\ seam \in Nat /\ tail_total \in Nat /\ tail_total > 0
          /\ byte_end + tail_total = byte_len /\ tail_bytes = tail_total - seam
      BY <1>2 DEF LengthsOK
    <2>2. n = IF seam <= tail_total THEN seam ELSE tail_total
      BY DEF Min2
    <2>. HIDE DEF n
    <2>3. CASE tail_total <= seam /\ seam > 0
      BY <1>0, <1>2, <2>1, <2>2, <2>3 DEF LengthsOK
    <2>4. CASE ~(tail_total <= seam /\ seam > 0)
      BY <1>0, <1>2, <2>1, <2>2, <2>4 DEF LengthsOK
    <2>. QED  BY <2>3, <2>4
  <1>5. Extent(at + byte_end, n) \subseteq Addresses
    BY <1>0, <1>2, <1>4, InBuffer DEF LengthsOK
  <1>6. SpaceOK /\ \A o \in 0 .. byte_len - 1 : memory[at + o] = ByteOf(before, e, o)
    BY <1>0 DEF IInv, TypeOK, ContentOK, Spelled, SpaceOK, Memories
  <1>. HIDE DEF at, e, n
  <1>7. /\ memory' \in Memories
        /\ \A x \in Addresses : x \notin Extent(at + byte_start, n) => memory'[x] = memory[x]
        /\ \A j \in 0 .. n - 1 : at + byte_start + j \in Addresses =>
               memory'[at + byte_start + j] = memory[at + byte_end + j]
    <2>1. at + byte_end \in Int /\ at + byte_start \in Int
      BY <1>2, <1>3 DEF LengthsOK
    <2>. QED  BY <1>0, <1>4, <1>5, <1>6, <2>1, Copied DEF SpaceOK
  <1>8. ASSUME NEW o \in 0 .. (byte_start + n) - 1
        PROVE  memory'[at + o] = ByteOf(rest, e, o)
    <2>1. CASE o < byte_start
      <3>1. o \in 0 .. byte_start - 1 /\ o \in 0 .. byte_len - 1 /\ o \in 0 .. BufferBytes - 1
            /\ at + o \notin Extent(at + byte_start, n)
        BY <1>2, <1>3, <1>4, <2>1 DEF LengthsOK, Extent
      <3>. QED  BY <1>2, <1>3, <1>6, <1>7, <3>1
    <2>2. CASE o >= byte_start
      <3> DEFINE j == o - byte_start
                 p == byte_end + j
      <3>1. /\ j \in 0 .. n - 1 /\ at + byte_start + j = at + o /\ at + byte_end + j = at + p
            /\ p \in byte_end .. byte_len - 1 /\ p - (byte_end - byte_start) = o
            /\ p \in 0 .. byte_len - 1 /\ o \in 0 .. BufferBytes - 1
        BY <1>2, <1>3, <1>4, <2>2 DEF LengthsOK
      <3>. HIDE DEF j, p
      <3>2. memory'[at + o] = memory[at + p]
        BY <1>3, <1>7, <3>1
      <3>. QED  BY <1>2, <1>6, <3>1, <3>2
    <2>. QED  BY <1>2, <1>4, <2>1, <2>2 DEF LengthsOK
  <1>a. Spelled(memory', at, e, rest, 0, byte_start + n)
    BY <1>8 DEF Spelled
  <1>9. ASSUME NEW j \in 0 .. tail_bytes - 1
        PROVE  memory'[at + splice_src + j] = ByteOf(rest, e, splice_dst + j)
    <2> DEFINE p == splice_src + j
    <2>1. /\ at + splice_src + j = at + p /\ p \in byte_end .. byte_len - 1
          /\ p - (byte_end - byte_start) = splice_dst + j
          /\ p \in 0 .. byte_len - 1 /\ p \in 0 .. BufferBytes - 1
          /\ at + p \notin Extent(at + byte_start, n)
      BY <1>2, <1>3, <1>4 DEF LengthsOK, Extent
    <2>. HIDE DEF p
    <2>. QED  BY <1>2, <1>3, <1>6, <1>7, <2>1
  <1>10. ContentOK'
    <2>1. CASE pc' = "trim"
      <3>1. byte_start + n = new_len * buf.elem
        BY <1>2, <1>4, <2>1 DEF LengthsOK
      <3>2. Spelled(memory', buf.at, buf.elem, rest, 0, new_len * buf.elem)
        BY <1>a, <3>1 DEF at, e
      <3>. QED  BY <1>0, <2>1, <3>2, TailPlaced
    <2>2. CASE pc' = "reserve"
      <3>1. byte_start + n = splice_dst
        BY <1>2, <1>4, <2>2 DEF LengthsOK
      <3>2. Spelled(memory', buf.at, buf.elem, rest, 0, splice_dst)
        BY <1>a, <3>1 DEF at, e
      <3>3. TailIn(memory', buf.at + splice_src)
        BY <1>9 DEF TailIn, at, e
      <3>. QED  BY <1>0, <2>2, <3>2, <3>3, TailInBuffer
    <2>. QED  BY <1>1, <2>1, <2>2
  <1>11. RegionsOK'
    BY <1>0, <1>1, RegionsStay
  <1>12. SpaceOK' /\ scratch' \in Addresses
    BY <1>0, <1>6, <1>7 DEF SpaceOK, IInv, TypeOK
  <1>13. \A x \in AlienExtent : memory'[x] = memory[x]
    <2>1. Extent(at + byte_start, n) \cap AlienExtent = {}
      <3>1. byte_start \in Nat /\ byte_start + n <= BufferBytes
        BY <1>2, <1>4 DEF LengthsOK
      <3>. QED  BY <1>0, <1>4, <3>1, InBuffer DEF at
    <2>2. AlienExtent \subseteq Addresses
      BY DEF IInv, RegionsOK
    <2>. QED  BY <1>7, <2>1, <2>2
  <1>14. pc' \notin {"patch", "trim"} => tail_bytes > 0
    BY <1>1, <1>4
  <1>15. IInv' /\ held' = held
    BY <1>0, <1>1, <1>10, <1>11, <1>12, <1>13, <1>14, Moved
  <1>. QED  BY <1>0, <1>1, <1>15 DEF Stutters

\* The vector loses the elements that it was asked to delete.
Finishes == Busy /\ ~Busy' /\ held' = rest /\ UNCHANGED <<dropped, made>>

LEMMA Completed ==
    ASSUME IInv, Busy, Returns(new_len), dropped' = dropped, SpaceOK', RegionsOK',
           Spelled(memory', buf.at, buf.elem, rest, 0, new_len * buf.elem),
           \A x \in AlienExtent : memory'[x] = memory[x]
    PROVE  IInv' /\ Finishes
  <1>1. /\ LengthsOK /\ rest \in Seq(Tokens) /\ Len(rest) = new_len
        /\ Alive(rest, dropped, made, 0, 0)
    BY BusyFacts
  <1>2. pc # "gone" /\ Len(rest) <= buf.cap /\ dropped' \in [Tokens -> Nat]
    BY <1>1 DEF Busy, LengthsOK, IInv, TypeOK
  <1>3. made' = made
    BY DEF Returns
  <1>4. IInv' /\ held' = rest /\ ~Busy'
    BY <1>1, <1>2, Returned
  <1>. QED  BY <1>3, <1>4 DEF Finishes

\* The bytes of the buffer stay while its addresses do.
LEMMA BufferKept ==
    ASSUME IInv, pc \in {"reserve", "lift", "copy"},
           \A x \in OwnExtent : memory'[x] = memory[x]
    PROVE  /\ Spelled(memory', buf.at, buf.elem, rest, 0, splice_dst)
           /\ TailIn(memory', buf.at + splice_src)
  <1>1. Busy /\ LengthsOK /\ tail_bytes > 0
    BY BusyFacts DEF Busy, IInv, CallOK
  <1>2. /\ buf.at \in Int /\ \A o \in 0 .. BufferBytes - 1 : buf.at + o \in OwnExtent
    BY <1>1, BufferAddresses DEF IInv, OwnExtent
  <1>3. /\ Spelled(memory, buf.at, buf.elem, rest, 0, splice_dst)
        /\ TailIn(memory, buf.at + splice_src)
    BY DEF IInv, ContentOK
  <1>4. ASSUME NEW o \in 0 .. splice_dst - 1
        PROVE  memory'[buf.at + o] = ByteOf(rest, buf.elem, o)
    <2>1. o \in 0 .. BufferBytes - 1
      BY <1>1 DEF LengthsOK
    <2>. QED  BY <1>2, <1>3, <2>1 DEF Spelled
  <1>5. ASSUME NEW j \in 0 .. tail_bytes - 1
        PROVE  memory'[buf.at + splice_src + j] = ByteOf(rest, buf.elem, splice_dst + j)
    <2>1. splice_src + j \in 0 .. BufferBytes - 1 /\ buf.at + (splice_src + j) = buf.at + splice_src + j
      BY <1>1, <1>2 DEF LengthsOK
    <2>2. buf.at + splice_src + j \in OwnExtent
      BY <1>2, <2>1
    <2>. QED  BY <1>3, <2>2 DEF TailIn
  <1>. QED  BY <1>4, <1>5 DEF Spelled, TailIn

LEMMA ReserveStep ==
    ASSUME IInv, Reserve
    PROVE  IInv' /\ Stutters
  <1>0. /\ pc = "reserve" /\ pc' \in {"lift", "copy"}
        /\ UNCHANGED <<buf, made, alien, len, dropped, del, before>>
    BY DEF Reserve, GoesTo
  <1>1. Busy /\ Busy' /\ pc' \in Stages
    BY <1>0 DEF Busy, Stages
  <1>2. LengthsOK /\ tail_bytes > 0 /\ tail_mapped \in Nat
    BY <1>0, <1>1, BusyFacts DEF IInv, CallOK, LengthsOK
  <1>3. SpaceOK
    BY DEF SpaceOK, IInv, TypeOK, Memories
  <1>4. CASE pc' = "copy"
    <2>1. UNCHANGED <<mapping, memory, scratch>>
      BY <1>4 DEF Reserve, GoesTo
    <2>2. RegionsOK'
      BY <1>0, <1>4, <2>1, RegionsStay
    <2>3. ContentOK'
      BY <1>0, <1>4, <2>1, BufferKept, TailInBuffer
    <2>4. SpaceOK' /\ scratch' \in Addresses
      BY <1>3, <2>1 DEF SpaceOK, IInv, TypeOK
    <2>. QED  BY <1>0, <1>1, <1>2, <1>4, <2>1, <2>2, <2>3, <2>4, Moved DEF Stutters
  <1>5. CASE pc' = "lift"
    <2>1. PICK a \in Places : mmap(a, tail_mapped, "pages") /\ scratch' = a
      BY <1>5 DEF Reserve, GoesTo
    <2>2. /\ Extent(a, tail_mapped) \subseteq Addresses
          /\ \A x \in Extent(a, tail_mapped) : mapping[x] = "none"
          /\ \A x \in Addresses : mapping'[x] =
                IF x \in Extent(a, tail_mapped) THEN "pages" ELSE mapping[x]
          /\ \A x \in Addresses : x \notin Extent(a, tail_mapped) => memory'[x] = memory[x]
          /\ SpaceOK' /\ a \in Addresses
      BY <1>3, <2>1, Contents, PlacesAssumption
      DEF mmap, Covers, Painted, SpaceOK, Memories, Kinds, Addresses
    <2>3. /\ OwnExtent' = OwnExtent /\ AlienExtent' = AlienExtent
          /\ ScratchExtent = {} /\ ScratchExtent' = Extent(a, tail_mapped)
      BY <1>0, <1>5, <2>1, SameLengths DEF OwnExtent, AlienExtent, ScratchExtent
    <2>4. /\ \A x \in OwnExtent : x \in Addresses /\ mapping[x] = KindOf(CapBytes(buf))
          /\ \A x \in AlienExtent : x \in Addresses /\ mapping[x] = "pages"
          /\ KindOf(CapBytes(buf)) # "none"
      BY DEF IInv, RegionsOK, KindOf
    <2>5. Extent(a, tail_mapped) \cap (OwnExtent \cup AlienExtent) = {}
      BY <2>2, <2>4
    <2>6. RegionsOK'
      BY <1>0, <2>2, <2>3, <2>5 DEF IInv, RegionsOK
    <2>7. ContentOK'
      <3>1. \A x \in OwnExtent : memory'[x] = memory[x]
        BY <2>2, <2>4, <2>5
      <3>. QED  BY <1>0, <1>5, <3>1, BufferKept, TailInBuffer
    <2>8. \A x \in AlienExtent : memory'[x] = memory[x]
      BY <2>2, <2>4, <2>5
    <2>. QED  BY <1>0, <1>1, <1>2, <1>5, <2>1, <2>2, <2>6, <2>7, <2>8, Moved DEF Stutters
  <1>. QED  BY <1>0, <1>4, <1>5

\* The scratch region, while there is one.
LEMMA ScratchFacts ==
    ASSUME IInv, pc \in {"lift", "place", "rescue", "discard"}
    PROVE  /\ Busy /\ LengthsOK /\ SpaceOK
           /\ tail_bytes \in Nat /\ tail_bytes > 0 /\ tail_mapped \in Nat /\ tail_bytes <= tail_mapped
           /\ scratch \in Int /\ ScratchExtent = Extent(scratch, tail_mapped)
           /\ \A x \in Extent(scratch, tail_mapped) :
                 x \in Addresses /\ mapping[x] = "pages" /\ x \notin OwnExtent \cup AlienExtent
           /\ \A x \in OwnExtent : x \in Addresses /\ x \notin Extent(scratch, tail_mapped)
           /\ \A x \in AlienExtent : x \in Addresses /\ x \notin Extent(scratch, tail_mapped)
  <1>1. Busy /\ LengthsOK /\ tail_bytes > 0
    BY BusyFacts DEF Busy, IInv, CallOK
  <1>2. tail_bytes \in Nat /\ tail_mapped \in Nat /\ tail_bytes <= tail_mapped
    BY <1>1 DEF LengthsOK
  <1>3. scratch \in Int /\ ScratchExtent = Extent(scratch, tail_mapped) /\ SpaceOK
    BY DEF ScratchExtent, IInv, TypeOK, Addresses, SpaceOK, Memories
  <1>. QED  BY <1>1, <1>2, <1>3 DEF IInv, RegionsOK

\* The scratch region is given back.
LEMMA ScratchReleased ==
    ASSUME IInv, pc \in {"lift", "discard"}, Unmaps(scratch, tail_mapped),
           UNCHANGED <<buf, alien>>,
           pc' \in Stages \ {"lift", "place", "rescue", "discard", "gone"}
    PROVE  /\ SpaceOK' /\ RegionsOK'
           /\ \A x \in OwnExtent \cup AlienExtent : memory'[x] = memory[x]
  <1>1. /\ SpaceOK /\ tail_mapped \in Nat /\ scratch \in Int
        /\ ScratchExtent = Extent(scratch, tail_mapped)
        /\ \A x \in Extent(scratch, tail_mapped) :
              x \in Addresses /\ mapping[x] = "pages" /\ x \notin OwnExtent \cup AlienExtent
        /\ \A x \in OwnExtent : x \in Addresses /\ x \notin Extent(scratch, tail_mapped)
        /\ \A x \in AlienExtent : x \in Addresses /\ x \notin Extent(scratch, tail_mapped)
    BY ScratchFacts
  <1>2. ~Splits(scratch, tail_mapped)
    BY <1>1 DEF Splits
  <1>3. SpaceOK' /\ GivesBack(Extent(scratch, tail_mapped))
    BY <1>1, <1>2, Released
  <1>4. OwnExtent' = OwnExtent /\ AlienExtent' = AlienExtent /\ ScratchExtent' = {}
    BY DEF OwnExtent, AlienExtent, ScratchExtent
  <1>5. RegionsOK'
    BY <1>1, <1>3, <1>4 DEF IInv, RegionsOK, GivesBack
  <1>. QED  BY <1>1, <1>3, <1>5 DEF GivesBack

LEMMA LiftStep ==
    ASSUME IInv, Lift
    PROVE  IInv' /\ Stutters
  <1> DEFINE src == buf.at + splice_src
  <1>0. /\ pc = "lift" /\ UNCHANGED <<buf, made, alien, len, dropped, del, scratch, before>>
        /\ \/ mremap_fixed(src, tail_mapped, scratch, TRUE) /\ pc' = "place"
           \/ Unmaps(scratch, tail_mapped) /\ pc' = "copy"
    BY DEF Lift, GoesTo, locals
  <1>1. /\ LengthsOK /\ SpaceOK
        /\ tail_bytes \in Nat /\ tail_bytes > 0 /\ tail_mapped \in Nat /\ tail_bytes <= tail_mapped
        /\ scratch \in Int /\ ScratchExtent = Extent(scratch, tail_mapped)
        /\ \A x \in Extent(scratch, tail_mapped) :
              x \in Addresses /\ mapping[x] = "pages" /\ x \notin OwnExtent \cup AlienExtent
        /\ \A x \in OwnExtent : x \in Addresses /\ x \notin Extent(scratch, tail_mapped)
        /\ \A x \in AlienExtent : x \in Addresses /\ x \notin Extent(scratch, tail_mapped)
    BY <1>0, ScratchFacts
  <1>2. Busy /\ Busy' /\ pc' \in Stages /\ scratch' \in Addresses
    BY <1>0 DEF Busy, Stages, IInv, TypeOK
  <1>3. CASE pc' = "copy"
    <2>1. Unmaps(scratch, tail_mapped)
      BY <1>0, <1>3
    <2>2. SpaceOK' /\ RegionsOK' /\ \A x \in OwnExtent \cup AlienExtent : memory'[x] = memory[x]
      BY <1>0, <1>3, <2>1, ScratchReleased DEF Stages
    <2>3. ContentOK'
      BY <1>0, <1>3, <2>2, BufferKept, TailInBuffer
    <2>. QED  BY <1>0, <1>1, <1>2, <1>3, <2>2, <2>3, Moved DEF Stutters
  <1>4. CASE pc' = "place"
    <2>1. mremap_fixed(src, tail_mapped, scratch, TRUE)
      BY <1>0, <1>4
    <2>2. /\ buf.at \in Int /\ src \in Int /\ splice_src \in Nat /\ splice_src + tail_mapped <= BufferBytes
          /\ \A o \in 0 .. BufferBytes - 1 : buf.at + o \in Addresses /\ buf.at + o \in OwnExtent
      BY <1>0, <1>1, BufferAddresses DEF IInv, LengthsOK, OwnExtent
    <2>3. /\ Extent(src, tail_mapped) \subseteq OwnExtent
          /\ Extent(src, tail_mapped) \cap AlienExtent = {}
      BY <1>0, <1>1, <2>2, InBuffer
    <2>. HIDE DEF src
    <2>4. /\ SpaceOK' /\ Covers(src, tail_mapped, "pages")
          /\ \A x \in Addresses : mapping'[x] =
                IF x \in Extent(scratch, tail_mapped) THEN "pages"
                ELSE IF x \in Extent(src, tail_mapped) THEN "pages" ELSE mapping[x]
          /\ \A x \in Addresses : x \notin Extent(src, tail_mapped) \cup Extent(scratch, tail_mapped)
                => memory'[x] = memory[x]
          /\ \A j \in 0 .. tail_mapped - 1 : scratch + j \in Addresses =>
                memory'[scratch + j] = memory[src + j]
      <3>1. SpaceOK' /\ Remaps(src, tail_mapped, scratch, "pages")
        BY <1>1, <2>1, <2>2, Remapped
      <3>. QED  BY <3>1 DEF Remaps
    <2>5. KindOf(CapBytes(buf)) = "pages"
      <3>1. src \in Extent(src, tail_mapped)
        BY <1>1, <2>2 DEF Extent
      <3>2. src \in OwnExtent /\ src \in Addresses /\ mapping[src] = "pages"
        BY <1>1, <2>3, <2>4, <3>1 DEF Covers
      <3>. QED  BY <3>2 DEF IInv, RegionsOK
    <2>6. \A x \in Addresses : mapping'[x] = mapping[x]
      BY <1>1, <2>4 DEF Covers
    <2>7. RegionsOK'
      <3>1. mapping' = mapping
        BY <1>1, <2>4, <2>6 DEF SpaceOK
      <3>2. OwnExtent' = OwnExtent /\ ScratchExtent' = ScratchExtent
        BY <1>0, <1>4, SameLengths DEF OwnExtent, ScratchExtent
      <3>. QED  BY <1>0, <3>1, <3>2, SameRegions DEF IInv
    <2>8. /\ Spelled(memory, buf.at, buf.elem, rest, 0, splice_dst)
          /\ TailIn(memory, src)
      BY <1>0 DEF IInv, ContentOK, src
    <2>9. Spelled(memory', buf.at, buf.elem, rest, 0, splice_dst)
      <3>1. ASSUME NEW o \in 0 .. splice_dst - 1
            PROVE  memory'[buf.at + o] = ByteOf(rest, buf.elem, o)
        <4>1. o \in 0 .. BufferBytes - 1 /\ buf.at + o \notin Extent(src, tail_mapped)
          BY <1>1, <2>2 DEF LengthsOK, Extent, src
        <4>2. buf.at + o \in Addresses /\ buf.at + o \notin Extent(scratch, tail_mapped)
          BY <1>1, <2>2, <4>1
        <4>. QED  BY <2>4, <2>8, <4>1, <4>2 DEF Spelled
      <3>. QED  BY <3>1 DEF Spelled
    <2>10. TailIn(memory', scratch')
      <3>1. ASSUME NEW j \in 0 .. tail_bytes - 1
            PROVE  memory'[scratch + j] = ByteOf(rest, buf.elem, splice_dst + j)
        <4>1. j \in 0 .. tail_mapped - 1 /\ scratch + j \in Extent(scratch, tail_mapped)
          BY <1>1 DEF Extent
        <4>. QED  BY <1>1, <2>4, <2>8, <4>1 DEF TailIn
      <3>. QED  BY <1>0, <3>1 DEF TailIn
    <2>11. ContentOK'
      BY <1>0, <1>4, <2>9, <2>10, TailInScratch
    <2>12. \A x \in AlienExtent : memory'[x] = memory[x]
      BY <1>1, <2>3, <2>4
    <2>. QED  BY <1>0, <1>1, <1>2, <1>4, <2>4, <2>5, <2>7, <2>11, <2>12, Moved DEF Stutters
  <1>. QED  BY <1>0, <1>3, <1>4

\* The tail has arrived at its place, and the elements before it have stayed.
LEMMA Arrived ==
    ASSUME IInv, Busy, pc \notin {"patch", "trim"},
           Spelled(memory, buf.at, buf.elem, rest, 0, splice_dst),
           \A x \in OwnExtent : x < buf.at + splice_dst => memory'[x] = memory[x],
           TailIn(memory', buf.at + splice_dst)
    PROVE  Spelled(memory', buf.at, buf.elem, rest, 0, new_len * buf.elem)
  <1>1. LengthsOK /\ tail_bytes > 0
    BY BusyFacts DEF IInv, CallOK
  <1>2. /\ buf.at \in Int /\ \A o \in 0 .. BufferBytes - 1 : buf.at + o \in OwnExtent
    BY BufferAddresses DEF IInv, OwnExtent, Busy
  <1>3. ASSUME NEW o \in 0 .. new_len * buf.elem - 1
        PROVE  memory'[buf.at + o] = ByteOf(rest, buf.elem, o)
    <2>1. CASE o < splice_dst
      <3>1. o \in 0 .. splice_dst - 1 /\ o \in 0 .. BufferBytes - 1 /\ buf.at + o < buf.at + splice_dst
        BY <1>1, <1>2, <2>1 DEF LengthsOK
      <3>. QED  BY <1>2, <3>1 DEF Spelled
    <2>2. CASE o >= splice_dst
      <3> DEFINE j == o - splice_dst
      <3>1. j \in 0 .. tail_bytes - 1 /\ buf.at + splice_dst + j = buf.at + o /\ splice_dst + j = o
        BY <1>1, <1>2, <2>2 DEF LengthsOK
      <3>. HIDE DEF j
      <3>2. memory'[buf.at + splice_dst + j] = ByteOf(rest, buf.elem, splice_dst + j)
        BY <3>1 DEF TailIn
      <3>. QED  BY <3>1, <3>2
    <2>. QED  BY <1>1, <2>1, <2>2 DEF LengthsOK
  <1>. QED  BY <1>3 DEF Spelled

LEMMA PlaceStep ==
    ASSUME IInv, Place
    PROVE  IInv' /\ Stutters
  <1> DEFINE dst == buf.at + splice_dst
  <1>0. /\ pc = "place" /\ UNCHANGED <<buf, made, alien, len, dropped, del, scratch, before>>
        /\ \/ mremap_fixed(scratch, tail_mapped, dst, FALSE) /\ pc' = "trim"
           \/ UNCHANGED <<mapping, memory>> /\ pc' = "rescue"
    BY DEF Place, GoesTo, locals
  <1>1. /\ LengthsOK /\ SpaceOK
        /\ tail_bytes \in Nat /\ tail_bytes > 0 /\ tail_mapped \in Nat /\ tail_bytes <= tail_mapped
        /\ scratch \in Int /\ ScratchExtent = Extent(scratch, tail_mapped)
        /\ \A x \in Extent(scratch, tail_mapped) :
              x \in Addresses /\ mapping[x] = "pages" /\ x \notin OwnExtent \cup AlienExtent
        /\ \A x \in OwnExtent : x \in Addresses /\ x \notin Extent(scratch, tail_mapped)
        /\ \A x \in AlienExtent : x \in Addresses /\ x \notin Extent(scratch, tail_mapped)
    BY <1>0, ScratchFacts
  <1>2. Busy /\ Busy' /\ pc' \in Stages /\ scratch' \in Addresses
    BY <1>0 DEF Busy, Stages, IInv, TypeOK
  <1>3. /\ Spelled(memory, buf.at, buf.elem, rest, 0, splice_dst)
        /\ TailIn(memory, scratch)
    BY <1>0 DEF IInv, ContentOK
  <1>4. CASE pc' = "rescue"
    <2>1. UNCHANGED <<mapping, memory>>
      BY <1>0, <1>4
    <2>2. RegionsOK'
      <3>1. OwnExtent' = OwnExtent /\ ScratchExtent' = ScratchExtent
        BY <1>0, <1>4, SameLengths DEF OwnExtent, ScratchExtent
      <3>. QED  BY <1>0, <2>1, <3>1, SameRegions DEF IInv
    <2>3. ContentOK'
      <3>1. /\ Spelled(memory', buf.at, buf.elem, rest, 0, splice_dst)
            /\ TailIn(memory', scratch')
        BY <1>0, <1>3, <2>1
      <3>. QED  BY <1>0, <1>4, <3>1, TailInScratch
    <2>. QED  BY <1>0, <1>1, <1>2, <1>4, <2>1, <2>2, <2>3, Moved DEF Stutters, SpaceOK
  <1>5. CASE pc' = "trim"
    <2>1. mremap_fixed(scratch, tail_mapped, dst, FALSE)
      BY <1>0, <1>5
    <2>2. buf.at \in Int /\ dst \in Int /\ splice_dst \in Nat /\ splice_dst + tail_mapped <= BufferBytes
      BY <1>0, <1>1, BufferAddresses DEF IInv, LengthsOK
    <2>3. /\ Extent(dst, tail_mapped) \subseteq OwnExtent
          /\ Extent(dst, tail_mapped) \cap AlienExtent = {}
      BY <1>0, <1>1, <2>2, InBuffer
    <2>. HIDE DEF dst
    <2>4. SpaceOK' /\ Remaps(scratch, tail_mapped, dst, "none")
      BY <1>1, <2>1, <2>2, Remapped
    <2>5. KindOf(CapBytes(buf)) = "pages"
      BY <1>0, <1>2 DEF IInv, CallOK
    <2>6. OwnExtent' = OwnExtent /\ AlienExtent' = AlienExtent /\ ScratchExtent' = {}
      BY <1>0, <1>5 DEF OwnExtent, AlienExtent, ScratchExtent
    <2>7. RegionsOK'
      BY <1>0, <1>1, <2>3, <2>4, <2>5, <2>6 DEF IInv, RegionsOK, Remaps, Unowned
    <2>8. Spelled(memory', buf.at, buf.elem, rest, 0, new_len * buf.elem)
      <3>1. ASSUME NEW x \in OwnExtent, x < buf.at + splice_dst
            PROVE  memory'[x] = memory[x]
        <4>1. x \in Addresses /\ x \notin Extent(scratch, tail_mapped) /\ x \notin Extent(dst, tail_mapped)
          BY <1>1, <2>2, <3>1 DEF Extent, dst, Addresses
        <4>. QED  BY <2>4, <4>1 DEF Remaps
      <3>2. ASSUME NEW j \in 0 .. tail_bytes - 1
            PROVE  memory'[dst + j] = ByteOf(rest, buf.elem, splice_dst + j)
        <4>1. j \in 0 .. tail_mapped - 1 /\ dst + j \in Extent(dst, tail_mapped)
          BY <1>1, <2>2 DEF Extent
        <4>2. dst + j \in Addresses
          BY <1>1, <2>3, <4>1
        <4>. QED  BY <1>3, <2>4, <4>1, <4>2 DEF Remaps, TailIn
      <3>3. TailIn(memory', buf.at + splice_dst)
        BY <3>2 DEF TailIn, dst
      <3>. QED  BY <1>0, <1>2, <1>3, <3>1, <3>3, Arrived
    <2>9. ContentOK'
      BY <1>0, <1>5, <2>8, TailPlaced
    <2>10. \A x \in AlienExtent : memory'[x] = memory[x]
      BY <1>1, <2>3, <2>4 DEF Remaps
    <2>. QED  BY <1>0, <1>1, <1>2, <1>5, <2>4, <2>7, <2>9, <2>10, Moved DEF Stutters
  <1>. QED  BY <1>0, <1>4, <1>5

\* The tail is copied onto its place, from the scratch region or within the
\* buffer.
LEMMA TailCopied ==
    ASSUME IInv, pc \in {"rescue", "copy"}, NEW a \in Int, memcpy(a, buf.at + splice_dst, tail_bytes),
           Extent(a, tail_bytes) \subseteq Addresses, TailIn(memory, a)
    PROVE  /\ memory' \in Memories
           /\ Spelled(memory', buf.at, buf.elem, rest, 0, new_len * buf.elem)
           /\ \A x \in AlienExtent : memory'[x] = memory[x]
  <1> DEFINE dst == buf.at + splice_dst
  <1>1. Busy /\ LengthsOK /\ tail_bytes > 0 /\ memory \in Memories
    BY BusyFacts DEF Busy, IInv, CallOK, TypeOK, Memories
  <1>2. /\ buf.at \in Int /\ dst \in Int /\ splice_dst \in Nat /\ tail_bytes \in Nat
        /\ splice_dst + tail_bytes <= BufferBytes
    BY <1>1, BufferAddresses DEF IInv, LengthsOK
  <1>3. Spelled(memory, buf.at, buf.elem, rest, 0, splice_dst)
    BY DEF IInv, ContentOK
  <1>4. /\ Extent(dst, tail_bytes) \subseteq Addresses
        /\ Extent(dst, tail_bytes) \cap AlienExtent = {}
    BY <1>1, <1>2, InBuffer DEF Busy
  <1>. HIDE DEF dst
  <1>5. /\ memory' \in Memories
        /\ \A x \in Addresses : x \notin Extent(dst, tail_bytes) => memory'[x] = memory[x]
        /\ \A j \in 0 .. tail_bytes - 1 : dst + j \in Addresses => memory'[dst + j] = memory[a + j]
    <2>1. memcpy(a, dst, tail_bytes)
      BY DEF dst
    <2>. QED  BY <1>1, <1>2, <2>1, Copied
  <1>6. OwnExtent \subseteq Addresses /\ AlienExtent \subseteq Addresses
    BY DEF IInv, RegionsOK
  <1>7. Spelled(memory', buf.at, buf.elem, rest, 0, new_len * buf.elem)
    <2>1. ASSUME NEW x \in OwnExtent, x < buf.at + splice_dst
          PROVE  memory'[x] = memory[x]
      <3>1. x \in Addresses /\ x \notin Extent(dst, tail_bytes)
        BY <1>2, <1>6, <2>1 DEF Extent, dst, Addresses
      <3>. QED  BY <1>5, <3>1
    <2>2. ASSUME NEW j \in 0 .. tail_bytes - 1
          PROVE  memory'[dst + j] = ByteOf(rest, buf.elem, splice_dst + j)
      <3>1. dst + j \in Addresses
        BY <1>2, <1>4 DEF Extent
      <3>. QED  BY <1>5, <3>1 DEF TailIn
    <2>3. TailIn(memory', buf.at + splice_dst)
      BY <2>2 DEF TailIn, dst
    <2>. QED  BY <1>1, <1>3, <2>1, <2>3, Arrived
  <1>8. \A x \in AlienExtent : memory'[x] = memory[x]
    BY <1>4, <1>5, <1>6
  <1>. QED  BY <1>5, <1>7, <1>8

LEMMA RescueStep ==
    ASSUME IInv, Rescue
    PROVE  IInv' /\ Stutters
  <1>0. /\ pc = "rescue" /\ pc' = "discard" /\ memcpy(scratch, buf.at + splice_dst, tail_bytes)
        /\ UNCHANGED <<buf, made, alien, mapping, len, dropped, del, scratch, before>>
    BY DEF Rescue, GoesTo, locals
  <1>1. /\ Busy /\ tail_bytes \in Nat /\ tail_mapped \in Nat /\ tail_bytes <= tail_mapped
        /\ scratch \in Int /\ \A x \in Extent(scratch, tail_mapped) : x \in Addresses
        /\ SpaceOK /\ tail_bytes > 0
    BY <1>0, ScratchFacts
  <1>2. Extent(scratch, tail_bytes) \subseteq Addresses
    <2>1. Extent(scratch, tail_bytes) \subseteq Extent(scratch, tail_mapped)
      BY <1>1 DEF Extent
    <2>. QED  BY <1>1, <2>1
  <1>3. TailIn(memory, scratch)
    BY <1>0 DEF IInv, ContentOK
  <1>4. /\ memory' \in Memories
        /\ Spelled(memory', buf.at, buf.elem, rest, 0, new_len * buf.elem)
        /\ \A x \in AlienExtent : memory'[x] = memory[x]
    BY <1>0, <1>1, <1>2, <1>3, TailCopied
  <1>5. ContentOK'
    BY <1>0, <1>4, TailPlaced
  <1>6. RegionsOK'
    <2>1. OwnExtent' = OwnExtent /\ ScratchExtent' = ScratchExtent
      BY <1>0, SameLengths DEF OwnExtent, ScratchExtent
    <2>. QED  BY <1>0, <2>1, SameRegions DEF IInv
  <1>7. SpaceOK' /\ Busy' /\ pc' \in Stages /\ scratch' \in Addresses
    BY <1>0, <1>1, <1>4 DEF SpaceOK, Busy, Stages, IInv, TypeOK
  <1>. QED  BY <1>0, <1>1, <1>4, <1>5, <1>6, <1>7, Moved DEF Stutters

LEMMA DiscardStep ==
    ASSUME IInv, Discard
    PROVE  IInv' /\ Finishes
  <1>0. /\ pc = "discard" /\ Unmaps(scratch, tail_mapped) /\ Returns(new_len)
        /\ dropped' = dropped /\ pc' = "idle" /\ UNCHANGED <<buf, alien>>
    BY DEF Discard, Returns
  <1>1. SpaceOK' /\ RegionsOK' /\ \A x \in OwnExtent \cup AlienExtent : memory'[x] = memory[x]
    BY <1>0, ScratchReleased DEF Stages
  <1>2. Busy /\ LengthsOK
    BY <1>0, BusyFacts DEF Busy
  <1>3. /\ buf.at \in Int /\ \A o \in 0 .. BufferBytes - 1 : buf.at + o \in OwnExtent
    BY <1>0, BufferAddresses DEF IInv, OwnExtent
  <1>4. Spelled(memory', buf.at, buf.elem, rest, 0, new_len * buf.elem)
    <2>1. \A o \in 0 .. new_len * buf.elem - 1 : o \in 0 .. BufferBytes - 1
      BY <1>2 DEF LengthsOK
    <2>2. Spelled(memory, buf.at, buf.elem, rest, 0, new_len * buf.elem)
      BY <1>0 DEF IInv, ContentOK
    <2>. QED  BY <1>1, <1>3, <2>1, <2>2 DEF Spelled
  <1>. QED  BY <1>0, <1>1, <1>2, <1>4, Completed

LEMMA CopyStep ==
    ASSUME IInv, CopyInPlace
    PROVE  IInv' /\ Finishes
  <1>0. /\ pc = "copy" /\ memcpy(buf.at + splice_src, buf.at + splice_dst, tail_bytes)
        /\ Returns(new_len) /\ dropped' = dropped /\ mapping' = mapping
        /\ pc' = "idle" /\ UNCHANGED <<buf, alien>>
    BY DEF CopyInPlace, Returns
  <1>1. Busy /\ LengthsOK /\ tail_bytes > 0 /\ SpaceOK
    BY <1>0, BusyFacts DEF Busy, IInv, CallOK, TypeOK, SpaceOK, Memories
  <1>2. /\ buf.at + splice_src \in Int /\ splice_src \in Nat /\ tail_bytes \in Nat
        /\ splice_src + tail_bytes <= BufferBytes
    BY <1>1, BufferAddresses DEF IInv, LengthsOK
  <1>3. Extent(buf.at + splice_src, tail_bytes) \subseteq Addresses
    BY <1>0, <1>2, InBuffer
  <1>4. TailIn(memory, buf.at + splice_src)
    BY <1>0 DEF IInv, ContentOK
  <1>5. /\ memory' \in Memories
        /\ Spelled(memory', buf.at, buf.elem, rest, 0, new_len * buf.elem)
        /\ \A x \in AlienExtent : memory'[x] = memory[x]
    BY <1>0, <1>2, <1>3, <1>4, TailCopied
  <1>6. RegionsOK' /\ SpaceOK'
    BY <1>0, <1>1, <1>5, RegionsStay DEF SpaceOK
  <1>. QED  BY <1>0, <1>1, <1>5, <1>6, Completed

LEMMA TrimStep ==
    ASSUME IInv, Trim
    PROVE  IInv' /\ Finishes
  <1>0. /\ pc = "trim" /\ Returns(new_len) /\ dropped' = dropped /\ mapping' = mapping
        /\ pc' = "idle" /\ UNCHANGED <<buf, alien>>
        /\ \/ /\ mapped_end > used
              /\ memory' = Painted(memory, buf.at + used, mapped_end - used, Junk)
           \/ memory' = memory
    BY DEF Trim, Returns, madvise_free
  <1>1. Busy /\ LengthsOK /\ SpaceOK
    BY <1>0, BusyFacts DEF Busy, IInv, TypeOK, SpaceOK, Memories
  <1>2. /\ buf.at \in Int
        /\ \A o \in 0 .. BufferBytes - 1 : buf.at + o \in Addresses /\ buf.at + o \in OwnExtent
    BY <1>0, BufferAddresses DEF IInv, OwnExtent
  <1>3. Spelled(memory, buf.at, buf.elem, rest, 0, new_len * buf.elem)
    BY <1>0 DEF IInv, ContentOK
  <1>4. RegionsOK'
    BY <1>0, RegionsStay
  <1>5. CASE memory' = memory
    BY <1>0, <1>1, <1>3, <1>4, <1>5, Completed DEF SpaceOK
  <1>6. CASE mapped_end > used /\ memory' = Painted(memory, buf.at + used, mapped_end - used, Junk)
    <2> DEFINE n == mapped_end - used
    <2>1. n \in Nat /\ used \in Nat /\ used + n <= BufferBytes
      BY <1>1, <1>6 DEF LengthsOK
    <2>2. Extent(buf.at + used, n) \cap AlienExtent = {}
      BY <1>0, <2>1, InBuffer
    <2>. HIDE DEF n
    <2>3. /\ memory' \in Memories
          /\ \A x \in Addresses : x \notin Extent(buf.at + used, n) => memory'[x] = memory[x]
      BY <1>1, <1>6, Contents DEF Painted, SpaceOK, Memories, n
    <2>4. ASSUME NEW o \in 0 .. new_len * buf.elem - 1
          PROVE  memory'[buf.at + o] = ByteOf(rest, buf.elem, o)
      <3>1. o \in 0 .. BufferBytes - 1 /\ buf.at + o \notin Extent(buf.at + used, n)
        BY <1>1, <1>2, <2>1 DEF LengthsOK, Extent
      <3>. QED  BY <1>2, <1>3, <2>3, <3>1 DEF Spelled
    <2>5. Spelled(memory', buf.at, buf.elem, rest, 0, new_len * buf.elem)
      BY <2>4 DEF Spelled
    <2>6. \A x \in AlienExtent : memory'[x] = memory[x]
      BY <2>2, <2>3 DEF IInv, RegionsOK
    <2>. QED  BY <1>0, <1>1, <1>4, <2>3, <2>5, <2>6, Completed DEF SpaceOK
  <1>. QED  BY <1>0, <1>5, <1>6

-----------------------------------------------------------------------------
(* The steps between two calls *)

LEMMA DropsHeld ==
    ASSUME IInv, ~Busy, NEW lo \in Nat, NEW hi \in 0 .. len, lo <= hi, DropsElements(lo, hi)
    PROVE  /\ dropped' = DropsOf(held, dropped, lo, hi)
           /\ dropped' \in [Tokens -> Nat] /\ Alive(held, dropped', made, lo, hi)
  <1>1. /\ held = Elements(buf, 0, len) /\ Len(held) = len /\ len \in Nat
        /\ Alive(held, dropped, made, 0, 0)
    BY HeldWhole
  <1> DEFINE f(j) == ElementIn(memory, buf.at + j * buf.elem, buf.elem)
  <1>2. held = [i \in 1 .. len |-> f(i - 1)]
    BY <1>1, ElementsAre
  <1>3. \A i \in lo .. hi - 1 : ElementAt(ElementAddress(buf, i), buf.elem) = f(i)
    BY DEF ElementAt, ElementAddress, ReadsAs, ElementIn
  <1>. HIDE DEF f
  <1>4. \A i \in lo .. hi - 1 : held[i + 1] = f(i)
    <2>1. \A i \in lo .. hi - 1 : i + 1 \in 1 .. len /\ (i + 1) - 1 = i
      BY <1>1
    <2>. QED  BY <1>2, <2>1
  <1>5. dropped' = DropsOf(held, dropped, lo, hi)
    <2>1. ASSUME NEW t \in Tokens
          PROVE  (\E i \in lo .. hi - 1 : ElementAt(ElementAddress(buf, i), buf.elem) = t)
                 <=> (\E i \in lo .. hi - 1 : held[i + 1] = t)
      BY <1>3, <1>4
    <2>. QED  BY <2>1 DEF DropsElements, DropsOf
  <1>6. dropped \in [Tokens -> Nat] /\ made \in 0 .. MaxTokens
    BY DEF IInv, TypeOK
  <1>7. hi \in 0 .. Len(held)
    BY <1>1
  <1>. QED  BY <1>1, <1>5, <1>6, <1>7, AliveDrop

\* The vector loses its elements start .. end-1, of which those before hi are
\* dropped.
Removes(start, hi, end) ==
    /\ ~Busy /\ ~Busy' /\ held' = Cut(held, start, end)
    /\ dropped' = DropsOf(held, dropped, start, hi) /\ made' = made

LEMMA TruncateStep ==
    ASSUME IInv, pc = "idle", NEW start \in 0 .. len, NEW hi \in 0 .. len, start <= hi,
           DropsElements(start, hi), Returns(start), UNCHANGED <<mapping, memory>>
    PROVE  IInv' /\ Removes(start, hi, len)
  <1> DEFINE c == Cut(held, start, len)
  <1>1. ~Busy /\ start \in Nat /\ hi \in Nat /\ len \in Nat
    BY DEF Busy, IInv, TypeOK
  <1>2. /\ held \in Seq(Tokens) /\ Len(held) = len /\ len <= buf.cap
        /\ Spelled(memory, buf.at, buf.elem, held, 0, len * buf.elem)
    BY <1>1, HeldWhole
  <1>3. /\ dropped' = DropsOf(held, dropped, start, hi)
        /\ dropped' \in [Tokens -> Nat] /\ Alive(held, dropped', made, start, hi)
    BY <1>1, DropsHeld
  <1>4. Alive(c, dropped', made, 0, 0)
    <2>1. len \in 0 .. Len(held) /\ made \in Nat /\ hi <= len /\ len = Len(held)
      BY <1>1, <1>2 DEF IInv, TypeOK
    <2>. QED  BY <1>1, <1>3, <2>1, AliveCut
  <1>5. buf.elem \in Nat \ {0}
    BY BufferAddresses DEF IInv
  <1>6. Len(c) = start /\ CutsBytes(held, buf.elem, start, len)
    <2>1. start <= len /\ len <= Len(held)
      BY <1>1, <1>2
    <2>2. Len(c) = Len(held) - (len - start) /\ CutsBytes(held, buf.elem, start, len)
      BY <1>1, <1>2, <1>5, <2>1, CutBytes
    <2>. QED  BY <1>1, <1>2, <2>2
  <1>. HIDE DEF c
  <1>7. Spelled(memory', buf.at, buf.elem, c, 0, Len(c) * buf.elem)
    <2>1. start * buf.elem \in Nat /\ len * buf.elem \in Nat /\ start * buf.elem <= len * buf.elem
      BY <1>1, <1>5, MultiplesOrdered, SMT
    <2>2. ASSUME NEW o \in 0 .. start * buf.elem - 1
          PROVE  memory'[buf.at + o] = ByteOf(c, buf.elem, o)
      <3>1. ByteOf(c, buf.elem, o) = ByteOf(held, buf.elem, o)
        BY <1>6 DEF CutsBytes, c
      <3>2. o \in 0 .. len * buf.elem - 1
        BY <2>1
      <3>. QED  BY <1>2, <3>1, <3>2 DEF Spelled
    <2>. QED  BY <1>6, <2>2 DEF Spelled
  <1>8. SpaceOK' /\ RegionsOK'
    <2>1. UNCHANGED <<buf, alien>> /\ pc' = "idle"
      BY DEF Returns
    <2>. QED  BY <2>1, RegionsStay DEF SpaceOK, IInv, TypeOK, Memories
  <1>9. Returns(Len(c)) /\ Len(c) <= buf.cap
    BY <1>1, <1>2, <1>6, BufferAddresses DEF IInv
  <1>10. IInv' /\ held' = c /\ ~Busy'
    BY <1>3, <1>4, <1>7, <1>8, <1>9, Returned
  <1>. QED  BY <1>1, <1>3, <1>10 DEF Removes, Returns, c

LEMMA DeleteTailStep ==
    ASSUME IInv, NEW start \in 0 .. len, DeleteTail(start)
    PROVE  IInv' /\ Removes(start, len, len)
  <1>1. /\ pc = "idle" /\ DropsElements(start, len) /\ Returns(start) /\ UNCHANGED <<mapping, memory>>
    BY DEF DeleteTail, Idle
  <1>2. len \in 0 .. len /\ start <= len
    BY DEF IInv, TypeOK
  <1>. QED  BY <1>1, <1>2, TruncateStep

LEMMA SplicePanicsStep ==
    ASSUME IInv, NEW start \in 0 .. len, NEW end \in 0 .. len, SplicePanics(start, end)
    PROVE  IInv' /\ Removes(start, end, len)
  <1>1. /\ pc = "idle" /\ DropsElements(start, end) /\ Returns(start) /\ UNCHANGED <<mapping, memory>>
        /\ start <= end
    BY DEF SplicePanics, Idle, IInv, TypeOK
  <1>. QED  BY <1>1, TruncateStep

\* The elements of a part of the vector.
LEMMA HeldPart ==
    ASSUME IInv, ~Busy, NEW end \in 0 .. len
    PROVE  Elements(buf, end, len) = Cut(held, 0, end)
  <1>1. held = Elements(buf, 0, len) /\ Len(held) = len /\ len \in Nat
    BY HeldWhole
  <1> DEFINE f(j) == ElementIn(memory, buf.at + j * buf.elem, buf.elem)
  <1>2. held = [i \in 1 .. len |-> f(i - 1)]
    BY <1>1, ElementsAre
  <1>3. Elements(buf, end, len) = [i \in 1 .. len - end |-> f(end + i - 1)]
    BY ElementsAre
  <1>. HIDE DEF f
  <1>4. ASSUME NEW i \in 1 .. len - end
        PROVE  held[i + end] = f(end + i - 1)
    <2>1. i + end \in 1 .. len /\ (i + end) - 1 = end + i - 1
      BY <1>1
    <2>. QED  BY <1>2, <2>1
  <1>5. Cut(held, 0, end) = [i \in 1 .. len - end |-> held[i + end]]
    <2>1. 1 .. Len(held) - (end - 0) = 1 .. len - end
          /\ \A i \in 1 .. len - end : ~(i <= 0) /\ i + (end - 0) = i + end
      BY <1>1
    <2>. QED  BY <2>1 DEF Cut
  <1>. QED  BY <1>3, <1>4, <1>5

LEMMA DeleteDrainStep ==
    ASSUME IInv, NEW start \in 0 .. len, NEW end \in 0 .. len, DeleteDrain(start, end)
    PROVE  IInv' /\ Removes(start, end, end)
  <1> DEFINE c == Cut(held, start, end)
             t == Cut(held, 0, end)
             e == buf.elem
  <1>1. /\ pc = "idle" /\ DropsElements(start, end) /\ mapping' = mapping
        /\ memory' = Stored(memory, buf, start, Elements(buf, end, len))
        /\ Returns(start + len - end)
        /\ start < end /\ end < len
    BY DEF DeleteDrain, Idle
  <1>2. ~Busy /\ start \in Nat /\ end \in Nat /\ len \in Nat /\ start <= end
    BY <1>1 DEF Busy, IInv, TypeOK
  <1>3. /\ held \in Seq(Tokens) /\ Len(held) = len /\ len <= buf.cap
        /\ Spelled(memory, buf.at, buf.elem, held, 0, len * buf.elem)
    BY <1>2, HeldWhole
  <1>4. /\ dropped' = DropsOf(held, dropped, start, end)
        /\ dropped' \in [Tokens -> Nat] /\ Alive(held, dropped', made, start, end)
    BY <1>1, <1>2, DropsHeld
  <1>5. end \in 0 .. Len(held) /\ end <= Len(held) /\ made \in Nat
    BY <1>2, <1>3 DEF IInv, TypeOK
  <1>6. Alive(c, dropped', made, 0, 0)
    BY <1>2, <1>4, <1>5, AliveCut
  <1>7. /\ buf.at \in Int /\ e \in Nat \ {0} /\ buf.cap \in Nat /\ BufferBytes \in Nat
        /\ \A o \in 0 .. BufferBytes - 1 : buf.at + o \in Addresses
        /\ \A n \in 0 .. buf.cap : n * e \in Nat /\ n * e <= BufferBytes
    BY BufferAddresses DEF IInv
  <1>8. memory \in Memories
    BY DEF IInv, TypeOK, Memories
  <1>9. Len(c) = start + len - end
    <2>1. Len(c) = Len(held) - (end - start)
      BY <1>2, <1>3, <1>5, <1>7, CutBytes
    <2>. QED  BY <1>2, <1>3, <2>1
  <1>10. t \in Seq(Tokens) /\ Len(t) = len - end /\ memory' = Stored(memory, buf, start, t)
    <2>1. 0 \in Nat /\ 0 <= end /\ Len(held) - (end - 0) = len - end
      BY <1>2, <1>3
    <2>2. t \in Seq(Tokens) /\ Len(t) = Len(held) - (end - 0)
      BY <1>2, <1>3, <1>5, <1>7, <2>1, CutBytes
    <2>. QED  BY <1>1, <1>2, <2>1, <2>2, HeldPart
  <1>11. Spelled(memory', buf.at, buf.elem, c, 0, Len(c) * buf.elem)
    <2>1. \A o \in 0 .. Len(held) * buf.elem - 1 : buf.at + o \in Addresses
      <3>1. Len(held) \in 0 .. buf.cap
        BY <1>2, <1>3, <1>7
      <3>2. Len(held) * e \in Nat /\ Len(held) * e <= BufferBytes
        BY <1>7, <3>1
      <3>3. \A o \in 0 .. Len(held) * e - 1 : o \in 0 .. BufferBytes - 1
        BY <1>7, <3>2
      <3>. QED  BY <1>7, <3>3
    <2>2. Spelled(Stored(memory, buf, start, t), buf.at, buf.elem, c, 0,
                  (Len(held) - (end - start)) * buf.elem)
      BY <1>2, <1>3, <1>5, <1>7, <1>8, <2>1, DrainBytes
    <2>3. Len(held) - (end - start) = Len(c)
      BY <1>2, <1>3, <1>9
    <2>. QED  BY <1>10, <2>2, <2>3
  <1>. HIDE DEF t, c
  <1>12. memory' \in Memories /\ Stores(memory, buf.at, buf.elem, start, t, memory')
    BY <1>2, <1>7, <1>8, <1>10, StoredBytes
  <1>13. \A x \in AlienExtent : memory'[x] = memory[x]
    <2> DEFINE lo == start * e
               n == (len - end) * e
    <2>1. lo \in Nat /\ n \in Nat /\ lo + n <= BufferBytes
      <3>1. start \in 0 .. buf.cap /\ len - end \in 0 .. buf.cap /\ start + (len - end) \in 0 .. buf.cap
        BY <1>1, <1>2, <1>3, <1>7
      <3>2. (start + (len - end)) * e = lo + n
        <4>. HIDE DEF e
        <4>1. start \in Int /\ len - end \in Int /\ e \in Int
          BY <1>2, <1>7
        <4>. QED  BY <4>1, SMT
      <3>3. (start + (len - end)) * e <= BufferBytes
        BY <1>7, <3>1
      <3>. QED  BY <1>7, <3>1, <3>2, <3>3
    <2>2. Extent(buf.at + lo, n) \cap AlienExtent = {}
      <3>. HIDE DEF lo, n
      <3>. QED  BY <1>1, <2>1, InBuffer
    <2>3. \A x \in Addresses : x \notin Extent(buf.at + lo, n) => memory'[x] = memory[x]
      BY <1>10, <1>12 DEF Stores
    <2>4. AlienExtent \subseteq Addresses
      BY DEF IInv, RegionsOK
    <2>. QED  BY <2>2, <2>3, <2>4
  <1>14. SpaceOK' /\ RegionsOK'
    <2>1. UNCHANGED <<buf, alien>> /\ pc' = "idle"
      BY <1>1 DEF Returns
    <2>. QED  BY <1>1, <1>12, <2>1, RegionsStay DEF SpaceOK, IInv, TypeOK
  <1>15. Returns(Len(c)) /\ Len(c) <= buf.cap
    BY <1>1, <1>2, <1>3, <1>7, <1>9
  <1>16. IInv' /\ held' = c /\ ~Busy'
    BY <1>4, <1>6, <1>11, <1>13, <1>14, <1>15, Returned
  <1>. QED  BY <1>1, <1>2, <1>4, <1>16 DEF Removes, Returns, c

\* delete_range starts to move pages: the vector still has all its elements,
\* and those of the range have been dropped.
Begins(start, end) ==
    /\ ~Busy /\ Busy' /\ held' = held /\ del'.start = start /\ del'.end = end
    /\ dropped' = DropsOf(held, dropped, start, end) /\ made' = made

LEMMA SpliceBeginStep ==
    ASSUME IInv, NEW start \in 0 .. len, NEW end \in 0 .. len, SpliceBegin(start, end)
    PROVE  IInv' /\ Begins(start, end)
  <1>1. /\ pc = "idle" /\ DropsElements(start, end) /\ UNCHANGED <<mapping, memory, scratch>>
        /\ UNCHANGED <<buf, made, alien>> /\ pc' = "patch"
        /\ del' = Deletion(start, end, len) /\ before' = Elements(buf, 0, len) /\ len' = start
        /\ start < end /\ end < len /\ FitsPages(start, end)
    BY DEF SpliceBegin, Idle, GoesTo
  <1>2. ~Busy /\ Busy' /\ start \in Nat /\ end \in Nat /\ len \in Nat /\ start <= end
    BY <1>1 DEF Busy, IInv, TypeOK
  <1>3. /\ held = Elements(buf, 0, len) /\ held \in Seq(Tokens) /\ Len(held) = len /\ len <= buf.cap
        /\ Spelled(memory, buf.at, buf.elem, held, 0, len * buf.elem)
    BY <1>2, HeldWhole
  <1>4. /\ dropped' = DropsOf(held, dropped, start, end)
        /\ dropped' \in [Tokens -> Nat] /\ Alive(held, dropped', made, start, end)
    BY <1>1, <1>2, DropsHeld
  <1>5. before' = held /\ held' = held
    BY <1>1, <1>2, <1>3 DEF held
  <1>6. del'.start = start /\ del'.end = end /\ del'.length = len
    BY <1>1 DEF Deletion
  <1>7. buf.elem \in Nat \ {0} /\ buf.cap \in Nat
    BY BufferAddresses DEF IInv
  <1>8. TypeOK'
    BY <1>1, <1>2, <1>3, <1>4, <1>7 DEF TypeOK, IInv, Stages, Deletion
  <1>9. RegionsOK'
    BY <1>1, RegionsStay
  <1>10. OthersUntouched'
    BY <1>1 DEF IInv, OthersUntouched, AlienExtent
  <1>11. CallOK'
    <2>1. DeletionOK'
      BY <1>1, <1>2, <1>3, <1>6, <1>7 DEF DeletionOK, FitsPages
    <2>. QED  BY <1>1, <1>2, <1>3, <1>5, <1>6, <2>1 DEF CallOK, IInv
  <1>12. ContentOK'
    <2>1. byte_len' = len * buf.elem
      BY <1>1, <1>6 DEF byte_len
    <2>2. Spelled(memory, buf.at, buf.elem, held, 0, len * buf.elem)'
           <=> Spelled(memory', buf'.at, buf'.elem, held', 0, len' * buf'.elem)
      OBVIOUS
    <2>3. Spelled(memory', buf'.at, buf'.elem, before', 0, byte_len')
      BY <1>1, <1>3, <1>5, <2>1
    <2>. QED  BY <1>1, <2>3 DEF ContentOK
  <1>13. HeldOK'
    BY <1>1, <1>4, <1>5, <1>6 DEF HeldOK
  <1>. QED  BY <1>1, <1>2, <1>4, <1>5, <1>6, <1>8, <1>9, <1>10, <1>11, <1>12, <1>13
            DEF IInv, Begins

Pushes == ~Busy /\ ~Busy' /\ made < MaxTokens /\ made' = made + 1
          /\ held' = Append(held, made + 1) /\ dropped' = dropped

LEMMA PushStep ==
    ASSUME IInv, Push
    PROVE  IInv' /\ Pushes
  <1> DEFINE s == Append(held, made + 1)
             e == buf.elem
             x == <<made + 1>>
  <1>1. /\ pc = "idle" /\ len < buf.cap /\ made < MaxTokens /\ made' = made + 1 /\ len' = len + 1
        /\ memory' = Stored(memory, buf, len, x)
        /\ UNCHANGED <<mapping, buf, pc, dropped, del, scratch, before, alien>>
    BY DEF Push, Idle, locals
  <1>2. ~Busy /\ made \in Nat /\ made + 1 \in Tokens /\ made + 1 \in 0 .. MaxTokens /\ del = NoDeletion
        /\ before = <<>> /\ scratch \in Addresses /\ dropped \in [Tokens -> Nat] /\ memory \in Memories
    BY <1>1, MaxTokensAssumption DEF Busy, IInv, TypeOK, Tokens, CallOK, Memories
  <1>3. /\ held \in Seq(Tokens) /\ Len(held) = len /\ len \in Nat
        /\ Alive(held, dropped, made, 0, 0)
        /\ Spelled(memory, buf.at, buf.elem, held, 0, len * buf.elem)
    BY <1>2, HeldWhole
  <1>4. s \in Seq(Tokens) /\ Len(s) = len + 1 /\ Len(s) <= buf.cap
    BY <1>1, <1>2, <1>3, BufferAddresses DEF IInv
  <1>5. Alive(s, dropped', made', 0, 0)
    BY <1>1, <1>2, <1>3, AlivePush
  <1>6. /\ buf.at \in Int /\ e \in Nat \ {0} /\ buf.cap \in Nat /\ BufferBytes \in Nat
        /\ \A o \in 0 .. BufferBytes - 1 : buf.at + o \in Addresses
        /\ \A n \in 0 .. buf.cap : n * e \in Nat /\ n * e <= BufferBytes
    BY BufferAddresses DEF IInv
  <1>7. len \in 0 .. buf.cap /\ len + 1 \in 0 .. buf.cap /\ x \in Seq(Tokens) /\ Len(x) = 1
    BY <1>1, <1>2, <1>3, <1>6
  <1>8. Spelled(memory', buf.at, buf.elem, s, 0, Len(s) * buf.elem)
    <2>1. \A o \in 0 .. (Len(held) + 1) * buf.elem - 1 : buf.at + o \in Addresses
      <3>1. (len + 1) * e \in Nat /\ (len + 1) * e <= BufferBytes
        BY <1>6, <1>7
      <3>2. \A o \in 0 .. (len + 1) * e - 1 : o \in 0 .. BufferBytes - 1
        BY <1>6, <3>1
      <3>. QED  BY <1>3, <1>6, <3>2
    <2>2. Spelled(Stored(memory, buf, Len(held), x), buf.at, buf.elem, s, 0,
                  (Len(held) + 1) * buf.elem)
      BY <1>2, <1>3, <1>6, <2>1, PushBytes
    <2>. QED  BY <1>1, <1>3, <1>4, <2>2
  <1>. HIDE DEF s, x
  <1>9. memory' \in Memories /\ Stores(memory, buf.at, buf.elem, len, x, memory')
    BY <1>1, <1>2, <1>3, <1>6, <1>7, StoredBytes
  <1>10. \A y \in AlienExtent : memory'[y] = memory[y]
    <2> DEFINE lo == len * e
               n == 1 * e
    <2>1. lo \in Nat /\ n \in Nat /\ lo + n <= BufferBytes
      <3>1. (len + 1) * e = lo + n
        <4>. HIDE DEF e
        <4>. QED  BY <1>3, <1>6, SMT
      <3>2. (len + 1) * e <= BufferBytes /\ lo \in Nat
        BY <1>6, <1>7
      <3>. QED  BY <1>6, <3>1, <3>2
    <2>2. Extent(buf.at + lo, n) \cap AlienExtent = {}
      <3>. HIDE DEF lo, n
      <3>. QED  BY <1>1, <2>1, InBuffer
    <2>3. \A y \in Addresses : y \notin Extent(buf.at + lo, n) => memory'[y] = memory[y]
      BY <1>7, <1>9 DEF Stores
    <2>4. AlienExtent \subseteq Addresses
      BY DEF IInv, RegionsOK
    <2>. QED  BY <2>2, <2>3, <2>4
  <1>11. SpaceOK' /\ RegionsOK'
    BY <1>1, <1>9, RegionsStay DEF SpaceOK, IInv, TypeOK
  <1>12. IInv' /\ held' = s /\ ~Busy'
    BY <1>1, <1>2, <1>4, <1>5, <1>8, <1>10, <1>11, Settled
  <1>. QED  BY <1>1, <1>2, <1>12 DEF Pushes, s

\* The buffer is given back whole.
LEMMA BufferReleased ==
    ASSUME IInv, pc = "idle", Deallocates(buf)
    PROVE  SpaceOK' /\ GivesBack(OwnExtent)
  <1> DEFINE n == CapBytes(buf)
  <1>1. buf.at \in Int /\ n \in Nat /\ BufferBytes \in Nat /\ SpaceOK
    BY BufferAddresses DEF IInv, TypeOK, SpaceOK, Memories
  <1>2. OwnExtent = Extent(buf.at, BlockSize(n)) /\ BufferBytes = BlockSize(n)
    BY DEF OwnExtent, Extents, BufferBytes
  <1>3. /\ \A x \in OwnExtent : x \in Addresses /\ mapping[x] = KindOf(n)
        /\ KindOf(n) = "giant" => buf.at % GiganticPage = 0
    BY DEF IInv, RegionsOK, CallOK
  <1>4. \/ uses_mmap(n) /\ Unmaps(buf.at, mapped_size(n))
        \/ ~uses_mmap(n) /\ free(buf.at, n)
    BY DEF Deallocates
  <1>. HIDE DEF n
  <1>5. CASE uses_mmap(n) /\ Unmaps(buf.at, mapped_size(n))
    <2>1. BlockSize(n) = mapped_size(n)
      BY <1>5 DEF BlockSize
    <2>2. ~Splits(buf.at, mapped_size(n))
      <3>1. CASE uses_giant_pages(n)
        <4>1. KindOf(n) = "giant"
          BY <1>5, <3>1 DEF KindOf
        <4>2. PICK k \in Nat : mapped_size(n) = k * GiganticPage
          BY <1>1, <3>1, RoundUpBounds, GiganticPageAssumption DEF mapped_size
        <4>3. mapped_size(n) % GiganticPage = 0
          <5>1. 0 \in 0 .. GiganticPage - 1 /\ GiganticPage \in Nat \ {0}
            BY GiganticPageAssumption
          <5>2. (k * GiganticPage + 0) % GiganticPage = 0
            BY <5>1, ByteOfElement
          <5>3. k * GiganticPage \in Int
            BY <5>1
          <5>. QED  BY <4>2, <5>2, <5>3
        <4>. QED  BY <1>3, <4>1, <4>3 DEF Splits
      <3>2. CASE ~uses_giant_pages(n)
        <4>1. KindOf(n) = "pages"
          BY <1>5, <3>2 DEF KindOf
        <4>. QED  BY <1>2, <1>3, <2>1, <4>1 DEF Splits
      <3>. QED  BY <3>1, <3>2
    <2>3. mapped_size(n) \in Nat
      BY <1>1, <1>2, <2>1
    <2>. QED  BY <1>1, <1>2, <1>5, <2>1, <2>2, <2>3, Released
  <1>6. CASE ~uses_mmap(n) /\ free(buf.at, n)
    <2>1. BlockSize(n) = n /\ KindOf(n) = "heap"
      BY <1>6 DEF BlockSize, KindOf
    <2>2. Covers(buf.at, n, "heap")
      BY <1>2, <1>3, <2>1 DEF Covers
    <2>3. /\ mapping' = Painted(mapping, buf.at, BlockSize(n), "none")
          /\ memory' = Painted(memory, buf.at, BlockSize(n), Junk)
      BY <1>6, <2>1, <2>2 DEF free
    <2>. QED  BY <1>1, <1>2, <2>3, Contents
              DEF Painted, SpaceOK, Memories, Kinds, GivesBack, Unowned
  <1>. QED  BY <1>4, <1>5, <1>6

LEMMA DropVecStep ==
    ASSUME IInv, DropVec
    PROVE  IInv' /\ Removes(0, len, len)
  <1> DEFINE c == Cut(held, 0, len)
  <1>1. /\ pc = "idle" /\ DropsElements(0, len) /\ Deallocates(buf) /\ len' = 0 /\ pc' = "gone"
        /\ UNCHANGED <<buf, del, scratch, before, made, alien>>
    BY DEF DropVec, Idle, locals
  <1>2. ~Busy /\ ~Busy' /\ len \in Nat /\ 0 \in Nat /\ 0 <= len
    BY <1>1 DEF Busy, IInv, TypeOK
  <1>3. held \in Seq(Tokens) /\ Len(held) = len
    BY <1>2, HeldWhole
  <1>4. /\ dropped' = DropsOf(held, dropped, 0, len)
        /\ dropped' \in [Tokens -> Nat] /\ Alive(held, dropped', made, 0, len)
    <2>1. len \in 0 .. len
      BY <1>2
    <2>. QED  BY <1>1, <1>2, <2>1, DropsHeld
  <1>5. c = <<>>
    <2>1. 1 .. Len(held) - (len - 0) = {}
      BY <1>2, <1>3
    <2>. QED  BY <2>1 DEF Cut
  <1>6. held' = <<>>
    <2>1. Elements(buf, 0, len)' = <<>>
      BY <1>1, ElementsAreNext
    <2>. QED  BY <1>2, <2>1 DEF held
  <1>7. Alive(c, dropped', made, 0, 0)
    <2>1. len \in 0 .. Len(held) /\ made \in Nat /\ len <= len /\ len = Len(held)
      BY <1>2, <1>3 DEF IInv, TypeOK
    <2>. QED  BY <1>2, <1>4, <2>1, AliveCut
  <1>. HIDE DEF c
  <1>8. SpaceOK' /\ GivesBack(OwnExtent)
    BY <1>1, BufferReleased
  <1>9. OwnExtent' = {} /\ ScratchExtent' = {} /\ ScratchExtent = {} /\ AlienExtent' = AlienExtent
    BY <1>1 DEF OwnExtent, ScratchExtent, AlienExtent
  <1>10. TypeOK'
    BY <1>1, <1>4, <1>8, BufferAddresses DEF TypeOK, IInv, SpaceOK, Memories, Stages
  <1>11. RegionsOK'
    BY <1>1, <1>8, <1>9 DEF IInv, RegionsOK, GivesBack
  <1>12. OthersUntouched'
    BY <1>1, <1>8, <1>9 DEF IInv, OthersUntouched, RegionsOK, GivesBack
  <1>13. CallOK' /\ ContentOK'
    BY <1>1, <1>2 DEF CallOK, ContentOK, IInv
  <1>14. HeldOK'
    <2>1. del = NoDeletion
      BY <1>2 DEF IInv, CallOK
    <2>. QED  BY <1>1, <1>5, <1>6, <1>7, <2>1 DEF HeldOK, NoDeletion, Deletion
  <1>. QED  BY <1>1, <1>2, <1>4, <1>5, <1>6, <1>10, <1>11, <1>12, <1>13, <1>14
            DEF IInv, Removes, c

-----------------------------------------------------------------------------
(* The other thread *)

\* Where the vector's memory stays, so do its elements.
LEMMA Undisturbed ==
    ASSUME IInv, UNCHANGED <<buf, len, pc, dropped, made, del, scratch, before>>,
           \A x \in OwnExtent \cup ScratchExtent : memory'[x] = memory[x],
           SpaceOK', RegionsOK', OthersUntouched', alien' \in Addresses \cup {NoPage}
    PROVE  IInv' /\ Stutters
  <1>1. TypeOK'
    BY DEF TypeOK, IInv, SpaceOK, Memories
  <1>2. CallOK'
    BY SameLengths DEF CallOK, IInv, Busy
  <1>3. pc # "gone" =>
           /\ buf.at \in Int /\ buf.elem \in Nat \ {0} /\ buf.cap \in Nat /\ BufferBytes \in Nat
           /\ \A o \in 0 .. BufferBytes - 1 : buf.at + o \in OwnExtent
           /\ \A n \in 0 .. buf.cap : n * buf.elem \in Nat /\ n * buf.elem <= BufferBytes
    BY BufferAddresses DEF IInv, OwnExtent
  <1>4. ASSUME pc # "gone", NEW s, NEW n \in Int, n <= BufferBytes,
               Spelled(memory, buf.at, buf.elem, s, 0, n)
        PROVE  Spelled(memory', buf.at, buf.elem, s, 0, n)
    <2>1. \A o \in 0 .. n - 1 : o \in 0 .. BufferBytes - 1
      BY <1>3, <1>4
    <2>. QED  BY <1>3, <1>4, <2>1 DEF Spelled
  <1>5. held' = held
    <2>1. CASE Busy
      BY <2>1 DEF held, Busy
    <2>2. CASE pc = "idle"
      <3>1. ~Busy /\ ~Busy'
        BY <2>2 DEF Busy
      <3>2. /\ held \in Seq(Tokens) /\ Len(held) = len /\ len \in Nat /\ len <= buf.cap
            /\ Spelled(memory, buf.at, buf.elem, held, 0, len * buf.elem)
        BY <3>1, HeldWhole
      <3>3. len * buf.elem \in Nat /\ len * buf.elem <= BufferBytes
        BY <1>3, <2>2, <3>2
      <3>4. Spelled(memory', buf.at, buf.elem, held, 0, Len(held) * buf.elem)
        BY <1>4, <2>2, <3>2, <3>3
      <3>. QED  BY <1>3, <2>2, <3>1, <3>2, <3>4, HeldNext
    <2>3. CASE pc = "gone"
      <3>1. len = 0 /\ len' = 0 /\ ~Busy /\ ~Busy'
        BY <2>3 DEF Busy, IInv, CallOK
      <3>2. Elements(buf, 0, len) = <<>> /\ Elements(buf, 0, len)' = <<>>
        BY <3>1, ElementsAre, ElementsAreNext
      <3>. QED  BY <3>1, <3>2 DEF held
    <2>. QED  BY <2>1, <2>2, <2>3 DEF Busy
  <1>6. HeldOK'
    BY <1>5 DEF HeldOK, IInv
  <1>7. ContentOK'
    <2>1. CASE ~Busy
      BY <2>1 DEF ContentOK, Busy
    <2>2. CASE Busy
      <3>1. LengthsOK /\ pc # "gone" /\ byte_len' = byte_len
        BY <2>2, BusyFacts, SameLengths DEF Busy
      <3>2. CASE pc = "patch"
        <4>1. Spelled(memory', buf.at, buf.elem, before, 0, byte_len)
          BY <1>4, <3>1, <3>2 DEF LengthsOK, IInv, ContentOK
        <4>. QED  BY <3>1, <3>2, <4>1 DEF ContentOK
      <3>3. CASE pc \in {"reserve", "lift", "copy"}
        BY <3>3, BufferKept, TailInBuffer
      <3>4. CASE pc \in {"place", "rescue"}
        <4>1. splice_dst \in Int /\ splice_dst <= BufferBytes
          <5>1. tail_bytes > 0
            BY <2>2, <3>4 DEF IInv, CallOK
          <5>. QED  BY <3>1, <5>1 DEF LengthsOK
        <4>2. Spelled(memory', buf.at, buf.elem, rest, 0, splice_dst)
          BY <1>4, <3>1, <3>4, <4>1 DEF IInv, ContentOK
        <4>3. /\ tail_bytes \in Nat /\ tail_mapped \in Nat /\ tail_bytes <= tail_mapped
              /\ scratch \in Int /\ ScratchExtent = Extent(scratch, tail_mapped)
          BY <3>4, ScratchFacts
        <4>4. TailIn(memory', scratch')
          <5>1. \A j \in 0 .. tail_bytes - 1 : scratch + j \in ScratchExtent
            BY <4>3 DEF Extent
          <5>. QED  BY <3>4, <5>1 DEF TailIn, IInv, ContentOK
        <4>. QED  BY <3>4, <4>2, <4>4, TailInScratch
      <3>5. CASE pc \in {"discard", "trim"}
        <4>1. Spelled(memory', buf.at, buf.elem, rest, 0, new_len * buf.elem)
          <5>1. new_len * buf.elem \in Int /\ new_len * buf.elem <= BufferBytes
            BY <3>1 DEF LengthsOK
          <5>. QED  BY <1>4, <3>1, <3>5, <5>1 DEF IInv, ContentOK
        <4>. QED  BY <3>5, <4>1, TailPlaced
      <3>6. pc \in Stages
        BY DEF IInv, TypeOK
      <3>. QED  BY <2>2, <3>2, <3>3, <3>4, <3>5, <3>6 DEF Busy, Stages
    <2>. QED  BY <2>1, <2>2
  <1>. QED  BY <1>1, <1>2, <1>5, <1>6, <1>7 DEF IInv, Stutters, Busy

LEMMA AlienMapsStep ==
    ASSUME IInv, AlienMaps
    PROVE  IInv' /\ Stutters
  <1>1. PICK a \in Addresses :
           /\ Covers(a, Page, "none") /\ alien' = a
           /\ mapping' = Painted(mapping, a, Page, "pages")
           /\ memory' = Painted(memory, a, Page, Foreign)
    BY DEF AlienMaps
  <1>2. alien = NoPage /\ UNCHANGED <<buf, len, pc, dropped, made, del, scratch, before>>
    BY DEF AlienMaps, locals
  <1>3. /\ AlienExtent = {} /\ AlienExtent' = Extent(a, Page)
        /\ OwnExtent' = OwnExtent /\ ScratchExtent' = ScratchExtent
    BY <1>1, <1>2, SameLengths, NoPageAssumption DEF AlienExtent, OwnExtent, ScratchExtent
  <1>4. SpaceOK
    BY DEF SpaceOK, IInv, TypeOK, Memories
  <1>5. /\ \A x \in OwnExtent \cup ScratchExtent : x \in Addresses /\ mapping[x] # "none"
        /\ Extent(a, Page) \subseteq Addresses /\ \A x \in Extent(a, Page) : mapping[x] = "none"
    BY <1>1 DEF IInv, RegionsOK, KindOf, Covers
  <1>6. /\ SpaceOK'
        /\ \A x \in Addresses : mapping'[x] = IF x \in Extent(a, Page) THEN "pages" ELSE mapping[x]
        /\ \A x \in Addresses : memory'[x] = IF x \in Extent(a, Page) THEN Foreign ELSE memory[x]
    BY <1>1, <1>4, Contents DEF Painted, SpaceOK, Memories, Kinds
  <1>7. RegionsOK'
    BY <1>2, <1>3, <1>5, <1>6 DEF IInv, RegionsOK
  <1>8. OthersUntouched'
    BY <1>3, <1>5, <1>6 DEF OthersUntouched
  <1>9. \A x \in OwnExtent \cup ScratchExtent : memory'[x] = memory[x]
    BY <1>5, <1>6
  <1>. QED  BY <1>1, <1>2, <1>6, <1>7, <1>8, <1>9, Undisturbed

LEMMA AlienUnmapsStep ==
    ASSUME IInv, AlienUnmaps
    PROVE  IInv' /\ Stutters
  <1>1. /\ alien # NoPage /\ alien' = NoPage /\ munmap(alien, Page)
        /\ UNCHANGED <<buf, len, pc, dropped, made, del, scratch, before>>
    BY DEF AlienUnmaps, locals
  <1>2. /\ AlienExtent = Extent(alien, Page) /\ AlienExtent' = {}
        /\ OwnExtent' = OwnExtent /\ ScratchExtent' = ScratchExtent
    BY <1>1, SameLengths DEF AlienExtent, OwnExtent, ScratchExtent
  <1>3. SpaceOK /\ alien \in Int /\ Page \in Nat
    BY <1>1, PageAssumption DEF SpaceOK, IInv, TypeOK, Memories, Addresses
  <1>4. /\ \A x \in OwnExtent \cup ScratchExtent : x \in Addresses /\ x \notin Extent(alien, Page)
        /\ \A x \in Extent(alien, Page) : x \in Addresses /\ mapping[x] = "pages"
    BY <1>2 DEF IInv, RegionsOK
  <1>5. SpaceOK' /\ GivesBack(Extent(alien, Page))
    <2>1. ~Splits(alien, Page) /\ Unmaps(alien, Page)
      BY <1>1, <1>4 DEF Splits, Unmaps
    <2>. QED  BY <1>1, <1>3, <2>1, Released
  <1>6. RegionsOK'
    BY <1>1, <1>2, <1>4, <1>5 DEF IInv, RegionsOK, GivesBack
  <1>7. OthersUntouched'
    BY <1>1 DEF OthersUntouched
  <1>8. \A x \in OwnExtent \cup ScratchExtent : memory'[x] = memory[x]
    BY <1>4, <1>5 DEF GivesBack
  <1>. QED  BY <1>1, <1>5, <1>6, <1>7, <1>8, Undisturbed

LEMMA StutterStep ==
    ASSUME IInv, UNCHANGED vars
    PROVE  IInv' /\ Stutters
  <1>1. UNCHANGED <<mapping, memory, buf, len, pc, del, scratch, dropped, made, alien, before>>
    BY DEF vars
  <1>2. AlienExtent' = AlienExtent /\ OwnExtent' = OwnExtent /\ ScratchExtent' = ScratchExtent
    BY <1>1, SameLengths DEF AlienExtent, OwnExtent, ScratchExtent
  <1>3. SpaceOK'
    BY <1>1 DEF SpaceOK, IInv, TypeOK, Memories
  <1>4. RegionsOK'
    BY <1>1, <1>2, SameRegions DEF IInv
  <1>5. OthersUntouched'
    BY <1>1, <1>2 DEF IInv, OthersUntouched
  <1>6. alien' \in Addresses \cup {NoPage}
    BY <1>1 DEF IInv, TypeOK
  <1>. QED  BY <1>1, <1>3, <1>4, <1>5, <1>6, Undisturbed

-----------------------------------------------------------------------------
(* Theorems *)

\* The vector starts with elements that are whole.
LEMMA InitHolds ==
    ASSUME Init
    PROVE  /\ IInv
           /\ held = [i \in 1 .. made |-> i] /\ ~Busy /\ dropped = [t \in Tokens |-> 0]
  <1>1. PICK at \in Places, shape \in Shapes : \E n \in 0 .. shape[2] :
          /\ n <= MaxTokens
          /\ buf = Buffer(at, shape[1], shape[2])
          /\ Extents(buf) \subseteq Addresses
          /\ KindOf(CapBytes(buf)) = "giant" => at % GiganticPage = 0
          /\ len = n /\ made = n
          /\ mapping = [x \in Addresses |->
                           IF x \in Extents(buf) THEN KindOf(CapBytes(buf)) ELSE "none"]
          /\ memory = Stored([x \in Addresses |-> Junk], buf, 0, [i \in 1 .. n |-> i])
    BY DEF Init
  <1>2. PICK n \in 0 .. shape[2] :
          /\ n <= MaxTokens
          /\ buf = Buffer(at, shape[1], shape[2])
          /\ Extents(buf) \subseteq Addresses
          /\ KindOf(CapBytes(buf)) = "giant" => at % GiganticPage = 0
          /\ len = n /\ made = n
          /\ mapping = [x \in Addresses |->
                           IF x \in Extents(buf) THEN KindOf(CapBytes(buf)) ELSE "none"]
          /\ memory = Stored([x \in Addresses |-> Junk], buf, 0, [i \in 1 .. n |-> i])
    BY <1>1
  <1>3. /\ pc = "idle" /\ del = NoDeletion /\ scratch = 0 /\ before = <<>>
        /\ dropped = [t \in Tokens |-> 0] /\ alien = NoPage
    BY DEF Init
  <1>4. shape[1] \in Nat \ {0} /\ shape[2] \in Nat /\ n \in Nat /\ n <= shape[2]
    <2>1. shape \in (Nat \ {0}) \X Nat
      BY ShapesAssumption
    <2>. QED  BY <2>1
  <1>5. /\ buf.at = at /\ buf.elem = shape[1] /\ buf.cap = shape[2]
        /\ buf.at \in Addresses /\ buf.at \in Int
        /\ buf \in [at : Addresses, elem : Nat \ {0}, cap : Nat]
    BY <1>2, <1>4, PlacesAssumption DEF Buffer, Addresses
  <1> DEFINE s == [i \in 1 .. n |-> i]
  <1>6. s \in Seq(1 .. n) /\ s \in Seq(Tokens) /\ Len(s) = n
    BY <1>2, <1>4, MaxTokensAssumption DEF Tokens
  <1>7. Alive(s, dropped, made, 0, 0)
    <2>1. \A i \in 1 .. Len(s) : s[i] = i /\ i \in Tokens
      BY <1>2, <1>4, <1>6, MaxTokensAssumption DEF Tokens
    <2>2. \A i \in 1 .. Len(s) : ~(0 < i /\ i <= 0)
      BY <1>4, <1>6
    <2>. QED  BY <1>2, <1>3, <1>6, <2>1, <2>2 DEF Alive
  <1>8. memory = Stored([x \in Addresses |-> Junk], buf, 0, s)
    BY <1>2
  <1>. HIDE DEF s
  <1>9. /\ memory \in Memories
        /\ Stores([x \in Addresses |-> Junk], buf.at, buf.elem, 0, s, memory)
    <2> DEFINE m == [x \in Addresses |-> Junk]
    <2>1. m \in Memories /\ memory = Stored(m, buf, 0, s) /\ 0 \in Nat
      BY <1>8, Contents DEF Memories
    <2>. HIDE DEF m
    <2>2. memory \in Memories /\ Stores(m, buf.at, buf.elem, 0, s, memory)
      BY <1>4, <1>5, <1>6, <2>1, StoredBytes
    <2>. QED  BY <2>2 DEF m
  <1>10. TypeOK
    <2>1. mapping \in [Addresses -> Kinds]
      BY <1>2 DEF KindOf, Kinds
    <2>2. scratch \in Addresses
      BY <1>3, TopAssumption DEF Addresses
    <2>3. len \in 0 .. buf.cap /\ made \in 0 .. MaxTokens /\ 0 \in 0 .. buf.cap
      BY <1>2, <1>4, <1>5, MaxTokensAssumption
    <2>4. del \in [start : 0 .. buf.cap, end : 0 .. buf.cap, length : 0 .. buf.cap]
      BY <1>3, <2>3 DEF NoDeletion, Deletion
    <2>5. dropped \in [Tokens -> Nat] /\ pc \in Stages
      BY <1>3 DEF Stages
    <2>6. memory \in [Addresses -> Bytes]
      BY <1>9 DEF Memories
    <2>. QED  BY <1>3, <1>5, <2>1, <2>2, <2>3, <2>4, <2>5, <2>6 DEF TypeOK
  <1>11. ~Busy
    BY <1>3 DEF Busy
  <1>12. CallOK
    BY <1>2, <1>3, <1>5, <1>11 DEF CallOK
  <1>13. RegionsOK
    <2>1. OwnExtent = Extents(buf) /\ ScratchExtent = {} /\ AlienExtent = {}
      BY <1>3 DEF OwnExtent, ScratchExtent, AlienExtent
    <2>. QED  BY <1>2, <2>1 DEF RegionsOK, Unowned
  <1>14. OthersUntouched
    BY <1>3 DEF OthersUntouched
  <1>15. ContentOK
    BY <1>3 DEF ContentOK
  <1>16. held = s
    <2>1. /\ \A o \in 0 .. BufferBytes - 1 : buf.at + o \in Addresses
          /\ \A m \in 0 .. buf.cap : m * buf.elem \in Nat /\ m * buf.elem <= BufferBytes
          /\ BufferBytes \in Nat
      BY <1>10, <1>12, BufferAddresses
    <2>2. n * buf.elem \in Nat /\ n * buf.elem <= BufferBytes
      BY <1>4, <1>5, <2>1
    <2>3. 0 * buf.elem = 0 /\ (0 + Len(s)) * buf.elem = n * buf.elem /\ Len(s) * buf.elem = n * buf.elem
      BY <1>4, <1>5, <1>6
    <2>4. ASSUME NEW o \in 0 .. n * buf.elem - 1
          PROVE  memory[buf.at + o] = ByteOf(s, buf.elem, o)
      <3>1. o \in 0 .. BufferBytes - 1 /\ o - 0 = o
        BY <2>1, <2>2
      <3>2. \A p \in 0 * buf.elem .. (0 + Len(s)) * buf.elem - 1 : buf.at + p \in Addresses =>
              memory[buf.at + p] = ByteOf(s, buf.elem, p - 0 * buf.elem)
        BY <1>9 DEF Stores
      <3>. QED  BY <2>1, <2>3, <3>1, <3>2
    <2>5. Spelled(memory, buf.at, buf.elem, s, 0, Len(s) * buf.elem)
      BY <2>3, <2>4 DEF Spelled
    <2>. QED  BY <1>2, <1>4, <1>5, <1>6, <1>11, <2>5, HeldNow DEF HoldsSpelled
  <1>17. HeldOK
    BY <1>3, <1>7, <1>16 DEF HeldOK, NoDeletion, Deletion
  <1>. QED  BY <1>2, <1>3, <1>10, <1>11, <1>12, <1>13, <1>14, <1>15, <1>16, <1>17 DEF IInv, s

\* What a step does to the elements.
StepIs ==
    \/ Stutters
    \/ Finishes
    \/ \E start, end \in 0 .. len :
          start < end /\ (Removes(start, end, end) \/ Removes(start, end, len))
    \/ Removes(0, len, len)
    \/ \E start, end \in 0 .. len : start < end /\ Begins(start, end)
    \/ Pushes

\* Every step keeps the invariant and is a step of one of these forms.
LEMMA StepHolds ==
    ASSUME IInv, [Next]_vars
    PROVE  IInv' /\ StepIs
  <1>1. len \in Nat /\ 0 \in 0 .. len /\ len \in 0 .. len
    BY DEF IInv, TypeOK
  <1>2. ASSUME NEW start \in 0 .. len, NEW end \in 0 .. len, DeleteDrain(start, end)
        PROVE  IInv' /\ StepIs
    BY <1>2, DeleteDrainStep DEF StepIs, DeleteDrain
  <1>3. ASSUME NEW start \in 0 .. len, NEW end \in 0 .. len, SpliceBegin(start, end)
        PROVE  IInv' /\ StepIs
    BY <1>3, SpliceBeginStep DEF StepIs, SpliceBegin
  <1>4. ASSUME NEW start \in 0 .. len, NEW end \in 0 .. len, SplicePanics(start, end)
        PROVE  IInv' /\ StepIs
    BY <1>1, <1>4, SplicePanicsStep DEF StepIs, SplicePanics
  <1>5. ASSUME NEW start \in 0 .. len, DeleteTail(start)
        PROVE  IInv' /\ StepIs
    BY <1>1, <1>5, DeleteTailStep DEF StepIs, DeleteTail
  <1>6. CASE Patch
    BY <1>6, PatchStep DEF StepIs
  <1>7. CASE Reserve
    BY <1>7, ReserveStep DEF StepIs
  <1>8. CASE Lift
    BY <1>8, LiftStep DEF StepIs
  <1>9. CASE Place
    BY <1>9, PlaceStep DEF StepIs
  <1>10. CASE Rescue
    BY <1>10, RescueStep DEF StepIs
  <1>11. CASE Discard
    BY <1>11, DiscardStep DEF StepIs
  <1>12. CASE CopyInPlace
    BY <1>12, CopyStep DEF StepIs
  <1>13. CASE Trim
    BY <1>13, TrimStep DEF StepIs
  <1>14. CASE Push
    BY <1>14, PushStep DEF StepIs
  <1>15. CASE DropVec
    BY <1>1, <1>15, DropVecStep DEF StepIs
  <1>16. CASE AlienMaps
    BY <1>16, AlienMapsStep DEF StepIs
  <1>17. CASE AlienUnmaps
    BY <1>17, AlienUnmapsStep DEF StepIs
  <1>18. CASE Gone \/ UNCHANGED vars
    BY <1>18, StutterStep DEF StepIs, Gone
  <1>. QED  BY <1>2, <1>3, <1>4, <1>5, <1>6, <1>7, <1>8, <1>9, <1>10, <1>11, <1>12, <1>13,
               <1>14, <1>15, <1>16, <1>17, <1>18 DEF Next, DeleteRange

\* The inductive invariant of the splice holds in every reachable state (lines
\* 215-470), whatever the kernel refuses and wherever other threads map memory.
THEOREM SpliceInvariant == Spec => []IInv
  <1>1. IInv /\ [Next]_vars => IInv'
    BY StepHolds
  <1>2. Init => IInv
    BY InitHolds
  <1>. QED  BY <1>1, <1>2, PTL DEF Spec

\* Every variable keeps its type; the length never exceeds the capacity, also
\* while try_mremap_splice has lowered it (308-319).
THEOREM SpliceTypes == Spec => []TypeOK
  <1>1. IInv => TypeOK
    BY DEF IInv
  <1>. QED  BY SpliceInvariant, <1>1, PTL

\* The pages of the allocation stay mapped between any two kernel calls of the
\* splice (MREMAP_DONTUNMAP, 389-413), the scratch region lies outside them and
\* is given back on every path (360-450): all that can stay behind without an
\* owner are pages that the kernel refused to unmap (408, 446).
THEOREM SpliceMapsExactly == Spec => []MappedExactly
  <1>1. IInv => MappedExactly
    <2> SUFFICES ASSUME IInv
                 PROVE  MappedExactly
      OBVIOUS
    <2>1. KindOf(CapBytes(buf)) \notin Unowned
      BY DEF KindOf, Unowned
    <2>2. {x \in Addresses : mapping[x] # "none"} \ Lost =
              OwnExtent \cup ScratchExtent \cup AlienExtent
      BY <2>1 DEF IInv, RegionsOK, Lost, Unowned
    <2>. QED  BY <2>2 DEF MappedExactly, IInv, RegionsOK
  <1>. QED  BY SpliceInvariant, <1>1, PTL

\* No mremap with MREMAP_FIXED (389-443) replaces a page of another thread.
THEOREM SpliceLeavesOthers == Spec => []OthersUntouched
  <1>1. IInv => OthersUntouched
    BY DEF IInv
  <1>. QED  BY SpliceInvariant, <1>1, PTL

\* The elements in scope are the first ones of a sequence without a dropped one.
LEMMA InScope ==
    ASSUME IInv
    PROVE  \E s \in Seq(Tokens) :
              /\ Alive(s, dropped, made, 0, 0) /\ len <= Len(s)
              /\ \A i \in 1 .. len : Elements(buf, 0, len)[i] = s[i]
  <1>1. CASE ~Busy
    <2>1. /\ held = Elements(buf, 0, len) /\ held \in Seq(Tokens) /\ Len(held) = len
          /\ len \in Nat /\ Alive(held, dropped, made, 0, 0)
      BY <1>1, HeldWhole
    <2>. QED  BY <2>1
  <1>2. CASE Busy
    <2>1. /\ LengthsOK /\ rest \in Seq(Tokens) /\ Len(rest) = new_len
          /\ \A o \in 0 .. byte_start - 1 : ByteOf(rest, buf.elem, o) = ByteOf(before, buf.elem, o)
          /\ Alive(rest, dropped, made, 0, 0)
      BY <1>2, BusyFacts
    <2>2. len = del.start /\ del.start \in Nat /\ del.start \in 0 .. Len(rest)
          /\ byte_start = del.start * buf.elem
      <3>1. len = del.start /\ DeletionOK
        BY <1>2 DEF IInv, CallOK
      <3>2. del.start \in Nat
        BY <3>1 DEF DeletionOK
      <3>3. del.start <= new_len /\ new_len \in Nat
        BY <2>1 DEF LengthsOK
      <3>4. del.start \in 0 .. Len(rest)
        BY <2>1, <3>2, <3>3
      <3>. QED  BY <3>1, <3>2, <3>4 DEF byte_start
    <2>3. Spelled(memory, buf.at, buf.elem, rest, 0, byte_start)
      <3>1. CASE pc = "patch"
        <4>1. \A o \in 0 .. byte_start - 1 : o \in 0 .. byte_len - 1
          BY <2>1 DEF LengthsOK
        <4>. QED  BY <2>1, <3>1, <4>1 DEF IInv, ContentOK, Spelled
      <3>2. CASE pc \in {"reserve", "lift", "copy", "place", "rescue"}
        <4>1. \A o \in 0 .. byte_start - 1 : o \in 0 .. splice_dst - 1
          BY <2>1 DEF LengthsOK
        <4>. QED  BY <3>2, <4>1 DEF IInv, ContentOK, Spelled
      <3>3. CASE pc \in {"discard", "trim"}
        <4>1. \A o \in 0 .. byte_start - 1 : o \in 0 .. new_len * buf.elem - 1
          BY <2>1 DEF LengthsOK
        <4>. QED  BY <3>3, <4>1 DEF IInv, ContentOK, Spelled
      <3>4. pc \in Stages
        BY DEF IInv, TypeOK
      <3>. QED  BY <1>2, <3>1, <3>2, <3>3, <3>4 DEF Busy, Stages
    <2>4. buf.at \in Int /\ buf.elem \in Nat \ {0}
      BY BufferAddresses DEF IInv
    <2>5. Reads(memory, buf.at, buf.elem, rest, del.start)
      BY <2>1, <2>2, <2>3, <2>4, SpelledElements
    <2> DEFINE f(j) == ElementIn(memory, buf.at + j * buf.elem, buf.elem)
    <2>6. Elements(buf, 0, len) = [i \in 1 .. len - 0 |-> f(0 + i - 1)]
      BY ElementsAre
    <2>7. ASSUME NEW i \in 1 .. len
          PROVE  Elements(buf, 0, len)[i] = rest[i]
      <3>1. i - 1 \in 0 .. del.start - 1 /\ (i - 1) + 1 = i /\ 0 + i - 1 = i - 1 /\ i \in 1 .. len - 0
        BY <2>2
      <3>2. f(i - 1) = rest[i]
        BY <2>5, <3>1 DEF Reads
      <3>. HIDE DEF f
      <3>. QED  BY <2>6, <3>1, <3>2
    <2>. QED  BY <2>1, <2>2, <2>7
  <1>. QED  BY <1>1, <1>2

\* Whenever delete_range may be left by a panic (310-319), and at every other
\* moment, the elements within the length are whole, distinct and not dropped.
THEOREM SpliceDropsOnce == Spec => []InScopeAlive
  <1>1. IInv => InScopeAlive
    <2> SUFFICES ASSUME IInv
                 PROVE  InScopeAlive
      OBVIOUS
    <2> DEFINE e == Elements(buf, 0, len)
    <2>1. PICK s \in Seq(Tokens) :
              /\ Alive(s, dropped, made, 0, 0) /\ len <= Len(s)
              /\ \A i \in 1 .. len : e[i] = s[i]
      BY InScope
    <2>2. len \in Nat /\ Len(s) \in Nat
      BY DEF IInv, TypeOK
    <2>. HIDE DEF e
    <2>3. ASSUME NEW i \in 1 .. len
          PROVE  e[i] # Torn /\ dropped[e[i]] = 0 /\ \A j \in 1 .. len : i # j => e[i] # e[j]
      <3>1. i \in 1 .. Len(s) /\ ~(0 < i /\ i <= 0)
        BY <2>1, <2>2
      <3>2. e[i] \in Tokens /\ dropped[e[i]] = 0
        BY <2>1, <3>1 DEF Alive
      <3>3. ASSUME NEW j \in 1 .. len, e[i] = e[j]
            PROVE  i = j
        <4>1. j \in 1 .. Len(s)
          BY <2>1, <2>2
        <4>. QED  BY <2>1, <3>1, <3>3, <4>1 DEF Alive
      <3>. QED  BY <3>2, <3>3, TornAssumption
    <2>. QED  BY <2>3 DEF InScopeAlive, e
  <1>. QED  BY SpliceInvariant, <1>1, PTL

-----------------------------------------------------------------------------
(* The contract *)

\* Cutting out a range, in the words of the contract.
LEMMA CutIsWithout ==
    ASSUME NEW s \in Seq(Tokens), NEW lo \in 0 .. Len(s), NEW hi \in 0 .. Len(s), lo <= hi
    PROVE  /\ SubSeq(s, 1, lo) \o SubSeq(s, hi + 1, Len(s)) = Cut(s, lo, hi)
           /\ SubSeq(s, 1, lo) = Cut(s, lo, Len(s))
  <1> DEFINE a == SubSeq(s, 1, lo)
             b == SubSeq(s, hi + 1, Len(s))
  <1>1. Len(s) \in Nat
    OBVIOUS
  <1>2. a \in Seq(Tokens) /\ Len(a) = lo /\ \A i \in 1 .. lo : a[i] = s[i]
    BY <1>1
  <1>3. b \in Seq(Tokens) /\ Len(b) = Len(s) - hi /\ \A i \in 1 .. Len(s) - hi : b[i] = s[hi + i]
    BY <1>1
  <1>. HIDE DEF a, b
  <1> DEFINE n == Len(s) - (hi - lo)
  <1>a. n \in Nat /\ lo + (Len(s) - hi) = n
    BY <1>1
  <1>4. /\ a \o b \in Seq(Tokens) /\ Len(a \o b) = n
        /\ \A i \in 1 .. n : (a \o b)[i] = IF i <= lo THEN a[i] ELSE b[i - lo]
    <2>1. Len(a) + Len(b) = n
      BY <1>2, <1>3, <1>a
    <2>. HIDE DEF n
    <2>2. a \o b \in Seq(Tokens) /\ Len(a \o b) = Len(a) + Len(b)
      BY <1>2, <1>3, ConcatProperties
    <2>3. \A i \in 1 .. Len(a) + Len(b) : (a \o b)[i] = IF i <= Len(a) THEN a[i] ELSE b[i - Len(a)]
      BY <1>2, <1>3, ConcatProperties
    <2>. QED  BY <1>2, <2>1, <2>2, <2>3
  <1>5. ASSUME NEW i \in 1 .. Len(s) - (hi - lo)
        PROVE  (a \o b)[i] = IF i <= lo THEN s[i] ELSE s[i + (hi - lo)]
    <2>1. CASE i <= lo
      BY <1>1, <1>2, <1>4, <2>1
    <2>2. CASE ~(i <= lo)
      <3>1. i - lo \in 1 .. Len(s) - hi /\ hi + (i - lo) = i + (hi - lo)
        BY <1>1, <2>2
      <3>. QED  BY <1>3, <1>4, <2>2, <3>1
    <2>. QED  BY <2>1, <2>2
  <1>6. a \o b = Cut(s, lo, hi)
    <2>1. a \o b \in [1 .. Len(a \o b) -> Tokens]
      BY <1>4, LenProperties
    <2>2. a \o b = [i \in 1 .. n |-> (a \o b)[i]]
      BY <1>4, <2>1
    <2>. QED  BY <1>5, <2>2 DEF Cut
  <1>7. a = Cut(s, lo, Len(s))
    <2>1. Len(s) - (Len(s) - lo) = lo /\ \A i \in 1 .. lo : i <= lo
      BY <1>1
    <2>2. Cut(s, lo, Len(s)) = [i \in 1 .. lo |-> s[i]]
      BY <2>1 DEF Cut
    <2>. QED  BY <1>2, <2>2
  <1>. QED  BY <1>6, <1>7 DEF a, b

\* The drops of the contract, counted from 1.
LEMMA ContractDrops ==
    ASSUME NEW lo \in Nat, NEW hi \in Nat, dropped' = DropsOf(held, dropped, lo, hi)
    PROVE  Contract!Drops(lo, hi)
  <1>1. ASSUME NEW t
        PROVE  (\E i \in lo .. hi - 1 : held[i + 1] = t) <=> (\E i \in lo + 1 .. hi : held[i] = t)
    <2>1. \A i \in lo .. hi - 1 : i + 1 \in lo + 1 .. hi
      OBVIOUS
    <2>2. \A i \in lo + 1 .. hi : i - 1 \in lo .. hi - 1 /\ (i - 1) + 1 = i
      OBVIOUS
    <2>. QED  BY <2>1, <2>2
  <1>2. Contract!Tokens = Tokens
    BY DEF Contract!Tokens, Tokens
  <1>. QED  BY <1>1, <1>2 DEF Contract!Drops, DropsOf

\* What the vector holds are elements.
LEMMA HeldIsSequence == ASSUME IInv PROVE held \in Seq(Tokens)
  <1>1. held \in Seq(1 .. made) /\ made \in 0 .. MaxTokens
    BY DEF IInv, TypeOK, HeldOK, Alive
  <1>. QED  BY <1>1, MaxTokensAssumption DEF Tokens

\* Each form of step is an action of the contract or leaves it alone.
LEMMA ContractStep ==
    ASSUME IInv, StepIs
    PROVE  [Contract!Next]_(Contract!vars)
  <1>1. held \in Seq(Tokens) /\ Len(held) \in Nat /\ len \in Nat
    BY HeldIsSequence DEF IInv, TypeOK
  <1>2. ~Busy => Len(held) = len /\ deleting = <<>>
    BY HeldWhole DEF deleting
  <1>3. ~Busy' => deleting' = <<>>
    BY DEF deleting
  <1>4. CASE Stutters
    <2>1. deleting' = deleting
      BY <1>4 DEF Stutters, deleting
    <2>. QED  BY <1>4, <2>1 DEF Stutters, Contract!vars
  <1>5. CASE Finishes
    <2>1. held = before /\ deleting = <<del.start, del.end>> /\ deleting' = <<>>
      BY <1>3, <1>5 DEF Finishes, held, deleting
    <2>2. del.start \in 0 .. Len(held) /\ del.end \in 0 .. Len(held) /\ del.start <= del.end
      BY <1>5, <2>1 DEF Finishes, IInv, CallOK, DeletionOK
    <2>3. Contract!Without(del.start, del.end) = rest
      BY <1>1, <2>1, <2>2, CutIsWithout DEF Contract!Without, rest
    <2>4. Contract!End
      BY <1>5, <2>1, <2>3 DEF Contract!End, Finishes
    <2>. QED  BY <2>4 DEF Contract!Next
  <1>6. ASSUME NEW start \in 0 .. len, NEW end \in 0 .. len, start < end, Removes(start, end, end)
        PROVE  Contract!Next
    <2>1. ~Busy /\ ~Busy' /\ Len(held) = len
      BY <1>2, <1>6 DEF Removes
    <2>2. Contract!Without(start, end) = held'
      <3>1. start \in 0 .. Len(held) /\ end \in 0 .. Len(held) /\ start <= end
        BY <1>1, <1>6, <2>1
      <3>2. SubSeq(held, 1, start) \o SubSeq(held, end + 1, Len(held)) = Cut(held, start, end)
        BY <1>1, <3>1, CutIsWithout
      <3>. QED  BY <1>6, <3>2 DEF Contract!Without, Removes
    <2>3. Contract!Drops(start, end)
      BY <1>6, ContractDrops DEF Removes
    <2>4. Contract!Delete(start, end)
      BY <1>2, <1>3, <1>6, <2>1, <2>2, <2>3 DEF Contract!Delete, Removes
    <2>. QED  BY <2>1, <2>4 DEF Contract!Next
  <1>7. ASSUME NEW start \in 0 .. len, NEW end \in 0 .. len, start < end, Removes(start, end, len)
        PROVE  Contract!Next
    <2>1. ~Busy /\ ~Busy' /\ Len(held) = len
      BY <1>2, <1>7 DEF Removes
    <2>2. SubSeq(held, 1, start) = held'
      <3>1. start \in 0 .. Len(held) /\ end \in 0 .. Len(held) /\ start <= end
        BY <1>1, <1>7, <2>1
      <3>2. SubSeq(held, 1, start) = Cut(held, start, Len(held))
        BY <1>1, <3>1, CutIsWithout
      <3>. QED  BY <1>7, <2>1, <3>2 DEF Removes
    <2>3. Contract!Drops(start, end)
      BY <1>7, ContractDrops DEF Removes
    <2>4. Contract!Panic(start, end)
      BY <1>2, <1>3, <1>7, <2>1, <2>2, <2>3 DEF Contract!Panic, Removes
    <2>. QED  BY <2>1, <2>4 DEF Contract!Next
  <1>8. CASE Removes(0, len, len)
    <2>1. ~Busy /\ ~Busy' /\ Len(held) = len
      BY <1>2, <1>8 DEF Removes
    <2>2. held' = <<>>
      <3>1. 1 .. Len(held) - (len - 0) = {}
        BY <1>1, <2>1
      <3>. QED  BY <1>8, <3>1 DEF Removes, Cut
    <2>3. Contract!Drops(0, len)
      BY <1>1, <1>8, ContractDrops DEF Removes
    <2>4. Contract!DropAll
      BY <1>2, <1>3, <1>8, <2>1, <2>2, <2>3 DEF Contract!DropAll, Removes
    <2>. QED  BY <2>4 DEF Contract!Next
  <1>9. ASSUME NEW start \in 0 .. len, NEW end \in 0 .. len, start < end, Begins(start, end)
        PROVE  Contract!Next
    <2>1. ~Busy /\ Busy' /\ Len(held) = len /\ deleting' = <<start, end>>
      BY <1>2, <1>9 DEF Begins, deleting
    <2>2. Contract!Drops(start, end)
      BY <1>9, ContractDrops DEF Begins
    <2>3. Contract!Begin(start, end)
      BY <1>2, <1>9, <2>1, <2>2 DEF Contract!Begin, Begins
    <2>. QED  BY <2>1, <2>3 DEF Contract!Next
  <1>10. CASE Pushes
    <2>1. Contract!Push
      BY <1>2, <1>3, <1>10 DEF Contract!Push, Pushes
    <2>. QED  BY <2>1 DEF Contract!Next
  <1>. QED  BY <1>4, <1>5, <1>6, <1>7, <1>8, <1>9, <1>10 DEF StepIs

\* The first state is one of the contract.
LEMMA ContractInit ==
    ASSUME Init
    PROVE  Contract!Init
  <1>1. /\ held = [i \in 1 .. made |-> i] /\ made \in 0 .. MaxTokens /\ ~Busy
        /\ dropped = [t \in Tokens |-> 0]
    BY InitHolds DEF IInv, TypeOK
  <1>2. Contract!Tokens = Tokens
    BY DEF Contract!Tokens, Tokens
  <1>. QED  BY <1>1, <1>2 DEF Contract!Init, deleting

\* On every path, fallbacks included, delete_range (215-243) and the splice
\* (268-470) take the range out of the sequence of elements and drop the deleted
\* ones once: every step is one of DeletionContract or none.
THEOREM SpliceKeepsContract == Spec => DeletesRange
  <1>1. Init => Contract!Init
    BY ContractInit
  <1>2. IInv /\ [Next]_vars => [Contract!Next]_(Contract!vars)
    BY StepHolds, ContractStep
  <1>. QED  BY <1>1, <1>2, SpliceInvariant, PTL DEF Spec, DeletesRange, Contract!Spec

=============================================================================
