----------------------------- MODULE Vec64Append -----------------------------
(***************************************************************************)
(* Vec64::extend_from_vec64 and from_chunks of src/src/vec64.rs with the   *)
(* feature mmap, on Linux.  A vector is consumed and its elements end up   *)
(* behind those of another one: by moving its pages into the spare         *)
(* capacity when they fit there exactly, and element by element otherwise, *)
(* also when the kernel refuses the move.  A buffer that is released may   *)
(* stay mapped: nobody looks at what munmap answers.                       *)
(*                                                                         *)
(* Vector 0 is the destination, 1, 2, ... are the vectors to consume.      *)
(***************************************************************************)
EXTENDS Vec64Buffer, FiniteSetsExt

CONSTANTS
    Others,      \* the number of vectors to consume
    ElemSize,    \* size_of::<T>()
    SelfShapes,  \* bound: the pairs <<capacity, length>> of the destination
    OtherShapes, \* bound: those of the vectors to consume
    NoVec,       \* what a vector is that does not exist
    Gap          \* bound: the distance between the buffers at the start

ASSUME OthersAssumption == Others \in Nat
ASSUME ElemSizeAssumption == ElemSize \in Nat \ {0}

\* Each buffer has room between its address and the next one.
ASSUME GapAssumption ==
    Gap \in Nat \ {0} /\ (Others + 1) * Gap <= Top /\ (Others + 1) * Gap <= MaxTokens
ASSUME ShapesAssumption ==
    /\ SelfShapes \cup OtherShapes \subseteq Nat \X Nat
    /\ \A s \in SelfShapes \cup OtherShapes : s[2] <= s[1] /\ BlockSize(s[1] * ElemSize) <= Gap
ASSUME NoVecAssumption == NoVec \notin Seq(Tokens \cup {Torn})

Vecs == 0 .. Others

VARIABLES
    buf,         \* buf[v]: the buffer of vector v
    len,         \* len[v]: its length
    stage,       \* stage[v]: whether v is in scope, taken apart or consumed
    chunks       \* how many chunks from_chunks has still to append

vars == <<mapping, memory, buf, len, stage, chunks>>

Live(v) == stage[v] = "live"

NoBuffer == Buffer(0, ElemSize, 0)

Bytes(v, n) == n * buf[v].elem

Room(v, w) == buf[v].cap - len[v] >= len[w]

\* Mutant: the spare capacity is not compared.
PagesFit_AnyRoom(v, w) ==
    /\ buf[w].cap = len[w]
    /\ Bytes(w, len[w]) % HugePage = 0
    /\ Aligned(Bytes(v, len[v]))
    /\ uses_mmap(CapBytes(buf[v])) /\ uses_mmap(CapBytes(buf[w]))

\* The conditions of try_mremap_append.
PagesFit(v, w) ==
    /\ Room(v, w)
    /\ buf[w].cap = len[w]
    /\ Bytes(w, len[w]) % HugePage = 0
    /\ Aligned(Bytes(v, len[v]))
    /\ uses_mmap(CapBytes(buf[v])) /\ uses_mmap(CapBytes(buf[w]))

Consumed(w) == stage' = [stage EXCEPT ![w] = "gone"]

-----------------------------------------------------------------------------
(* extend_from_vec64: vector v takes the elements of w *)

Idle == \A v \in Vecs : stage[v] # "raw"

\* from_chunks appends the chunks in their order.
MayExtend(v, w) ==
    /\ Idle /\ v = 0 /\ w # 0 /\ Live(v) /\ Live(w)
    /\ chunks > 0 => w = Others - chunks + 1

\* The call is over: one chunk less.
Done == chunks' = IF chunks > 0 THEN chunks - 1 ELSE 0

\* An empty vector is dropped, with its buffer.
ExtendEmpty(v, w) ==
    /\ MayExtend(v, w) /\ len[w] = 0
    /\ Deallocates(buf[w])
    /\ Consumed(w) /\ Done
    /\ UNCHANGED <<buf, len>>

\* The vector is taken apart, so that its destructor will not run.
TakeApart(v, w) ==
    /\ MayExtend(v, w) /\ len[w] > 0
    /\ PagesFit(v, w)
    /\ stage' = [stage EXCEPT ![w] = "raw"]
    /\ UNCHANGED <<mapping, memory, buf, len, chunks>>

\* Mutant: the consumed vector is not forgotten, and will be dropped.
MovePages_KeepsSource(v, w) ==
    /\ stage[w] = "raw" /\ v = 0
    /\ mremap_fixed(buf[w].at, Bytes(w, len[w]),
                    buf[v].at + Bytes(v, len[v]), FALSE)
    /\ len' = [len EXCEPT ![v] = len[v] + len[w]]
    /\ stage' = [stage EXCEPT ![w] = "live"] /\ Done
    /\ UNCHANGED buf

\* The pages move behind the elements of v.
MovePages(v, w) ==
    /\ stage[w] = "raw" /\ v = 0
    /\ mremap_fixed(buf[w].at, Bytes(w, len[w]),
                    buf[v].at + Bytes(v, len[v]), FALSE)
    /\ len' = [len EXCEPT ![v] = len[v] + len[w]]
    /\ Consumed(w) /\ Done
    /\ UNCHANGED buf

\* The capacity of v when it has grown for the elements of w, if it must.
Grown(v, w) ==
    IF Room(v, w) THEN buf[v].cap ELSE Max({2 * buf[v].cap, len[v] + len[w]})

\* What the allocator does for the block of v to hold size bytes: nothing while
\* its extent stays the same; else it extends or moves the block within its
\* regime (realloc, mremap), or the elements are copied into a new one.
SameExtent(v, size) ==
    /\ uses_mmap(size) <=> uses_mmap(CapBytes(buf[v]))
    /\ BlockSize(size) = BlockSize(CapBytes(buf[v]))

GrowsInto(v, size, at, kind) ==
    LET old == BlockSize(CapBytes(buf[v]))
        Free == at \in Places /\ Covers(at, BlockSize(size), "none")
        Behind == /\ at = buf[v].at /\ BlockSize(size) >= old
                  /\ Covers(at + old, BlockSize(size) - old, "none")
    IN IF SameExtent(v, size) THEN at = buf[v].at /\ kind = KindOf(size)
       ELSE \/ /\ uses_mmap(size) <=> uses_mmap(CapBytes(buf[v]))
               /\ kind = IF uses_mmap(size) THEN "pages" ELSE "heap"
               /\ Covers(buf[v].at, old, kind)
               /\ Free \/ Behind
            \/ /\ kind = KindOf(size) /\ Free
               /\ kind = "giant" => at % GiganticPage = 0

\* What may stay mapped of a buffer that is given back: all of it or nothing, and
\* nothing of a heap block.
Stays(b) == {{}} \cup IF uses_mmap(CapBytes(b)) THEN {Extents(b)} ELSE {}

\* munmap gives the buffer of v back only when the elements were copied to a new
\* one of the kind that a new one has.
Copied(v, new, kind) ==
    Extents(buf[v]) \cap Extents(new) = {} /\ kind = KindOf(CapBytes(new))

\* The address space without the addresses left, of which those that stay are
\* lost.
MappingWithout(left, lost) ==
    [x \in Addresses |-> IF x \in lost THEN "lost"
                         ELSE IF x \in left THEN "none" ELSE mapping[x]]

MemoryWithout(left, lost) ==
    [x \in Addresses |-> IF x \in left \ lost THEN Junk ELSE memory[x]]

\* Vec::extend on v with the elements of w: v grows when it must and takes the
\* elements; the buffer of w is released.
Appends(v, w) ==
    \E at \in Places \cup {buf[v].at}, kind \in Kinds :
      LET old == buf[v]
          new == Buffer(at, ElemSize, Grown(v, w))
          all == Elements(old, 0, len[v]) \o Elements(buf[w], 0, len[w])
          left == (Extents(old) \ Extents(new)) \cup Extents(buf[w])
      IN /\ GrowsInto(v, CapBytes(new), at, kind)
         /\ \E lostOld \in IF Copied(v, new, kind) THEN Stays(old) ELSE {{}},
               lostW \in Stays(buf[w]) :
              LET lost == lostOld \cup lostW
              IN /\ mapping' = [x \in Addresses |->
                        IF x \in Extents(new) \ Extents(old) THEN kind
                        ELSE MappingWithout(left, lost)[x]]
                 /\ memory' = Stored(MemoryWithout(left, lost), new, 0, all)
         /\ buf' = [buf EXCEPT ![v] = new]
         /\ len' = [len EXCEPT ![v] = len[v] + len[w]]
         /\ Consumed(w) /\ Done

\* Mutant: the vector that was taken apart is not put together again.
MoveRefused_Forgets(v, w) ==
    /\ stage[w] = "raw" /\ v = 0
    /\ Consumed(w) /\ Done
    /\ UNCHANGED <<mapping, memory, buf, len>>

\* The kernel refuses: the vector is put together again and its elements move.
MoveRefused(v, w) == stage[w] = "raw" /\ v = 0 /\ Appends(v, w)

MoveElements(v, w) ==
    /\ MayExtend(v, w) /\ len[w] > 0
    /\ ~PagesFit(v, w)
    /\ Appends(v, w)

-----------------------------------------------------------------------------
(* from_chunks and the rest of the program *)

\* How many elements the chunks have.
TotalLen == Cardinality(UNION {{w} \X (1 .. len[w]) : w \in Vecs \ {0}})

\* The program calls from_chunks with all vectors but the destination.
MayConcatenate == stage[0] = "none" /\ \A w \in Vecs \ {0} : Live(w)

\* The destination is allocated for all chunks together.
FromChunks ==
    /\ MayConcatenate /\ TotalLen > 0
    /\ \E a \in Places :
          /\ IF uses_mmap(TotalLen * ElemSize)
             THEN mmap(a, mapped_size(TotalLen * ElemSize), KindOf(TotalLen * ElemSize))
             ELSE malloc(a, TotalLen * ElemSize, Junk)
          /\ buf' = [buf EXCEPT ![0] = Buffer(a, ElemSize, TotalLen)]
    /\ stage' = [stage EXCEPT ![0] = "live"]
    /\ chunks' = Others
    /\ UNCHANGED len

\* All chunks are empty: they are dropped, and the result has no buffer.
FromNothing ==
    /\ MayConcatenate /\ TotalLen = 0
    /\ \E stuck \in SUBSET {w \in Vecs : uses_mmap(CapBytes(buf[w]))} :
          LET lost == UNION {Extents(buf[w]) : w \in stuck}
              left == UNION {Extents(buf[w]) : w \in Vecs}
          IN /\ mapping' = MappingWithout(left, lost)
             /\ memory' = MemoryWithout(left, lost)
    /\ stage' = [v \in Vecs |-> IF v = 0 THEN "live" ELSE "gone"]
    /\ UNCHANGED <<buf, len, chunks>>

\* A vector is dropped: its buffer goes back to the allocator.
DropVec(v) ==
    /\ Idle /\ Live(v) /\ chunks = 0 /\ stage[0] # "none"
    /\ Deallocates(buf[v])
    /\ Consumed(v)
    /\ UNCHANGED <<buf, len, chunks>>

AllGone == (\A v \in Vecs : stage[v] = "gone") /\ UNCHANGED vars

\* The vectors in whose block, or among whose elements, an address lies.
Owner(x) == {v \in Vecs : x \in Extents(buf[v])}
Filled(x) == {v \in Vecs : x \in Extent(buf[v].at, len[v] * ElemSize)}

\* The vectors lie one Gap apart, vector 0 first; with from_chunks it does not
\* exist yet.  An element is named after the address where it begins.  A mapped
\* buffer consists of ordinary pages, as one does that has grown to its size: the
\* kernel does not move gigantic pages to any address.
Init ==
    \E shape \in {f \in [Vecs -> SelfShapes \cup OtherShapes] :
                    f[0] \in SelfShapes /\ \A w \in Vecs \ {0} : f[w] \in OtherShapes} :
    \E fresh \in BOOLEAN :
      /\ fresh => shape[0] = CHOOSE s \in SelfShapes : TRUE
      /\ buf = [v \in Vecs |-> IF v = 0 /\ fresh THEN NoBuffer
                               ELSE Buffer(v * Gap, ElemSize, shape[v][1])]
      /\ len = [v \in Vecs |-> IF v = 0 /\ fresh THEN 0 ELSE shape[v][2]]
      /\ stage = [v \in Vecs |-> IF v = 0 /\ fresh THEN "none" ELSE "live"]
      /\ chunks = 0
      /\ mapping = [x \in Addresses |->
            IF Owner(x) = {} THEN "none"
            ELSE IF uses_mmap(CapBytes(buf[CHOOSE v \in Owner(x) : TRUE]))
                 THEN "pages" ELSE "heap"]
      /\ memory = [x \in Addresses |->
            IF Filled(x) = {} THEN Junk
            ELSE LET v == CHOOSE u \in Filled(x) : TRUE
                     k == (x - buf[v].at) % ElemSize
                 IN <<x - k + 1, k>>]

Extend(v, w) ==
    \/ ExtendEmpty(v, w) \/ TakeApart(v, w) \/ MovePages(v, w)
    \/ MoveRefused(v, w) \/ MoveElements(v, w)

Next ==
    \/ \E v, w \in Vecs : v # w /\ Extend(v, w)
    \/ FromChunks \/ FromNothing
    \/ \E v \in Vecs : DropVec(v)
    \/ AllGone

Spec == Init /\ [][Next]_vars

-----------------------------------------------------------------------------
(* Properties *)

\* The types of the state; no length exceeds its capacity.
TypeOK ==
    /\ mapping \in [Addresses -> Kinds]
    /\ memory \in [Addresses -> (Tokens \X Nat) \cup {Zero, Junk}]
    /\ buf \in [Vecs -> [at : Addresses, elem : {ElemSize}, cap : Nat]]
    /\ len \in [Vecs -> Nat]
    /\ stage \in [Vecs -> {"none", "live", "raw", "gone"}]
    /\ chunks \in 0 .. Others
    /\ \A v \in Vecs : Live(v) => len[v] <= buf[v].cap

Owned == {v \in Vecs : stage[v] \in {"live", "raw"}}

\* Every byte of a buffer is mapped for it and belongs to one vector only: moving pages
\* into another buffer leaves no hole, and no buffer is released twice, or under a
\* vector that still uses it.
BuffersApart ==
    /\ \A v \in Owned : \A x \in Extents(buf[v]) : x \in Addresses \ Lost /\ mapping[x] # "none"
    /\ \A v, w \in Owned : v # w => Extents(buf[v]) \cap Extents(buf[w]) = {}

\* "Returns `None` on success (other consumed)": once a vector is consumed, no
\* page of it remains without an owner, but for those that the kernel itself
\* refused to unmap.
ConsumedEntirely ==
    {x \in Addresses : mapping[x] # "none"} \ Lost
        \subseteq UNION {Extents(buf[v]) : v \in Owned}

Contract == INSTANCE ConcatContract WITH
    seqs <- [v \in Vecs |-> IF v \in Owned THEN Elements(buf[v], 0, len[v]) ELSE NoVec]

\* Whether pages move, elements move or the kernel refuses half way, the elements
\* of the consumed vector follow those of the destination, whole and in order,
\* and the vector is gone.
Concatenates == Contract!Spec

=============================================================================
