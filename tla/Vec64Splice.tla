----------------------------- MODULE Vec64Splice -----------------------------
(***************************************************************************)
(* Vec64::delete_range of src/src/vec64.rs with the feature mmap, on       *)
(* Linux.  When the allocation is mapped and the deleted span is a whole   *)
(* number of pages, the tail moves by remapping its pages: onto a scratch  *)
(* mapping first, then onto its final place.  Each kernel call is a step   *)
(* and may be refused, munmap included: its result is ignored (408, 446),  *)
(* and a refusal leaves the pages mapped for good.  In between, another    *)
(* thread of the process maps and unmaps memory of its own wherever the    *)
(* kernel finds a hole.  Dropping the deleted elements may panic.          *)
(***************************************************************************)
EXTENDS Vec64Buffer

CONSTANTS
    Shapes,      \* bound: the pairs <<size_of::<T>(), capacity>> tried
    Foreign,     \* what the other thread stores in its page
    NoPage       \* the other thread has no page

\* No element has size 0, and no address stands for the lack of one.
ASSUME ShapesAssumption == Shapes \subseteq (Nat \ {0}) \X Nat
ASSUME NoPageAssumption == NoPage \notin Addresses

VARIABLES
    buf,         \* the buffer: it never moves, and T never changes
    len,         \* self.0.len()
    pc,          \* where delete_range is
    del,         \* its arguments and the len it was called with
    scratch,     \* the scratch mapping
    dropped,     \* dropped[t]: how often T::drop has run on t
    made,        \* how many elements there have been
    alien,       \* the page of another thread
    before       \* history: the elements when delete_range was called

vars == <<mapping, memory, buf, len, pc, del, scratch, dropped, made, alien, before>>

locals == <<del, scratch, before>>

Deletion(start, end, length) == [start |-> start, end |-> end, length |-> length]

NoDeletion == Deletion(0, 0, 0)

\* The conditions for moving pages.
FitsPages(start, end) ==
    /\ Aligned((end - start) * buf.elem)
    /\ uses_mmap(CapBytes(buf))

\* Mutant: the deleted span is counted twice as surviving.
new_len_Span == del.end + (del.length - del.start)

\* The lengths of try_mremap_splice.
byte_start == del.start * buf.elem
byte_end == del.end * buf.elem
byte_len == del.length * buf.elem
new_len == del.start + (del.length - del.end)

seam == RoundUp(byte_start, Page) - byte_start
tail_total == byte_len - byte_end
splice_src == byte_end + seam
splice_dst == byte_start + seam
tail_bytes == byte_len - splice_src
tail_mapped == RoundUp(tail_bytes, Page)

\* Mutant: the freed pages begin inside the last page in use.
used_Down == ((new_len * buf.elem) \div Page) * Page

\* The pages past the new length, offsets from the start of the buffer.
used == RoundUp(new_len * buf.elem, Page)
mapped_end == RoundUp(byte_len, Page)

Min2(a, b) == IF a <= b THEN a ELSE b

\* T::drop runs on the elements lo .. hi-1.
DropsElements(lo, hi) ==
    dropped' = [t \in Tokens |->
        dropped[t] + IF \E i \in lo .. hi - 1 :
                           ElementAt(ElementAddress(buf, i), buf.elem) = t
                     THEN 1 ELSE 0]

-----------------------------------------------------------------------------
(* delete_range *)

Idle == pc = "idle"

GoesTo(stage) == pc' = stage /\ UNCHANGED <<buf, made, alien>>

\* delete_range returns with n elements in the vector.
Returns(n) ==
    /\ len' = n /\ pc' = "idle"
    /\ del' = NoDeletion /\ scratch' = 0 /\ before' = <<>>
    /\ UNCHANGED <<buf, made, alien>>

\* Vec::truncate: sets the length, then drops the suffix, so that it does not
\* matter whether a drop panics.
DeleteTail(start) ==
    /\ Idle /\ start < len
    /\ DropsElements(start, len)
    /\ Returns(start)
    /\ UNCHANGED <<mapping, memory>>

\* Vec::drain, which moves the tail even when a drop panics.
DeleteDrain(start, end) ==
    /\ Idle /\ start < end /\ end < len
    /\ ~FitsPages(start, end)
    /\ DropsElements(start, end)
    /\ memory' = Stored(memory, buf, start, Elements(buf, end, len))
    /\ Returns(start + len - end)
    /\ UNCHANGED mapping

\* Mutant: the length is left alone until the splice is done.
SpliceBegin_KeepsLen(start, end) ==
    /\ Idle /\ start < end /\ end < len
    /\ FitsPages(start, end)
    /\ del' = Deletion(start, end, len)
    /\ before' = Elements(buf, 0, len)
    /\ DropsElements(start, end)
    /\ GoesTo("patch")
    /\ UNCHANGED <<mapping, memory, scratch, len>>

\* The length is lowered first and the deleted elements are dropped.
SpliceBegin(start, end) ==
    /\ Idle /\ start < end /\ end < len
    /\ FitsPages(start, end)
    /\ del' = Deletion(start, end, len)
    /\ before' = Elements(buf, 0, len)
    /\ len' = start
    /\ DropsElements(start, end)
    /\ GoesTo("patch")
    /\ UNCHANGED <<mapping, memory, scratch>>

\* A drop panics: the unwinding leaves delete_range, and the tail leaks.
SplicePanics(start, end) ==
    /\ Idle /\ start < end /\ end < len
    /\ FitsPages(start, end)
    /\ DropsElements(start, end)
    /\ Returns(start)
    /\ UNCHANGED <<mapping, memory>>

\* The leading bytes of the tail are copied up to the next page boundary; if
\* that is the whole tail, no page needs to move.
Patch ==
    /\ pc = "patch"
    /\ memcpy(buf.at + byte_end, buf.at + byte_start, Min2(seam, tail_total))
    /\ GoesTo(IF tail_total <= seam /\ seam > 0 THEN "trim" ELSE "reserve")
    /\ UNCHANGED <<mapping, len, dropped, locals>>

\* Step 1: reserve a scratch region.
Reserve ==
    /\ pc = "reserve"
    /\ \/ \E a \in Places :
             /\ mmap(a, tail_mapped, "pages")
             /\ scratch' = a
             /\ GoesTo("lift")
       \/ GoesTo("copy") /\ UNCHANGED <<mapping, memory, scratch>>
    /\ UNCHANGED <<len, dropped, del, before>>

\* Mutant: without MREMAP_DONTUNMAP.
Lift_Unmaps ==
    /\ pc = "lift"
    /\ \/ /\ mremap_fixed(buf.at + splice_src, tail_mapped, scratch, FALSE)
          /\ GoesTo("place")
       \/ /\ Unmaps(scratch, tail_mapped)
          /\ GoesTo("copy")
    /\ UNCHANGED <<len, dropped, locals>>

\* Step 2: the tail pages move into the scratch region, and their place stays
\* mapped.  Refused, the scratch region is released, if the kernel lets it be.
Lift ==
    /\ pc = "lift"
    /\ \/ /\ mremap_fixed(buf.at + splice_src, tail_mapped, scratch, TRUE)
          /\ GoesTo("place")
       \/ /\ Unmaps(scratch, tail_mapped)
          /\ GoesTo("copy")
    /\ UNCHANGED <<len, dropped, locals>>

\* The branch for an overlap (425-432) is never taken: MappedExactly has the
\* scratch region outside the allocation.
overlaps ==
    Extent(scratch, tail_mapped) \cap Extent(buf.at + splice_dst, tail_mapped) # {}

\* Step 3: the pages move to their final place.
Place ==
    /\ pc = "place" /\ ~overlaps
    /\ \/ /\ mremap_fixed(scratch, tail_mapped, buf.at + splice_dst, FALSE)
          /\ GoesTo("trim")
       \/ GoesTo("rescue") /\ UNCHANGED <<mapping, memory>>
    /\ UNCHANGED <<len, dropped, locals>>

\* Step 3 was refused: the tail is copied from the scratch region ...
Rescue ==
    /\ pc = "rescue"
    /\ memcpy(scratch, buf.at + splice_dst, tail_bytes)
    /\ GoesTo("discard")
    /\ UNCHANGED <<mapping, len, dropped, locals>>

\* Mutant: the scratch region is forgotten.
Discard_Forgets ==
    /\ pc = "discard"
    /\ Returns(new_len)
    /\ UNCHANGED <<mapping, memory, dropped>>

\* ... which is then released, or stays mapped when the kernel refuses that too.
Discard ==
    /\ pc = "discard"
    /\ Unmaps(scratch, tail_mapped)
    /\ Returns(new_len)
    /\ UNCHANGED dropped

\* Step 1 or 2 was refused: the tail is moved by ptr::copy.
CopyInPlace ==
    /\ pc = "copy"
    /\ memcpy(buf.at + splice_src, buf.at + splice_dst, tail_bytes)
    /\ Returns(new_len)
    /\ UNCHANGED <<mapping, dropped>>

\* The new length is set and the pages past it are handed back.
Trim ==
    /\ pc = "trim"
    /\ IF mapped_end > used
       THEN madvise_free(buf.at + used, mapped_end - used)
       ELSE UNCHANGED <<mapping, memory>>
    /\ Returns(new_len)
    /\ UNCHANGED dropped

-----------------------------------------------------------------------------
(* The rest of the program *)

\* The owner pushes a new element within the capacity.
Push ==
    /\ Idle /\ len < buf.cap /\ made < MaxTokens
    /\ made' = made + 1 /\ len' = len + 1
    /\ memory' = Stored(memory, buf, len, <<made + 1>>)
    /\ UNCHANGED <<mapping, buf, pc, dropped, locals, alien>>

\* The vector is dropped: its elements, then its buffer.
DropVec ==
    /\ Idle
    /\ DropsElements(0, len)
    /\ Deallocates(buf)
    /\ len' = 0 /\ pc' = "gone"
    /\ UNCHANGED <<buf, locals, made, alien>>

\* Another thread maps a page, which then holds what is its own, and unmaps it.
AlienMaps ==
    /\ alien = NoPage
    /\ \E a \in {x \in Addresses : Aligned(x)} :
          /\ Covers(a, Page, "none")
          /\ mapping' = Painted(mapping, a, Page, "pages")
          /\ memory' = Painted(memory, a, Page, Foreign)
          /\ alien' = a
    /\ UNCHANGED <<buf, len, pc, dropped, made, locals>>

AlienUnmaps ==
    /\ alien # NoPage
    /\ munmap(alien, Page)
    /\ alien' = NoPage
    /\ UNCHANGED <<buf, len, pc, dropped, made, locals>>

Gone == pc = "gone" /\ UNCHANGED vars

Init ==
    /\ \E at \in Places, shape \in Shapes : \E n \in 0 .. shape[2] :
          /\ n <= MaxTokens
          /\ buf = Buffer(at, shape[1], shape[2])
          /\ Extents(buf) \subseteq Addresses
          /\ KindOf(CapBytes(buf)) = "giant" => at % GiganticPage = 0
          /\ len = n /\ made = n
          /\ mapping = [x \in Addresses |->
                           IF x \in Extents(buf) THEN KindOf(CapBytes(buf)) ELSE "none"]
          /\ memory = Stored([x \in Addresses |-> Junk], buf, 0, [i \in 1 .. n |-> i])
    /\ pc = "idle" /\ del = NoDeletion /\ scratch = 0 /\ before = <<>>
    /\ dropped = [t \in Tokens |-> 0]
    /\ alien = NoPage

DeleteRange ==
    \/ \E start, end \in 0 .. len :
          \/ DeleteDrain(start, end) \/ SpliceBegin(start, end) \/ SplicePanics(start, end)
    \/ \E start \in 0 .. len : DeleteTail(start)
    \/ Patch \/ Reserve \/ Lift \/ Place \/ Rescue \/ Discard \/ CopyInPlace \/ Trim

Next == DeleteRange \/ Push \/ DropVec \/ AlienMaps \/ AlienUnmaps \/ Gone

Spec == Init /\ [][Next]_vars

-----------------------------------------------------------------------------
(* Properties *)

Bytes == (Tokens \X Nat) \cup {Foreign, Zero, Junk}

Stages == {"idle", "patch", "reserve", "lift", "place", "rescue", "discard",
           "copy", "trim", "gone"}

\* The types of the state; the length never exceeds the capacity.
TypeOK ==
    /\ mapping \in [Addresses -> Kinds]
    /\ memory \in [Addresses -> Bytes]
    /\ buf \in [at : Addresses, elem : Nat \ {0}, cap : Nat]
    /\ len \in 0 .. buf.cap
    /\ pc \in Stages
    /\ del \in [start : 0 .. buf.cap, end : 0 .. buf.cap, length : 0 .. buf.cap]
    /\ scratch \in Addresses
    /\ dropped \in [Tokens -> Nat]
    /\ made \in 0 .. MaxTokens
    /\ alien \in Addresses \cup {NoPage}

ScratchExtent == IF pc \in {"lift", "place", "rescue", "discard"}
                 THEN Extent(scratch, tail_mapped) ELSE {}

AlienExtent == IF alien = NoPage THEN {} ELSE Extent(alien, Page)

OwnExtent == IF pc = "gone" THEN {} ELSE Extents(buf)

\* The allocation keeps the extent it was mapped with in every state, also
\* between two kernel calls, so that no other thread's mapping can land in it;
\* the scratch region lies outside it and is gone when delete_range returns, but
\* for pages that the kernel refused to unmap, which are no part of a buffer.
MappedExactly ==
    /\ {x \in Addresses : mapping[x] # "none"} \ Lost =
           OwnExtent \cup ScratchExtent \cup AlienExtent
    /\ OwnExtent \cap ScratchExtent = {}
    /\ AlienExtent \cap (OwnExtent \cup ScratchExtent) = {}

\* Another thread's page still holds what that thread has stored in it: no
\* remapping ever replaces memory the vector does not own.
OthersUntouched ==
    alien # NoPage => \A x \in AlienExtent : memory[x] = Foreign

\* In every state, also when a drop panics in the middle of it, the elements in
\* scope are whole, distinct and not yet dropped: nothing is dropped twice.
InScopeAlive ==
    LET e == Elements(buf, 0, len) IN
    \A i \in 1 .. len : /\ e[i] # Torn /\ dropped[e[i]] = 0
                        /\ \A j \in 1 .. len : i # j => e[i] # e[j]

\* Between two steps of a splice, and so within delete_range.
Busy == pc \notin {"idle", "gone"}

\* The elements that delete_range deals with: those of the vector, or, between
\* two of its steps, those that it had.
held == IF Busy THEN before ELSE Elements(buf, 0, len)

deleting == IF Busy THEN <<del.start, del.end>> ELSE <<>>

Contract == INSTANCE DeletionContract WITH seq <- held, deleting <- deleting

\* On every path through the splice and its fallbacks, delete_range takes the
\* range out of the sequence of elements and drops the deleted ones once.
DeletesRange == Contract!Spec

=============================================================================
