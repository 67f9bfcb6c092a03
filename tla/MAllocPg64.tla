----------------------------- MODULE MAllocPg64 -----------------------------
(***************************************************************************)
(* The allocator MAllocPg64 of src/src/mmap_alloc.rs, used by several      *)
(* threads at once.  Blocks below HUGE_PAGE come from the heap, others are *)
(* anonymous mappings, with the feature giant_pages made of gigantic pages *)
(* from 1 GB on.  The allocator has no state: all it knows of a block is   *)
(* the layout that its caller passes.                                      *)
(*                                                                         *)
(* A client is the owner of one block (a Vec64, say), calling from a       *)
(* thread of its own.  A handler is one step per call it makes of the      *)
(* kernel or the heap, and one for a copy, so that the calls of several    *)
(* clients interleave and each of them may be refused.                     *)
(***************************************************************************)
EXTENDS AddressSpace, FiniteSets

CONSTANTS
    Clients,     \* owners of a block
    Sizes,       \* bound: the sizes that clients ask for
    MaxLost      \* bound: the pages that the kernel may refuse to unmap, in bytes

ASSUME SizesAssumption == Sizes \subseteq Nat \ {0}
ASSUME MaxLostAssumption == MaxLost \in Nat

VARIABLES
    block,       \* block[c]: the block that c owns
    call         \* call[c]: the call of the allocator that c is in

vars == <<mapping, memory, block, call>>

-----------------------------------------------------------------------------
(* Blocks and calls *)

\* A block at an address, for the size last asked for, with the length that
\* the allocator returned.
Block(at, size, len) == [at |-> at, size |-> size, len |-> len]

NoBlock == Block(0, 0, 0)

Blocks == [at : Addresses, size : Nat, len : Nat] \cup {NoBlock}

Owns(c) == block[c] # NoBlock

\* The sizes that a caller may name when it hands its block back: the trait
\* Allocator lets it be any size from the one asked for to the one returned.
Fitting(c) == block[c].size .. block[c].len

\* A call of op for a block of size old (0: no block yet) and the size new;
\* stage says how far the handler is, dest where it builds the new block.
Call(op, old, new, stage, dest) ==
    [op |-> op, old |-> old, new |-> new, stage |-> stage, dest |-> dest]

NoCall == Call("none", 0, 0, "none", 0)

Acquiring == {"allocate", "allocate_zeroed"}
Growing == {"grow", "grow_zeroed"}
Ops == Acquiring \cup Growing \cup {"shrink", "deallocate"}

Stages == {"start", "remap_failed", "copy", "release"}

Calls == [op : Ops, old : Nat, new : Nat, stage : Stages, dest : Addresses]
             \cup {NoCall}

Idle(c) == call[c] = NoCall

At(c, ops, stage) == call[c].op \in ops /\ call[c].stage = stage

\* The call goes on in another stage; the block stays as it is.
GoesTo(c, stage, dest) ==
    /\ call' = [call EXCEPT ![c] = Call(@.op, @.old, @.new, stage, dest)]
    /\ UNCHANGED block

\* The call returns a block to its caller.
Returns(c, at, len) ==
    /\ block' = [block EXCEPT ![c] = Block(at, call[c].new, len)]
    /\ call' = [call EXCEPT ![c] = NoCall]

\* The call returns Err(AllocError): no memory has changed hands.
Fails(c) ==
    /\ call' = [call EXCEPT ![c] = NoCall]
    /\ UNCHANGED <<mapping, memory, block>>

-----------------------------------------------------------------------------
(* Helpers of the handlers *)

do_mmap(a, original_size, mapped) ==
    mmap(a, mapped, IF uses_giant_pages(original_size) THEN "giant" ELSE "pages")

\* munmap as every handler calls it: the result is ignored, so that the handler
\* goes on as if the pages were gone.
unmap(at, len) ==
    \/ munmap(at, len)
    \/ /\ Cardinality(Lost) + len <= MaxLost
       /\ munmap_refused(at, len)

\* What deallocate does with a block of this size.
Release(at, size) ==
    IF uses_mmap(size) THEN unmap(at, mapped_size(size)) ELSE free(at, size)

\* Mutant: nothing is copied to the new mapping.
TakesMapping_NoCopy(c) ==
    \/ \E a \in Places :
          /\ do_mmap(a, call[c].new, mapped_size(call[c].new))
          /\ GoesTo(c, "release", a)
    \/ Fails(c)

\* The first step of every relocation: take a mapping, or fail.
TakesMapping(c) ==
    \/ \E a \in Places :
          /\ do_mmap(a, call[c].new, mapped_size(call[c].new))
          /\ GoesTo(c, "copy", a)
    \/ Fails(c)

\* The same with a heap block.
TakesHeapBlock(c, content) ==
    \/ \E a \in Places : malloc(a, call[c].new, content) /\ GoesTo(c, "copy", a)
    \/ Fails(c)

OnHeap(c) == ~uses_mmap(call[c].old) /\ ~uses_mmap(call[c].new)
BothMapped(c) == uses_mmap(call[c].old) /\ uses_mmap(call[c].new)
SameExtent(c) == mapped_size(call[c].old) = mapped_size(call[c].new)
LeavesGiant(c) == uses_giant_pages(call[c].old) /\ ~uses_giant_pages(call[c].new)

-----------------------------------------------------------------------------
(* The caller *)

\* The calls that a client may make: of new blocks when it has none, else of
\* its block, for any size that fits it.
Requests(c) ==
    IF Owns(c)
    THEN LET old == Sizes \cap Fitting(c) IN
         {Call("deallocate", o, 0, "start", 0) : o \in old}
           \cup {Call(op, o, n, "start", 0) :
                     op \in Growing, o \in old, n \in {s \in Sizes : s > block[c].size}}
           \cup {Call("shrink", o, n, "start", 0) : o \in old, n \in Sizes}
    ELSE {Call(op, 0, n, "start", 0) : op \in Acquiring, n \in Sizes}

\* Growing and shrinking do what they say.
Legal(k) == /\ k.op \in Growing => k.new > k.old
            /\ k.op = "shrink" => k.new < k.old

\* What client c stores in byte i of its block.
Stamp(c, i) == <<c, i>>

Filled(c) == \A x \in Extent(block[c].at, block[c].len) :
                 memory[x] = Stamp(c, x - block[c].at)

\* Bound: a client calls the allocator with a block that it has filled, so a
\* byte that is lost or misplaced is seen, and blocks half full are left out.
Request(c) ==
    /\ Idle(c) /\ Filled(c)
    /\ \E k \in Requests(c) : Legal(k) /\ call' = [call EXCEPT ![c] = k]
    /\ UNCHANGED <<mapping, memory, block>>

\* The client fills the whole block that it was given.
Write(c) ==
    /\ Idle(c) /\ ~Filled(c)
    /\ memory' = [x \in Addresses |->
                     IF x \in Extent(block[c].at, block[c].len)
                     THEN Stamp(c, x - block[c].at) ELSE memory[x]]
    /\ UNCHANGED <<mapping, block, call>>

-----------------------------------------------------------------------------
(* allocate, allocate_zeroed, deallocate *)

AllocateOnHeap(c) ==
    /\ At(c, Acquiring, "start") /\ ~uses_mmap(call[c].new)
    /\ \/ \E a \in Places :
             /\ malloc(a, call[c].new, IF call[c].op = "allocate" THEN Junk ELSE Zero)
             /\ Returns(c, a, call[c].new)
       \/ Fails(c)

AllocateMapped(c) ==
    /\ At(c, Acquiring, "start") /\ uses_mmap(call[c].new)
    /\ \/ \E a \in Places :
             /\ do_mmap(a, call[c].new, mapped_size(call[c].new))
             /\ Returns(c, a, mapped_size(call[c].new))
       \/ Fails(c)

Deallocate(c) ==
    /\ At(c, {"deallocate"}, "start")
    /\ Release(block[c].at, call[c].old)
    /\ block' = [block EXCEPT ![c] = NoBlock]
    /\ call' = [call EXCEPT ![c] = NoCall]

-----------------------------------------------------------------------------
(* grow, grow_zeroed *)

GrowOnHeap(c) ==
    /\ At(c, {"grow"}, "start") /\ OnHeap(c)
    /\ \/ \E a \in Addresses :
             /\ realloc(block[c].at, call[c].old, a, call[c].new)
             /\ Returns(c, a, call[c].new)
       \/ Fails(c)

GrowZeroedOnHeap(c) ==
    /\ At(c, {"grow_zeroed"}, "start") /\ OnHeap(c)
    /\ TakesHeapBlock(c, Zero)

GrowToMmap(c) ==
    /\ At(c, Growing, "start")
    /\ ~uses_mmap(call[c].old) /\ uses_mmap(call[c].new)
    /\ TakesMapping(c)

GrowWithin(c) ==
    /\ At(c, Growing, "start") /\ BothMapped(c) /\ SameExtent(c)
    /\ Returns(c, block[c].at, mapped_size(call[c].new))
    /\ UNCHANGED <<mapping, memory>>

\* Mutant: MAP_FAILED is returned as the address of the block.
GrowRemap_Unchecked(c) ==
    /\ At(c, Growing, "start") /\ BothMapped(c) /\ ~SameExtent(c)
    /\ \/ \E a \in Addresses :
             /\ mremap(block[c].at, mapped_size(call[c].old),
                       a, mapped_size(call[c].new))
             /\ Returns(c, a, mapped_size(call[c].new))
       \/ /\ Returns(c, -1, mapped_size(call[c].new))
          /\ UNCHANGED <<mapping, memory>>

GrowRemap(c) ==
    /\ At(c, Growing, "start") /\ BothMapped(c) /\ ~SameExtent(c)
    /\ \/ \E a \in Addresses :
             /\ mremap(block[c].at, mapped_size(call[c].old),
                       a, mapped_size(call[c].new))
             /\ Returns(c, a, mapped_size(call[c].new))
       \/ GoesTo(c, "remap_failed", 0) /\ UNCHANGED <<mapping, memory>>

\* The allocation may consist of several mappings, which mremap refuses.
GrowRelocate(c) ==
    /\ At(c, Growing, "remap_failed")
    /\ TakesMapping(c)

-----------------------------------------------------------------------------
(* shrink *)

ShrinkOnHeap(c) ==
    /\ At(c, {"shrink"}, "start") /\ OnHeap(c)
    /\ \/ \E a \in Addresses :
             /\ realloc(block[c].at, call[c].old, a, call[c].new)
             /\ Returns(c, a, call[c].new)
       \/ Fails(c)

ShrinkToHeap(c) ==
    /\ At(c, {"shrink"}, "start")
    /\ uses_mmap(call[c].old) /\ ~uses_mmap(call[c].new)
    /\ TakesHeapBlock(c, Junk)

ShrinkWithin(c) ==
    /\ At(c, {"shrink"}, "start") /\ BothMapped(c) /\ SameExtent(c)
    /\ Returns(c, block[c].at, mapped_size(call[c].new))
    /\ UNCHANGED <<mapping, memory>>

ShrinkFromGiant(c) ==
    /\ At(c, {"shrink"}, "start") /\ BothMapped(c) /\ ~SameExtent(c)
    /\ LeavesGiant(c)
    /\ TakesMapping(c)

\* Mutant: the tail of gigantic pages is unmapped as any other.
ShrinkTail_AnyPages(c) ==
    /\ At(c, {"shrink"}, "start") /\ BothMapped(c) /\ ~SameExtent(c)
    /\ unmap(block[c].at + mapped_size(call[c].new),
             mapped_size(call[c].old) - mapped_size(call[c].new))
    /\ Returns(c, block[c].at, mapped_size(call[c].new))

ShrinkTail(c) ==
    /\ At(c, {"shrink"}, "start") /\ BothMapped(c) /\ ~SameExtent(c)
    /\ ~LeavesGiant(c)
    /\ unmap(block[c].at + mapped_size(call[c].new),
             mapped_size(call[c].old) - mapped_size(call[c].new))
    /\ Returns(c, block[c].at, mapped_size(call[c].new))

-----------------------------------------------------------------------------
(* The end of a relocation: copy what survives, then let the old block go *)

CopyOver(c) ==
    /\ At(c, Ops, "copy")
    /\ memcpy(block[c].at, call[c].dest,
              IF call[c].op = "shrink" THEN call[c].new ELSE call[c].old)
    /\ GoesTo(c, "release", call[c].dest)
    /\ UNCHANGED mapping

\* Mutant: the old block is never given back.
ReleaseOld_Keeps(c) ==
    /\ At(c, Ops, "release")
    /\ Returns(c, call[c].dest, BlockSize(call[c].new))
    /\ UNCHANGED <<mapping, memory>>

ReleaseOld(c) ==
    /\ At(c, Ops, "release")
    /\ Release(block[c].at, call[c].old)
    /\ Returns(c, call[c].dest, BlockSize(call[c].new))

-----------------------------------------------------------------------------
(* The specification *)

Init ==
    /\ AddressSpaceInit
    /\ block = [c \in Clients |-> NoBlock]
    /\ call = [c \in Clients |-> NoCall]

Grow(c) ==
    \/ GrowOnHeap(c) \/ GrowZeroedOnHeap(c) \/ GrowToMmap(c)
    \/ GrowWithin(c) \/ GrowRemap(c) \/ GrowRelocate(c)

Shrink(c) ==
    \/ ShrinkOnHeap(c) \/ ShrinkToHeap(c) \/ ShrinkWithin(c)
    \/ ShrinkFromGiant(c) \/ ShrinkTail(c)

Step(c) ==
    \/ AllocateOnHeap(c) \/ AllocateMapped(c) \/ Deallocate(c)
    \/ Grow(c) \/ Shrink(c) \/ CopyOver(c) \/ ReleaseOld(c)

Next == \E c \in Clients : Request(c) \/ Write(c) \/ Step(c)

Spec == Init /\ [][Next]_vars

-----------------------------------------------------------------------------
(* Properties *)

Bytes == (Clients \X Nat) \cup {Zero, Junk}

\* The types of the state: mapping kinds and contents of every address, and
\* what each client owns and calls.
TypeOK ==
    /\ mapping \in [Addresses -> Kinds]
    /\ memory \in [Addresses -> Bytes]
    /\ block \in [Clients -> Blocks]
    /\ call \in [Clients -> Calls]

\* The addresses that client c owns: its block, and the block that the call
\* it is in has taken to move into.
Building(c) == call[c].stage \in {"copy", "release"}

Destination(c) ==
    IF Building(c) THEN Extent(call[c].dest, BlockSize(call[c].new)) ELSE {}

OwnedBy(c) == Extent(block[c].at, block[c].len) \cup Destination(c)

\* Every mapped byte belongs to exactly one client, and every byte a client
\* owns is mapped: after any sequence of calls and refusals nothing is leaked,
\* unmapped under its owner or handed out twice, but for the pages that the
\* kernel itself would not unmap, which no client owns any more.
EverythingOwnedOnce ==
    /\ {x \in Addresses : mapping[x] # "none"} \ Lost = UNION {OwnedBy(c) : c \in Clients}
    /\ \A c, d \in Clients : c # d => OwnedBy(c) \cap OwnedBy(d) = {}
    /\ \A c \in Clients :
          Extent(block[c].at, block[c].len) \cap Destination(c) = {}

\* The regime and the extent of a block that a handler computes from any size
\* fitting the block are those the block has: the length it was returned with
\* and the kind of memory that is there (test_boundary_classification_stable).
SizeTellsRegime ==
    \A c \in Clients : \A s \in Fitting(c) : Owns(c) =>
        /\ BlockSize(s) = IF uses_mmap(s) THEN block[c].len ELSE s
        /\ \A x \in Extent(block[c].at, block[c].len) :
              mapping[x] \in IF uses_mmap(s) THEN {"pages", "giant"} ELSE {"heap"}
        /\ ~uses_giant_pages(s) => \A x \in Extent(block[c].at, block[c].len) :
                                      mapping[x] # "giant"

\* A gigantic page is never given back in part: "Crossing from gigantic to
\* non-gigantic page sizes cannot partially unmap 1GB pages at non-1GB
\* boundaries" (386-388).  So whoever owns a byte of one owns all of it.
GiganticPagesWhole ==
    \A x \in Addresses : mapping[x] = "giant" =>
        \E c \in Clients :
            Extent((x \div GiganticPage) * GiganticPage, GiganticPage) \subseteq OwnedBy(c)

\* "Gigantic pages are only used for the initial allocation; growing into 1GB
\* territory from a smaller mapping stays on the HUGE_PAGE rounding" (21-23):
\* a mapping below 1 GB that has grown is no larger than that.
GrowsOn(c) ==
    /\ call[c].op \in Growing /\ call'[c] = NoCall /\ block'[c].size = call[c].new
    /\ uses_mmap(call[c].old) /\ ~uses_giant_pages(call[c].old)

GrowthStaysOnHugePages ==
    [][\A c \in Clients : GrowsOn(c) =>
          block'[c].len = RoundUp(call[c].new, HugePage)]_vars

=============================================================================
