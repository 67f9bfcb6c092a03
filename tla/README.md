# vec64 in TLA+

`vec64` is a Rust crate with a 64-byte aligned vector, the allocators below it,
and a concurrent append-only vector. This directory holds its TLA+ models, the
TLC runs that check them and the TLAPS proofs about them. Line numbers refer to
the files under `src/src/`.

## 1. Inventory

| Component | State it keeps | Operations | What is hard | What makes it correct |
|---|---|---|---|---|
| `AppendOnlyVec` (`append_only_vec.rs`) | the slot buffer, the atomics `reserved` and `published` | `push`, `count`, `as_slice`, `get`, `iter`, `as_mut_slice`, `Drop` | any number of threads, weak memory orderings, a publication spin in which writers wait for one another | no slot lost or given twice, no data race, the readable prefix is contiguous and grows, held slices are stable, values are dropped once, pushes return |
| `MAllocPg64` (`mmap_alloc.rs`) | none of its own: the kernel's mappings and the heap | `allocate`, `allocate_zeroed`, `deallocate`, `grow`, `shrink`, `grow_zeroed` | which regime (heap, huge page, giant page) an address belongs to is recomputed from the size; every kernel call may fail | the recomputed regime is the one the block was allocated in, a failed call leaves the block intact, contents survive, nothing leaks |
| `Vec64` (`vec64.rs`) | a `Vec` over the allocator | `delete_range`, `extend_from_vec64`, `from_chunks`, `zeroed`, `from_vec64_u8`, `from_raw_parts`, the `vec64!` macro | remapping of pages in place of a copy, with fallbacks at each kernel call and other threads mapping memory meanwhile; bytes relabelled as elements behind the allocator's back; expressions that a macro mentions twice | the result is the sequence the plain operation gives, on every path; nothing is dropped twice or unmapped twice; the layout handed back is the one allocated |
| `PageAligned` (`page_aligned.rs`) | none | the predicate, the nearest aligned lengths, the row step of a page for an element size, the bit step of a mask | element sizes that are not powers of two; bits, bytes, elements and spare capacity | steps are the least whole pages and whole elements, and the predicate agrees with them |
| `Alloc64` (`alloc64.rs`) | none: the heap records a layout for each block | `allocate`, `allocate_zeroed`, `deallocate`, `grow`, `shrink`, `grow_zeroed` | the layout a block was allocated with is computed anew in each call; a panic for sizes near `isize::MAX` | the recomputed layout is the recorded one, 64-byte alignment after every call, the contract of an allocator |
| Global allocators (`global.rs`) | none | `GlobalAlloc` over the allocators above | its own `realloc` next to `MAllocPg64::grow`; both at work in one process | the contract of `GlobalAlloc` |
| Crate root, features, `build.rs` | none | re-exports; emits `HUGE_PAGE` | | a power of two of at least a page |

How they interact: `Vec64<T>` is a `Vec<T, A>` whose allocator `A` is `Alloc64`
or, with the `mmap` feature, `MAllocPg64`. `Vec64` calls the allocator through
`Vec`, and calls the kernel itself (`mremap`, `mmap`, `madvise`) on memory the
allocator has mapped, so the two must agree on how large a mapping is.
`AppendOnlyVec` stands alone: its buffer is a boxed slice that never moves.

## 2. Plan

| # | Part | State |
|---|---|---|
| 1 | `AppendOnlyVec`, the only component with threads in it: detailed model under weak memory, the abstract log it implements, progress, proofs | done |
| 2 | `MAllocPg64` over an abstract address space with refusals, implementing an abstract allocator; the global allocator's own `realloc` in the same address space | modelled, checked and proved, with `giant_pages` for all sizes but those of finding 1 |
| 3 | `Vec64`: the remapping splice against another thread, the append and `from_chunks`, implementing their contracts on sequences | modelled, checked and proved; that no page is lost by an append without `giant_pages` only, with which finding 3 refutes it |
| 4 | `Alloc64`, its global form and the vectors that relabel their blocks | modelled, checked and proved |
| 5 | `PageAligned` and the bit masks of `vec64!` | modelled, checked and proved |
| 6 | composition: a vector that grows, shrinks and is spliced through the allocator's own actions, in place of the summary of growth in `Vec64Append` | not built; each side is proved against its contract, with the kernel and the heap (`AddressSpace`) in common |
| 7 | theorems: that the allocators, the log, the splice and the append implement their abstract specifications | done |

## 3. AppendOnlyVec

### Modules

- `AppendOnlyVec` models `append_only_vec.rs`. A `push` is the actions
  `PushLoad` (156), `PushFull` (158-160), `PushClaim` and `PushRetry` (161-168:
  the weak exchange succeeds, or fails, also spuriously), `PushWrite` (176-178),
  `PushSpin` and `PushTurn` (186-188) and `PushCommit` (192-194). Readers take
  `Observe` (a load that hands out nothing), `AsSlice`, `NewIter`, `Get`,
  `IterNext` and `EndBorrow`. Whoever has the vector exclusively takes `Edit`
  (through `as_mut_slice` or `iter_mut`) or drops it: `DropBegin`, `DropSlot`,
  `DropPanic` (a `T::drop` that panics) and `DropEnd`.
- `AppendLog` is what the vector promises: a log of bounded length, granted in
  order, committed in order, whose readers hold snapshots of a prefix.
- `AppendOnlyVecRefinesLog` maps the first to the second. A reader's contents
  are evaluated from the buffer in every state, so the mapping exists only if
  nobody writes under a reference.
- `AppendOnlyVecLiveness` adds fairness and writers that are paused for ever.
- `AppendOnlyVec_proof` proves the safety properties, and that the log is
  implemented.
- `MCAppendOnlyVec` and `MCAppendOnlyVecLiveness` give the constants values for
  TLC.

### Memory model

The code's orderings matter, so a step of an atomic is not simply a read of the
current value. `view[t]` records how far thread `t` has seen each counter go and
which slots' initialisation happens before its next step. Both counters take
their values 0, 1, 2, ... in turn (an invariant), so the modification order is
an interval; a Relaxed load returns any value in it that is not older than the
view, a successful exchange acts on the newest value, a failed one returns any
value as a load does. `commits[k]` is the view left by the Release store of `k`
and an Acquire load of `k` joins it. `NoDataRace` then says that what a reader
covers is in its view, which is stronger than being initialised in memory.
Obtaining `&mut AppendOnlyVec` (through `Arc::get_mut`, a scope or `join`) and
sharing it again synchronises everyone: `FullView`. That is std's contract and
the borrow checker's, which the model takes as given.

Values are tokens, one per push or edit, so that `drops` can count how often
`T::drop` ran on each.

### Runs

| Run | Instance | What it shows |
|---|---|---|
| `append_safety` | 3 writers, 1 of which reads, 1 more reader, capacity 2, 2 values per writer | all safety properties, the inductive invariant, and that `AppendLog` is implemented |
| `append_progress` | 3 writers, 1 of which may stop anywhere, capacity 3, 2 values each | claims stay lock-free, only successors of the paused writer stall, and every push returns if that writer is scheduled after all |

Bounds. `MaxValues` caps how many values a writer makes; with three writers and
two values each there are six pushes for two slots, so the cap is reached with
claims in flight, by pushes that read the counter early and late. Capacity 2 has
a first and a last slot, a predecessor and a successor; the progress runs have
capacity 3, where a writer can have two predecessors. A thread holds one
reference at a time. The end of a behaviour is the self-loop `Gone`, so deadlock
is checked everywhere.

Fairness. `LiveSpec` asks weak fairness of `PushStep(t)` for each writer that is
not paused: threads are scheduled, a store becomes visible in finite time, and a
weak exchange does not fail spuriously for ever. Nothing is assumed about who
wins a claim. `PushReturns` has the same fairness for the paused writer as its
hypothesis, so that one run tells the two cases apart. Strong fairness is not needed, because a lost exchange means that
another writer has taken one of finitely many slots.

### What is proved

For every set of writers and readers, every capacity and every `MaxValues`
(assumptions `CapAssumption`, `MaxValuesAssumption`: natural numbers;
`UninitAssumption`: the uninitialised content is not a value), `AppendOnlyVec_proof`
proves `Spec => []P` for `TypeOK`, `ClaimsAccounted`, `SpinCanEnd`, `NoDataRace`
and `DropExactlyOnce`, and the action properties `PublishesInClaimOrder`,
`RefusesOnlyWhenTaken` and `BorrowsStable`.

None of them is inductive. `IInv` adds: who may be where in which phase
(`PhasesOK`); what a slot holds as a function of its claimant's progress
(`SlotsOK`); that having seen `published = k` means having seen the first `k`
slots initialised, and that nothing else is in a view but the thread's own slot
(`ViewsOK`); that the store of `k` releases exactly the first `k` slots
(`CommitsOK`, the induction along the chain of writers that each acquire their
predecessor's store); and the whereabouts of every value (`ValuesOK`). There is
one lemma per action with one step per conjunct. The race freedom argument is
then short: a reference covers slots below what its holder has loaded, a writer
about to write owns a slot at or above `published`.

`SpinCanEnd` (`TurnsComeUp`) is what safety can say of the spin loop (186), which
compares for equality: `published` never goes past a writer that waits for it, and
whenever slots are claimed and unpublished, the writer of the first of them waits
for nobody. It is a consequence of `ClaimsAccounted` and of `ViewsOK`: the slots
from `published` to `reserved` have one writer each, and the value that the first
one waits for is there to be read. That the writer is then scheduled and reads it
is fairness, and with it the model checker's part (`PushReturns`).

`Refinement`, in the same module, adds that every step is a step of `AppendLog` or
leaves it unchanged, also for every value of the constants. The invariant is the
same. Most steps are local to one thread; the ones that need it
are `PushCommit` (whose slot is the next one of the log, with the writer's value
in it), the stores into the buffer (which no held reference covers, so that all
snapshots stay the same) and the refusal of a push.

The liveness properties are model-checked only.

### Not modelled

`with_capacity` failing to allocate, `T`'s layout, `Send` and `Sync` bounds
(checked by the compiler), and panics of `T::drop` on a value that a refused
`push` or an edit drops.

## 4. MAllocPg64 and the global allocator

### Modules

- `PageSizes` is the arithmetic of `mmap_alloc.rs` (75-103): which regime a size
  belongs to and how far its mapping extends. `PageSizes_proof` has theorems about it.
- `AddressSpace` is external: the kernel and the system heap as the allocator
  uses them. An address is a byte; `mapping[a]` says who provides it and
  `memory[a]` what it holds. A kernel call is one step, because the kernel
  changes mappings under its own lock.
- `MAllocPg64` has one owner of one block per client. A handler is split at
  every call of the kernel or heap and at the copy, so that the calls of several
  clients interleave: `grow` is `GrowOnHeap` (264-270), `GrowToMmap` (272-282),
  `GrowWithin` (284-290), `GrowRemap` (292-318) and, refused, `GrowRelocate`
  (301-313); `shrink` is `ShrinkOnHeap`, `ShrinkToHeap`, `ShrinkWithin`,
  `ShrinkFromGiant`, `ShrinkTail` (352-408); `CopyOver` and `ReleaseOld` end a
  relocation. Each step that takes memory has the alternative in which it is
  refused.
- `BlockContract` is what a caller is promised: each client has contents of some
  length, which growing and shrinking keep up to the smaller size, and which no
  other client's call touches; new bytes of the zeroing calls are zero; a call
  may fail and then changes nothing. `MAllocPg64Contract` maps the allocator to
  it by reading the bytes where the blocks are.
- `MAllocPg64Global` has the handlers of `global.rs`, which share the helpers
  and decide in one `realloc`. Its clients work next to clients of `MAllocPg64`,
  as in a process that installs it and uses `Vec64`.

### Runs

| Run | Instance | What it shows |
|---|---|---|
| `malloc_contract` | 2 clients of `MAllocPg64`, sizes 1, 4, 5, 8 on pages of 4, 24 addresses, no gigantic pages | ownership, the regime recomputed from any fitting size, the contract |
| `malloc_mixed` | 1 client of each allocator, sizes 1, 2, 3, 4, 10 on pages of 3, gigantic pages of 9, 21 addresses | ownership, gigantic pages that stay whole and the contract, across the two allocators |
| `malloc_giant_shrink` | pages of 2, sizes 1, 2, 7, 8, 9: one of them rounds up into a gigantic page | finding 1 |
| `malloc_giant_growth` | pages of 2, sizes 1, 2, 8, 9 | finding 2 |

Bounds. `Sizes` are the sizes asked for: below the threshold, equal to it,
inside a page and a whole number of pages; in `malloc_mixed` also two mapped
sizes below the gigantic ones, so that both allocators shrink by the tail of a
mapping. `Places` are the addresses at which new memory is placed; three of
them, and two clients, so that a mapping finds its successor pages free in one
state and taken in another. In `malloc_mixed` an ordinary mapping at one place
blocks the growth of the one before it, and the one gigantic mapping that fits
leaves room for one more page. `Request` requires that the caller has filled its
block: that every byte has a known owner's mark is what makes the loss of one
visible. Clients of one allocator are interchangeable (`SYMMETRY` in
`malloc_contract`); there is no liveness property. `MaxLost` is how many bytes
the kernel may refuse to unmap in all: one page, which is enough for every
handler to go on past a refusal.

Assumptions about the kernel. A call that is refused has had no effect; `munmap`
is refused for a part of a gigantic page, or for want of a mapping
(`munmap_refused`, the limit `vm.max_map_count`), and its pages are then `Lost`:
still mapped, owned by nobody and never handed out again. `EverythingOwnedOnce`
says that nothing else is. `mremap` moves ordinary pages that form one mapping,
and does not grow gigantic ones. `malloc_mixed` leaves out the sizes just below
1 GB: `malloc_giant_shrink` shows what happens with them.

### What is proved

`PageSizes_proof` proves, for any page sizes of which the gigantic one is a
multiple of the huge one (`HugePageAssumption`, `GiganticPageAssumption`), with
and without `giant_pages`: a mapping holds its block (`MappingHoldsBlock`); every
size from the one asked for to the length returned gives the same regime and the
same length (`ExtentIsStable`, the arithmetic under `SizeTellsRegime`); and
`mapped_size` is monotone (`MappedSizeMonotone`). They rest on lemmas about
division and rounding; the case of a size below 1 GB that rounds up to 1 GB is
the one that needs the gigantic page to be whole huge pages. `build.rs` also
accepts a `HUGE_PAGE` above 1 GB; together with `giant_pages` a gigantic page is
then less than a huge one, which the models and these theorems leave out.

`MAllocPg64_proof` proves `TypeOK`, `EverythingOwnedOnce`, `SizeTellsRegime` and
`GiganticPagesWhole` of every reachable state of `MAllocPg64`, for any clients,
sizes, places and page size and any `MaxLost`, from the constants' assumptions and
`Steady = Sizes`: a size asked for is not made gigantic by rounding alone. Without
`giant_pages` that is true of all sizes (`WithoutGiantPages`); with it, it leaves
out those just below 1 GB, for which finding 1 refutes the last property. The
runs `malloc_contract` and `malloc_mixed` are instances that satisfy it, one of
each build.

The invariant `IInv` says of each client separately (`ClientOK`) that its block
lies in the kind of memory that its size demands, with the length that
`BlockSize` gives, on gigantic pages only if it begins at one (`BlockOK`); that a
call names a size that fits the block, asks for a larger or smaller one as it
should, and while `Building` has a destination of the kind and length that the
new size demands (`CallOK`); and that the two do not overlap (`Apart`). `Disjoint`
and `NothingLeaked` relate the clients. Every action is reduced to `Exchanges`,
the addresses given up and taken, and `Frame` argues once for the other clients:
what a step takes was free, and what another client owns was not. `FittingSize` is
where the arithmetic enters: the caller may name any size that fits, and `mremap`,
`munmap` and `dealloc` must still be told of the whole block.

It proves under the same hypothesis that `MAllocPg64` implements `BlockContract`
(`ContractKept`), and of the clients of the global allocator next to others that
they own each byte once (`GlobalOwnership`), split no gigantic page
(`GlobalGigantic`) and get the contract (`GlobalContract`). `BuildOK` is added to the invariant: what the
destination of a relocation holds between the steps that fill it. A step of one
client leaves the memory of the others as it is (`Touches`), because of
`EverythingOwnedOnce`, and does one of five things to its own (`Outcome`); each
of the five is a step of the contract or none. `NoRequestAssumption` says that
the mark for no request is not a request. There is no liveness to prove.

## 5. Vec64: moving pages

### Modules

- `Vec64Buffer` lays elements out in an address space. Byte `k` of element `t`
  is the pair `<<t, k>>`, so that an element moved in part, torn or overwritten
  is not an element.
- `Vec64Splice` is `delete_range` (215-243) and `try_mremap_splice` (268-470):
  `SpliceBegin` (the length is lowered, the range dropped) or `SplicePanics`,
  `Patch` (the seam up to the next page boundary), `Reserve`, `Lift` and `Place`
  (steps 1, 2, 3, each a kernel call that may be refused), `Rescue` and `Discard`
  (after a refused step 3), `CopyInPlace` (after a refused step 1 or 2) and
  `Trim`. The release of the scratch mapping in `Lift` and `Discard` (408, 446) is
  `Unmaps`: the kernel may refuse that as well, the result is ignored, and the
  pages are then `Lost`, as in section 4. Between any two of them another thread maps a page in any hole there
  is and stores in it (`AlienMaps`), or unmaps it.
- `DeletionContract` is deletion on sequences, in which a drop may panic.
- `Vec64Append` is `extend_from_vec64` (495-515), `try_mremap_append` (551-615)
  and `from_chunks` (533-543): `TakeApart`, then `MovePages` or `MoveRefused`;
  `MoveElements` when the conditions fail; `ExtendEmpty`. Growth of the
  destination is summarised as one step that ends in any block the allocator may
  return (`GrowsInto`; section 4 has its steps): the same, one extended or moved
  within its regime, or a new one. Wherever a mapped buffer is released, dropped or
  copied from (`Deallocates`, `Stays`), it may stay behind and be `Lost`.
- `ConcatContract` is appending and consuming on sequences.

### Runs

| Run | Instance | What it shows |
|---|---|---|
| `vec_splice` | pages of 2 bytes, elements of 1 and 3 bytes, a heap buffer and mapped ones of 4 and 6 pages at three places, up to 6 elements | the contract on every path, the allocation whole in every state, nothing else left mapped but what the kernel refused to unmap, another thread's page untouched, elements in scope alive |
| `vec_append` | 3 vectors, heap and mapped, packed and not, ending on and off a page boundary | the contract; no buffer loses a page or shares one, and no page is left without an owner but those that the kernel refused to unmap |
| `vec_append_giant` | 2 vectors of gigantic size made of ordinary pages | finding 3 |

Bounds. With elements of 3 bytes on pages of 2 a deleted span is a whole number
of pages only for an even number of elements, and ranges begin inside a page; the
seam, a tail shorter than the seam and a partly filled last page all occur, and
every action and every branch is taken. One page of the other thread is enough to
land in any one hole. `MaxTokens` bounds how many elements there ever are;
elements pushed after a deletion are written over pages handed to `MADV_FREE`.

With `giant_pages`, the kernel refuses to unmap or to replace a part of a gigantic
page (`Splits`). It may also refuse to unmap ordinary pages (`munmap_refused`),
and is most likely to when it has just refused a move, both for want of mappings.
`MappedExactly` and `ConsumedEntirely` are therefore about the mapped bytes that
are not `Lost`: the code cannot be said to give the scratch mapping back in all
cases, but whatever stays without an owner is something it tried to unmap. How
much may be lost has no bound in these two models but the address space. The
other thread's own `munmap` is its business and always succeeds.

`MADV_FREE` pages hold `Junk` from the call on until written, the worst the
kernel may do. A refused `mremap` is taken to have had no effect, as the code
takes it; the kernel may in rare cases unmap the destination before it refuses.
The branch for a scratch mapping that overlaps the destination (425-432) is not
an action: `MappedExactly` shows that the scratch mapping lies outside the
allocation.

### What is proved

`Vec64Splice_proof` proves `TypeOK`, `MappedExactly`, `OthersUntouched`,
`InScopeAlive` and the refinement `DeletesRange`, for every page size, element
size, shape of the buffer and set of places, with and without `giant_pages`, from
the assumptions on the constants (`PageAssumption`: a huge page is a whole number
of pages; `ShapesAssumption`: elements have a size; `MaxTokensAssumption`;
`TornAssumption` and `NoPageAssumption`: the marks for no element and for no page
are neither).

Pages cut elements apart, so the argument is about bytes (`Vec64Buffer_proof`,
which the append uses as well): `Spelled` says which bytes of a sequence of
elements lie where, and a sequence whose bytes all lie somewhere is read there
(`SpelledElements`, `ElementsSpelled`). `LengthsOK`
collects what the lengths that `try_mremap_splice` computes have to do with one
another: that the seam, the moved pages and the range end where they must. The
invariant `IInv` says who provides which addresses (`RegionsOK`: those without an
owner are free or `Lost`, whichever the kernel chose), what was asked
and found out (`CallOK`) and, for each stage of the call, where the bytes of the
head and of the tail are (`ContentOK`): in place, at the scratch mapping, or
already behind the head. `HeldOK` says of the elements in scope that they are
distinct and not dropped, which a panic of a destructor in the middle of the
range puts at risk. There is one lemma per action; it says also what the step
does to the sequence (`Stutters`, `Begins`, `Removes`, `Finishes`, `Pushes`), and
these are the steps of `DeletionContract`.

`Vec64Append_proof` proves `TypeOK`, `BuffersApart` and the refinement
`Concatenates` for any page and element size, number and shape of vectors and
set of places, with and without `giant_pages`, from the assumptions on the
constants (`OthersAssumption`; `ElemSizeAssumption`: elements have a size;
`GapAssumption`, `ShapesAssumption`: the buffers of the start have room and no
length exceeds a capacity; `NoVecAssumption`: the mark for no vector is not a
sequence). `ConsumedEntirely`, that no byte is mapped but those of a vector and what is `Lost`, is
proved from `~GiantPages`. With `giant_pages` finding 3 is a reachable state
outside it; the other theorems say that this is all: no vector that is left
lacks a page or shares one, and the concatenation is right.

The invariant `IInv` is `TypeOK`, the two statements about pages (`Ownership`,
the second without `giant_pages`) and the following: the elements of each vector
are whole, and without `giant_pages` it lies in memory of the kind that its size
demands (`VecOK`), so that the allocator finds the block in the regime where it
is and gives all of it back (`Freed`); a vector is taken apart only while its
pages fit behind the destination, one at a time (`StagesOK`), so that after a
refusal the elements are still where they were. The argument is local. A step
touches at most two vectors, of which one remains; what it takes was free or
theirs, and what they give up is free or lost or, with `giant_pages`, nobody's
(`Exchanges`), so all others keep their blocks and their elements (`Frame`). The
moved pages end up behind the elements of the destination and nowhere else
because the destination has room, and they carry all bytes of the consumed
vector because its capacity is its length; that they are also all its pages
(`WholePages`) needs `~GiantPages`, as `Freed` does. `ConcatSpelled` puts the
bytes of the two together, whether pages or elements moved. That the chunks can
be counted (`TotalLength`) rests on their lying in the address space. Elements
are named after the address where they begin, so that those of different vectors
differ however many there are.

## 6. Alloc64 and the vectors that relabel their blocks

### Modules

- `Alloc64` has the methods of `alloc64.rs` and of `Alloc64Global`, each with the
  layout that it passes to the heap. The heap (external) remembers the layout of
  a block; the allocator remembers nothing. `block` is that record and the
  greatest alignment of the block's address, `owner` is what its owner takes it
  for. A handler is one step, since only its owner uses a block and the heap
  keeps blocks apart; the call and the answer are separate, so that a refusal or
  the panic of `align_layout` comes between them.
- `Vec64Layouts` adds vectors: `with_capacity`, `zeroed`, growth and shrinking by
  `Vec` (external), `from_raw_parts`, and `from_vec64_u8` as `Convert`, which
  turns bytes into elements of another size and alignment without a word to the
  allocator, or `ConvertPanics`.
- `BlockContract` (section 4) is again the contract.

### Run

`alloc64_vectors`: 15 bytes, `ALIGN_64` scaled to 4, alignments 1, 2, 4 and 8,
element types of 1, 2, 3, 4 and 8 bytes. There are types that divide a capacity
and types that do not, one as aligned as `ALIGN_64` and one above it; with
`isize::MAX` at 15 the largest layouts of small alignment have no aligned one, so
that `align_layout` panics in some states. A shift of these sizes to the real
ones changes no comparison that the code makes: it compares alignments with
`ALIGN_64` and layouts with `isize::MAX`.

Assumptions. A caller keeps an alignment above 64 when it grows or shrinks, as
`Vec` and `GlobalAlloc` do (the trait `Allocator` would let it ask for more, and
`grow` would not give it). A conversion is to a type aligned to at most 64: the
comment "properly aligned (which `Vec64` guarantees)" (112) is taken to mean
that. A program that fails to allocate goes on or ends; nothing else happens.

### What is proved

`Vec64Layouts_proof` proves `TypeOK`, `LayoutsMatch` and `AlignedTo64` of every
reachable state, for any `ALIGN_64`, `isize::MAX`, alignments that divide one
another and set of types. The invariant `IInv` adds that the address of a block
is as aligned as the block was asked to be (`PlaceOK`) and that a call in
progress asks for what the block can have: a growing or shrinking call names a
layout that `align_layout` raises to the alignment the block already has
(`CallOK`), since `realloc` hears no other. The case that matters is `ConvertInv`:
both assertions are needed, the capacity's so that the relabelled layout has the
size that the heap recorded, the length's so that the length is whole.
`ContractKept` adds that all of it implements `BlockContract`. For that the
request has to count bytes as the contract does (`RequestOK`): a block that is
used without a vector is counted in bytes (`InBytes`), and a growing call asks for
more of them, a shrinking one for fewer.

## 7. PageAligned and the masks of vec64!

### Modules

- `PageAligned` has Euclid's algorithm iteration by iteration (`Iterate`,
  106-113), the step (92-98), and the answers of the trait as operators on a
  buffer that the program makes (`Make`, `Drop`).
- `Vec64Macro` is the expansion of `vec64!`, evaluation by evaluation: `Count`
  and `Reserve`, then `Push` or `SetBit` for lists; `Fill` and `ClearPadding` for
  a boolean repeated. With `Pure` an expression gives its value each time;
  without, each evaluation takes the next value of one source.
- `PageMask` composes them: masks of `page_align_bitmask_step` bits become
  buffers that are asked whether they are page-aligned.

### Runs

`page_mask`: pages of 8 bytes, element sizes from 0 to 24 on both sides of a
page, coprime to it, dividing it, and sharing a factor with it; buffers of up to
25 elements with and without spare capacity; lists of up to 9 booleans and
repetitions up to 57 or two steps of a mask, so that masks end at, before and
behind a multiple of 8. `StepIsLeast`, `NearestLengths` and `AgreesWithStep`
compare the answers with their definition by search; `StepFound` needs weak
fairness of `Iterate`, that is, that the loop runs. `macro_evaluates` is
finding 4.

### What is proved

`PageMask_proof` proves `PageTypeOK`, `StepIsLeast`, `NearestLengths`,
`AgreesWithStep`, `MaskFillsPages` and `HoldsValues` of the composition, and
`HoldsValues` of the macro by itself, for every page size, set of element sizes,
buffer and list of expressions; powers of two play no role. The invariant has
three parts, and a step of one component leaves those of the other alone.

- `Inv`, of the search: both variables of the loop are combinations of the element
  size and the page size with integer coefficients, and whatever divides both
  variables divides both sizes. At the end one variable is 0, so the other is a
  common divisor `g` which is a combination; if `n` elements fill pages, `n * g` is
  then a multiple of the page, and `n` one of the page divided by `g`
  (`StepDividesFillers`).
- `MacroInv`, of the expansion: which evaluations each form goes through
  (`StagesOK`); that a list ends behind its last expression and that a mask has
  its bytes from the allocation on (`ShapeOK`); and, if expressions give their
  value each time they are evaluated, what the vector holds in between
  (`ContentsOK`): the values up to `pos` of a list, those bits and no others of a
  mask, and in a repetition of `true` every bit of the last byte until the padding
  is cleared. `SetBit` and `ClearPadding` are the steps where bits, bytes and
  positions have to agree (`HoldsBits`).
- `MaskOK`, of the composition: a mask that has been taken as a buffer has the
  length and the capacity of its bytes.

`MaskPages` needs nothing of the values: the number of bytes depends on the number
of expressions only. `PagesHoldValues` and `MacroHoldsValues` assume `Pure`, and
finding 4 is the counterexample without it. That the loop ends (`StepFound`) is
liveness and model-checked only.

## 8. Findings

1. `malloc_giant_shrink`: a block on gigantic pages that is shrunk to just below
   1 GB and then further loses most of a page: `shrink` (389) takes it for
   ordinary pages, the kernel refuses to unmap a part, and the result is ignored.
2. `malloc_giant_growth`: a mapping that grows past 1 GB is rounded to 1 GB; the
   module's comment (21-23) says that it stays on the `HUGE_PAGE` rounding.
3. `vec_append_giant`: `try_mremap_append` (597-605) moves the bytes of the
   elements, while the mapping was rounded up to 1 GB: the remainder stays mapped
   without an owner.

4. `macro_evaluates`: the list forms of `vec64!` evaluate each expression twice,
   at 862 and 870, at 892 and 893; the comment at 861 says that the elements are
   counted "at macro-expansion time". (The repetition of a boolean evaluates it
   twice as well, at 847 and 851, where the second value decides only whether the
   padding bits are cleared.)

Not runs, but met on the way. `global.rs:8` says that `MAllocPg64Global`
delegates to `MAllocPg64`; its `realloc` returns null when `mremap` is refused
(237), where `MAllocPg64::grow` relocates the block (mmap_alloc.rs:301-313).
`MAllocPg64Global` models it as it is. `page_align_bitmask_step` is said to be
the smallest number of bits for which the buffer is page-aligned
(page_aligned.rs:84-86); up to 7 bits fewer need the same bytes.
`MaskFillsPages` therefore speaks of masks whose pages are full of bits; it does
not claim the smallest number.
`Alloc64Global::realloc` passes on a new size that may have no layout with the
raised alignment (global.rs:73), and depends on the heap to refuse it.

## 9. What is not modelled

The composition of row 6 of the plan. The hints of `thp` and `madvise` for huge
pages, which change no contents. Alignments in the mapped regime: a mapping is
aligned to a page, and no alignment above a page is modelled. Vectors of
zero-sized types, which take no memory. The capacities that `Vec` and `from_iter`
choose. The implementations of traits that forward to `Vec` or to slices
(`Deref`, `Clone`, `Extend`, `Write`, `par_iter`, formatting), which have no
state and no control of their own. A refused `mremap` that has already unmapped
its destination (vec64.rs:434).
