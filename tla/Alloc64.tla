------------------------------- MODULE Alloc64 -------------------------------
(***************************************************************************)
(* The heap allocators of the crate: Alloc64 of src/src/alloc64.rs, which  *)
(* is also the heap regime of MAllocPg64, and Alloc64Global of             *)
(* src/src/global.rs.  Both raise the alignment of the layout that they    *)
(* are told and pass it on to the system heap.                             *)
(*                                                                         *)
(* The heap remembers with which layout a block was allocated, and wants   *)
(* to hear the same one when it is freed.  The allocator remembers nothing *)
(* and computes that layout anew from the one that its caller names, who   *)
(* may have relabelled the block meanwhile.                                *)
(*                                                                         *)
(* There is one owner of one block: the heap keeps blocks apart, so owners *)
(* do not meet.                                                            *)
(***************************************************************************)
EXTENDS Integers

CONSTANTS
    Align64,     \* ALIGN_64
    MaxBytes,    \* isize::MAX, bound: the largest Layout of alignment 1
    Aligns,      \* bound: the alignments that occur
    Zero, Junk,  \* contents of a byte: zeroed, never initialised
    NoRequest

ASSUME Align64Assumption == Align64 \in Aligns
ASSUME MaxBytesAssumption == MaxBytes \in Nat
ASSUME AlignsAssumption ==
    /\ Aligns \subseteq 1 .. MaxBytes + 1
    /\ \A a, b \in Aligns : a <= b => b % a = 0

VARIABLES
    block,       \* what the heap recorded of the block, and where it lies
    bytes,       \* its contents
    owner,       \* who owns it, and what the owner takes it to be
    call         \* the call of the allocator that the owner is in

vars == <<block, bytes, owner, call>>

-----------------------------------------------------------------------------
(* Layouts *)

Layout(size, align) == [size |-> size, align |-> align]

\* What Layout::from_size_align accepts.
IsLayout(l) == l.size <= MaxBytes + 1 - l.align

\* Mutant: small alignments are passed on as they are.
align_layout_AsTold(l) == l

align_layout(l) == IF l.align < Align64 THEN Layout(l.size, Align64) ELSE l

\* The `expect` in align_layout: a layout near isize::MAX has no aligned one.
Panics(l) == ~IsLayout(align_layout(l))

-----------------------------------------------------------------------------
(* The owner and its calls *)

\* An owner of cap elements, len of them in use; a user of an allocator itself
\* has elements of one byte.
Owner(kind, elem, align, len, cap) ==
    [kind |-> kind, elem |-> elem, align |-> align, len |-> len, cap |-> cap]

NoOwner == Owner("none", 1, 1, 0, 0)

LayoutOf(o) == Layout(o.cap * o.elem, o.align)

Owns == owner # NoOwner

Call(op, next) == [op |-> op, next |-> next]

NoCall == Call("none", NoOwner)

Idle == call = NoCall

At(kinds, ops) ==
    call.op \in ops /\ (IF Owns THEN owner.kind ELSE call.next.kind) \in kinds

Local == {"vec", "raw"}     \* owners that use Alloc64 through Allocator
Global == {"global"}        \* owners that use Alloc64Global

old == LayoutOf(owner)
new == LayoutOf(call.next)

Stamp(i) == <<"owner", i>>

Filled == bytes = [i \in 0 .. old.size - 1 |-> Stamp(i)]

-----------------------------------------------------------------------------
(* The system heap, which may refuse any call *)

NoBlock == [size |-> 0, align |-> 1, place |-> 1]

\* The greatest of Aligns that divides the address is place.
Placed(l) ==
    IsLayout(l) /\ \E p \in {a \in Aligns : a >= l.align} :
        block' = [size |-> l.size, align |-> l.align, place |-> p]

Contents(size, kept, v) == [i \in 0 .. size - 1 |-> IF i < kept THEN bytes[i] ELSE v]

alloc(l) == Placed(l) /\ bytes' = Contents(l.size, 0, Junk)

alloc_zeroed(l) == Placed(l) /\ bytes' = Contents(l.size, 0, Zero)

dealloc(l) == block' = NoBlock /\ bytes' = Contents(0, 0, Junk)

\* The new block has the alignment of the old layout.
realloc(l, size) ==
    /\ Placed(Layout(size, l.align))
    /\ bytes' = Contents(size, IF size < l.size THEN size ELSE l.size, Junk)

-----------------------------------------------------------------------------
(* Handlers *)

Returns == owner' = call.next /\ call' = NoCall

\* Err(AllocError) or null; the panic of align_layout comes before any call of
\* the heap, so it leaves the same state (where Alloc64Global raises it, the
\* process ends).
Fails == call' = NoCall /\ UNCHANGED <<block, bytes, owner>>

Answers(A) == ~Panics(new) /\ A /\ Returns

allocate ==
    /\ At(Local, {"allocate"})
    /\ Answers(alloc(align_layout(new))) \/ Fails

allocate_zeroed ==
    /\ At(Local, {"allocate_zeroed"})
    /\ Answers(alloc_zeroed(align_layout(new))) \/ Fails

deallocate ==
    /\ At(Local, {"deallocate"}) /\ ~Panics(old)
    /\ dealloc(align_layout(old)) /\ Returns

grow ==
    /\ At(Local, {"grow"}) /\ ~Panics(old)
    /\ Answers(realloc(align_layout(old), align_layout(new).size)) \/ Fails

shrink ==
    /\ At(Local, {"shrink"}) /\ ~Panics(old)
    /\ Answers(realloc(align_layout(old), align_layout(new).size)) \/ Fails

\* Mutant: the old bytes are not copied.
grow_zeroed_NoCopy ==
    /\ At(Local, {"grow_zeroed"}) /\ ~Panics(old)
    /\ \/ Answers(Placed(align_layout(new)) /\ bytes' = Contents(new.size, 0, Zero))
       \/ Fails

\* A zeroed block, a copy and the release of the old block.
grow_zeroed ==
    /\ At(Local, {"grow_zeroed"}) /\ ~Panics(old)
    /\ \/ Answers(Placed(align_layout(new)) /\ bytes' = Contents(new.size, old.size, Zero))
       \/ Fails

GlobalAlloc ==
    /\ At(Global, {"allocate"})
    /\ Answers(alloc(align_layout(new))) \/ Fails

GlobalAllocZeroed ==
    /\ At(Global, {"allocate_zeroed"})
    /\ Answers(alloc_zeroed(align_layout(new))) \/ Fails

GlobalDealloc ==
    /\ At(Global, {"deallocate"}) /\ ~Panics(old)
    /\ dealloc(align_layout(old)) /\ Returns

\* The new size is not checked against the raised alignment: the heap, asked
\* for what is no layout, refuses.
GlobalRealloc ==
    /\ At(Global, {"grow", "shrink"}) /\ ~Panics(old)
    /\ (realloc(align_layout(old), new.size) /\ Returns) \/ Fails

Handler ==
    \/ allocate \/ allocate_zeroed \/ deallocate
    \/ grow \/ shrink \/ grow_zeroed
    \/ GlobalAlloc \/ GlobalAllocZeroed \/ GlobalDealloc \/ GlobalRealloc

-----------------------------------------------------------------------------
(* Users of an allocator itself *)

Requests(kind) ==
    LET someone(a, n) == Owner(kind, 1, a, n, n)
    IN  IF ~Owns
        THEN {Call(op, someone(a, n)) : op \in {"allocate", "allocate_zeroed"},
                                        a \in Aligns, n \in 1 .. MaxBytes}
        ELSE {Call("deallocate", NoOwner)}
               \cup {Call(op, someone(a, n)) : op \in {"grow", "grow_zeroed", "shrink"},
                                               a \in Aligns, n \in 1 .. MaxBytes}

\* A size and an alignment that make a Layout, larger or smaller as the call
\* says.  Assumption: an alignment above ALIGN_64 is kept (the heap's realloc
\* knows only the old one), as Vec and GlobalAlloc keep it.
Legal(k) ==
    /\ IsLayout(LayoutOf(k.next))
    /\ k.op \in {"grow", "grow_zeroed"} => k.next.cap > owner.cap
    /\ k.op = "shrink" => k.next.cap < owner.cap
    /\ Owns /\ k.op # "deallocate" =>
          align_layout(LayoutOf(k.next)).align = align_layout(old).align
    /\ k.next.kind = "global" =>
          k.op # "grow_zeroed" /\ (Owns => k.next.align = owner.align)

Request(kind) ==
    /\ Idle /\ Filled /\ (Owns => owner.kind = kind)
    /\ \E k \in Requests(kind) : Legal(k) /\ call' = k
    /\ UNCHANGED <<block, bytes, owner>>

\* The owner writes its whole block; a vector then has as many elements.
Fill ==
    /\ Idle /\ Owns /\ ~Filled
    /\ bytes' = [i \in DOMAIN bytes |-> Stamp(i)]
    /\ owner' = [owner EXCEPT !.len = owner.cap]
    /\ UNCHANGED <<block, call>>

Init ==
    /\ block = NoBlock
    /\ bytes = Contents(0, 0, Junk)
    /\ owner = NoOwner
    /\ call = NoCall

=============================================================================
