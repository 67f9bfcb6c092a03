---------------------------- MODULE Vec64Layouts ----------------------------
(***************************************************************************)
(* Vec64 of src/src/vec64.rs as an owner of a block of Alloc64, next to    *)
(* users of the allocators themselves.  What a vector says of its block is *)
(* its capacity times the size of T, and the alignment of T; from_vec64_u8 *)
(* and from_raw_parts change what T is without telling the allocator.      *)
(***************************************************************************)
EXTENDS Alloc64

CONSTANT Types       \* bound: the size and the alignment of each element type

ASSUME TypesAssumption ==
    /\ Types \subseteq [size : 1 .. MaxBytes, align : Aligns]
    /\ \A T \in Types : T.size % T.align = 0

Byte == [size |-> 1, align |-> 1]

ASSUME ByteAssumption == Byte \in Types

Vec(T, len, cap) == Owner("vec", T.size, T.align, len, cap)

IsVec == Owns /\ owner.kind = "vec"

TypeOf(o) == [size |-> o.elem, align |-> o.align]

\* Layout::array: Vec panics on a capacity that has none, before any call.
IsArray(v) == IsLayout(LayoutOf(v))

Calls(k) ==
    /\ Idle /\ Filled
    /\ call' = k
    /\ UNCHANGED <<block, bytes, owner>>

-----------------------------------------------------------------------------
(* Making and dropping vectors *)

\* A vector without capacity owns no block: zero elements make no call.
with_capacity == \E T \in Types, n \in 1 .. MaxBytes :
    /\ ~Owns /\ IsArray(Vec(T, 0, n))
    /\ Calls(Call("allocate", Vec(T, 0, n)))

zeroed == \E T \in Types, n \in 1 .. MaxBytes :
    /\ ~Owns /\ IsArray(Vec(T, n, n))
    /\ Calls(Call("allocate_zeroed", Vec(T, n, n)))

reserve == \E n \in 1 .. MaxBytes :
    LET v == Vec(TypeOf(owner), owner.len, n) IN
    /\ IsVec /\ n > owner.cap /\ IsArray(v)
    /\ Calls(Call("grow", v))

\* A vector that shrinks to nothing gives its block back.
shrink_to_fit ==
    /\ IsVec /\ owner.len < owner.cap
    /\ IF owner.len = 0
       THEN Calls(Call("deallocate", NoOwner))
       ELSE Calls(Call("shrink", Vec(TypeOf(owner), owner.len, owner.len)))

drop == IsVec /\ Calls(Call("deallocate", NoOwner))

\* A vector taken apart, its destructor not run, and put together again over as
\* many of its elements as the caller says.  The debug assertion looks at the
\* address.
from_raw_parts == \E n \in 0 .. owner.cap :
    /\ IsVec /\ Idle /\ Filled
    /\ block.place % Align64 = 0
    /\ owner' = [owner EXCEPT !.len = n]
    /\ UNCHANGED <<block, bytes, call>>

-----------------------------------------------------------------------------
(* from_vec64_u8 *)

\* A type that a block aligned to ALIGN_64 suits ("properly aligned (which
\* `Vec64` guarantees)").
Targets == {T \in Types : T.align <= Align64}

\* Mutant: only the length is checked.
Divides_LenOnly(T) == owner.len % T.size = 0

\* The two assertions.
Divides(T) == owner.len % T.size = 0 /\ owner.cap % T.size = 0

\* Mutant: the length stays in bytes.
Relabelled_LenInBytes(T) == Vec(T, owner.len, owner.cap \div T.size)

Relabelled(T) == Vec(T, owner.len \div T.size, owner.cap \div T.size)

IsBuffer == IsVec /\ TypeOf(owner) = Byte

Convert == \E T \in Targets :
    /\ IsBuffer /\ Idle /\ Filled
    /\ Divides(T)
    /\ owner' = Relabelled(T)
    /\ UNCHANGED <<block, bytes, call>>

\* A failed assertion unwinds, which drops buf.
ConvertPanics == \E T \in Targets :
    /\ IsBuffer /\ ~Divides(T)
    /\ Calls(Call("deallocate", NoOwner))

-----------------------------------------------------------------------------

Vector ==
    \/ with_capacity \/ zeroed \/ reserve \/ shrink_to_fit \/ drop
    \/ from_raw_parts \/ Convert \/ ConvertPanics

Next == Vector \/ Request("raw") \/ Request("global") \/ Fill \/ Handler

Spec == Init /\ [][Next]_vars

-----------------------------------------------------------------------------
(* Properties *)

Owners == [kind : {"vec", "raw", "global"}, elem : 1 .. MaxBytes, align : Aligns,
           len : 0 .. MaxBytes, cap : 1 .. MaxBytes] \cup {NoOwner}

Ops == {"allocate", "allocate_zeroed", "grow", "grow_zeroed", "shrink", "deallocate"}

\* The request of an owner that is not in a call is none that it could make.
ASSUME NoRequestAssumption == NoRequest \notin [op : Ops, old : Nat, new : Nat]

\* The types of the state; a vector has no more elements than its capacity.
TypeOK ==
    /\ block \in [size : 0 .. MaxBytes, align : Aligns, place : Aligns]
    /\ DOMAIN bytes = 0 .. block.size - 1
    /\ owner \in Owners /\ owner.len <= owner.cap
    /\ call \in [op : Ops, next : Owners] \cup {NoCall}

\* The heap recorded for the block the very layout that Alloc64 will name when
\* the owner hands the block back, and computing it does not panic: whatever
\* T the owner takes its bytes for by then (vec64.rs 119-127, 136).
LayoutsMatch ==
    Owns => /\ ~Panics(old)
            /\ align_layout(old) = Layout(block.size, block.align)

\* The block starts at a multiple of 64 and of what the elements want, after
\* every growth, shrinking and conversion ("Guarantees starting pointer
\* alignment for all allocations it manages including allocations due to
\* growth, mutation, extension", alloc64.rs 32-35).
AlignedTo64 == Owns => block.place % Align64 = 0 /\ block.place % owner.align = 0

Contract == INSTANCE BlockContract WITH
    Clients <- {"owner"}, Sizes <- 1 .. MaxBytes,
    request <- [c \in {"owner"} |->
                  IF Idle THEN NoRequest
                  ELSE [op |-> call.op, old |-> old.size, new |-> new.size]],
    size <- [c \in {"owner"} |-> old.size],
    bytes <- [c \in {"owner"} |-> bytes]

\* Alloc64 and Alloc64Global keep the contract of an allocator: growing and
\* shrinking keep the contents, zeroed bytes are zero, and a refusal or a panic
\* leaves the block as it was; a conversion is not noticed at all.
KeepsContract == Contract!Spec

=============================================================================
