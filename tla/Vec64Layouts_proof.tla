------------------------- MODULE Vec64Layouts_proof -------------------------
(***************************************************************************)
(* For element types of any size and alignment, and any number of bytes:   *)
(* the layout that Alloc64 computes for a block is the one that the heap   *)
(* recorded for it, and the block stays aligned.                           *)
(*                                                                         *)
(* A block keeps the alignment it was first allocated with, since realloc  *)
(* knows no other; so the argument needs that a call which grows or        *)
(* shrinks asks for the alignment that the block already has (CallOK).     *)
(***************************************************************************)
EXTENDS Vec64Layouts, TLAPS

Proper == [kind : {"vec", "raw", "global"}, elem : 1 .. MaxBytes, align : Aligns,
           len : 0 .. MaxBytes, cap : 1 .. MaxBytes]

AnyLayout == [size : Nat, align : Aligns]

Acquiring == {"allocate", "allocate_zeroed"}

Changing == {"grow", "grow_zeroed", "shrink"}

\* The block lies at a multiple of the alignment it was asked for with.
PlaceOK == Owns => block.place >= block.align

\* A call for a new block has no old one; one for another size of a block keeps
\* the alignment that Alloc64 gave it.
CallOK ==
    \/ Idle
    \/ /\ ~Owns /\ call.op \in Acquiring
       /\ call.next \in Proper /\ call.next.len <= call.next.cap
    \/ /\ Owns /\ call.op \in Changing
       /\ call.next \in Proper /\ call.next.len <= call.next.cap
       /\ align_layout(new).align = align_layout(old).align
    \/ Owns /\ call = Call("deallocate", NoOwner)

OwnerOK == Owns => owner \in Proper

IInv == TypeOK /\ OwnerOK /\ LayoutsMatch /\ PlaceOK /\ CallOK

-----------------------------------------------------------------------------
(* Layouts *)

LEMMA SmallAligns ==
    /\ 1 \in Aligns /\ Align64 \in Aligns
    /\ \A x \in Aligns : x \in Nat \ {0}
  BY ByteAssumption, TypesAssumption, Align64Assumption, AlignsAssumption, MaxBytesAssumption
     DEF Byte

\* Raising the alignment keeps the size.
LEMMA AlignLayout ==
    ASSUME NEW l \in AnyLayout
    PROVE  /\ align_layout(l) \in AnyLayout
           /\ align_layout(l).size = l.size
           /\ align_layout(l).align >= Align64 /\ align_layout(l).align >= l.align
  BY SmallAligns DEF AnyLayout, align_layout, Layout

LEMMA LayoutOfProper ==
    ASSUME NEW o \in Proper
    PROVE  /\ LayoutOf(o) \in AnyLayout /\ o # NoOwner
           /\ LayoutOf(o).size = o.cap * o.elem /\ LayoutOf(o).align = o.align
  <1>1. o.cap * o.elem \in Nat
    BY MaxBytesAssumption DEF Proper
  <1> QED
    BY <1>1 DEF Proper, LayoutOf, Layout, AnyLayout, NoOwner, Owner

\* Of two alignments the smaller divides the larger.
LEMMA Alignments ==
    ASSUME NEW x \in Aligns, NEW y \in Aligns, x <= y
    PROVE  y % x = 0
  BY AlignsAssumption

-----------------------------------------------------------------------------
(* Init, and the ways in which a step can end *)

LEMMA InitInv == Init => IInv
  <1> SUFFICES ASSUME Init PROVE IInv
    OBVIOUS
  <1>1. ~Owns /\ Idle
    BY DEF Init, Owns, Idle
  <1>2. TypeOK
    <2>1. block \in [size : 0 .. MaxBytes, align : Aligns, place : Aligns]
      BY SmallAligns, MaxBytesAssumption DEF Init, NoBlock
    <2>2. DOMAIN bytes = 0 .. block.size - 1
      BY DEF Init, NoBlock, Contents
    <2>3. owner \in Owners /\ owner.len <= owner.cap
      BY DEF Init, Owners, NoOwner, Owner
    <2> QED
      BY <2>1, <2>2, <2>3 DEF TypeOK, Init
  <1> QED
    BY <1>1, <1>2 DEF IInv, OwnerOK, LayoutsMatch, PlaceOK, CallOK

\* The heap has given a block for what the owner asked.
LEMMA AnsweredInv ==
    ASSUME IInv, call.next \in Proper, call.next.len <= call.next.cap,
           NEW l, l = align_layout(new), IsLayout(l),
           NEW p \in Aligns, p >= l.align,
           block' = [size |-> l.size, align |-> l.align, place |-> p],
           DOMAIN bytes' = 0 .. l.size - 1,
           Returns
    PROVE  IInv'
  <1>1. owner' = call.next /\ call' = NoCall
    BY DEF Returns
  <1>2. l \in AnyLayout /\ l.size = new.size
    BY LayoutOfProper, AlignLayout DEF new
  <1>3. l.size \in 0 .. MaxBytes /\ l.align \in Aligns
    BY <1>2, SmallAligns, MaxBytesAssumption DEF AnyLayout, IsLayout
  <1>4. old' = new /\ Owns' /\ Idle'
    BY <1>1, LayoutOfProper DEF old, new, Owns, Idle
  <1>5. TypeOK'
    <2>1. block' \in [size : 0 .. MaxBytes, align : Aligns, place : Aligns]
      BY <1>3
    <2>2. DOMAIN bytes' = 0 .. block'.size - 1
      OBVIOUS
    <2>3. owner' \in Owners /\ owner'.len <= owner'.cap
      BY <1>1 DEF Owners, Proper
    <2> QED
      BY <1>1, <2>1, <2>2, <2>3 DEF TypeOK
  <1>6. LayoutsMatch'
    <2>1. align_layout(old') = l
      BY <1>4
    <2>2. l = Layout(block'.size, block'.align)
      <3>1. l = [size |-> l.size, align |-> l.align]
        BY <1>2 DEF AnyLayout
      <3> QED
        BY <3>1 DEF Layout
    <2> QED
      BY <2>1, <2>2 DEF LayoutsMatch, Panics
  <1>7. PlaceOK'
    BY DEF PlaceOK
  <1> QED
    BY <1>1, <1>4, <1>5, <1>6, <1>7 DEF IInv, OwnerOK, CallOK

\* The block has been given back.
LEMMA GivenBack ==
    ASSUME IInv, NEW l, dealloc(l), Returns, call.next = NoOwner
    PROVE  IInv'
  <1>1. owner' = NoOwner /\ call' = NoCall /\ block' = NoBlock
    BY DEF Returns, dealloc
  <1>2. ~Owns' /\ Idle'
    BY <1>1 DEF Owns, Idle
  <1>3. TypeOK'
    <2>1. block' \in [size : 0 .. MaxBytes, align : Aligns, place : Aligns]
      BY <1>1, SmallAligns, MaxBytesAssumption DEF NoBlock
    <2>2. DOMAIN bytes' = 0 .. block'.size - 1
      BY <1>1 DEF dealloc, NoBlock, Contents
    <2>3. owner' \in Owners /\ owner'.len <= owner'.cap
      BY <1>1 DEF Owners, NoOwner, Owner
    <2> QED
      BY <1>1, <2>1, <2>2, <2>3 DEF TypeOK
  <1> QED
    BY <1>2, <1>3 DEF IInv, OwnerOK, LayoutsMatch, PlaceOK, CallOK

\* A call has failed, or nothing has happened.
LEMMA LeftAlone ==
    ASSUME IInv, UNCHANGED <<block, bytes, owner>>, call' = NoCall \/ call' = call
    PROVE  IInv'
  <1>1. TypeOK' /\ OwnerOK' /\ LayoutsMatch' /\ PlaceOK'
    BY DEF IInv, TypeOK, OwnerOK, LayoutsMatch, PlaceOK, Owns, old
  <1>2. CallOK'
    BY DEF IInv, CallOK, Owns, Idle, old, new
  <1> QED
    BY <1>1, <1>2 DEF IInv

\* The owner has made a call.
LEMMA Called ==
    ASSUME IInv, UNCHANGED <<block, bytes, owner>>, CallOK',
           call' \in [op : Ops, next : Owners]
    PROVE  IInv'
  <1>1. OwnerOK' /\ LayoutsMatch' /\ PlaceOK'
    BY DEF IInv, OwnerOK, LayoutsMatch, PlaceOK, Owns, old
  <1> QED
    BY <1>1 DEF IInv, TypeOK

-----------------------------------------------------------------------------
(* The steps *)

\* Calls that want a block, of another size or anew, and what they go by.
LEMMA WantsBlock ==
    ASSUME IInv, call.op \in Acquiring \cup Changing
    PROVE  /\ call.next \in Proper /\ call.next.len <= call.next.cap
           /\ new \in AnyLayout /\ align_layout(new) \in AnyLayout
           /\ align_layout(new).size = new.size
           /\ call.op \in Changing => Owns /\ align_layout(new).align = align_layout(old).align
  <1>1. call.next \in Proper /\ call.next.len <= call.next.cap
    BY DEF IInv, CallOK, Idle, NoCall, Call, Acquiring, Changing
  <1>2. new \in AnyLayout
    BY <1>1, LayoutOfProper DEF new
  <1>3. call.op \in Changing => Owns /\ align_layout(new).align = align_layout(old).align
    BY DEF IInv, CallOK, Idle, NoCall, Call, Acquiring, Changing
  <1> QED
    BY <1>1, <1>2, <1>3, AlignLayout

\* A block with the new layout, as allocate, allocate_zeroed and grow_zeroed take.
LEMMA PlacedInv ==
    ASSUME IInv, call.op \in Acquiring \cup Changing, Placed(align_layout(new)),
           DOMAIN bytes' = 0 .. new.size - 1, Returns
    PROVE  IInv'
  <1> DEFINE l == align_layout(new)
  <1>1. /\ call.next \in Proper /\ call.next.len <= call.next.cap
        /\ l.size = new.size
    BY WantsBlock
  <1>2. /\ IsLayout(l)
        /\ \E p \in {x \in Aligns : x >= l.align} :
              block' = [size |-> l.size, align |-> l.align, place |-> p]
    BY DEF Placed
  <1> HIDE DEF l
  <1>3. PICK p \in Aligns : /\ p >= l.align
                            /\ block' = [size |-> l.size, align |-> l.align, place |-> p]
    BY <1>2
  <1> QED
    BY <1>1, <1>2, <1>3, AnsweredInv DEF l

\* A block with the alignment of the old layout and a new size: it is the block
\* that the new layout describes.
LEMMA ReallocInv ==
    ASSUME IInv, call.op \in Changing,
           Placed(Layout(new.size, align_layout(old).align)),
           DOMAIN bytes' = 0 .. new.size - 1, Returns
    PROVE  IInv'
  <1>1. /\ align_layout(new) \in AnyLayout /\ align_layout(new).size = new.size
        /\ align_layout(new).align = align_layout(old).align
    BY WantsBlock
  <1>2. align_layout(new) = Layout(new.size, align_layout(old).align)
    BY <1>1 DEF AnyLayout, Layout
  <1> QED
    BY <1>2, PlacedInv

LEMMA Sized ==
    ASSUME NEW n, NEW kept, NEW v
    PROVE  DOMAIN Contents(n, kept, v) = 0 .. n - 1
  BY DEF Contents

LEMMA AcquireInv ==
    ASSUME IInv, call.op \in Acquiring \cup Changing, NEW kept, NEW v,
           Answers(Placed(align_layout(new)) /\ bytes' = Contents(new.size, kept, v))
    PROVE  IInv'
  BY PlacedInv, Sized DEF Answers

LEMMA HandlerInv == IInv /\ Handler => IInv'
  <1> SUFFICES ASSUME IInv, Handler PROVE IInv'
    OBVIOUS
  <1>1. CASE Fails
    BY <1>1, LeftAlone DEF Fails
  <1>2. CASE call.op \in Acquiring /\ Answers(alloc(align_layout(new)))
    BY <1>2, WantsBlock, PlacedInv, Sized DEF alloc, Answers
  <1>3. CASE call.op \in Acquiring /\ Answers(alloc_zeroed(align_layout(new)))
    BY <1>3, WantsBlock, PlacedInv, Sized DEF alloc_zeroed, Answers
  <1>4. CASE call.op \in Changing /\ Answers(realloc(align_layout(old), align_layout(new).size))
    BY <1>4, WantsBlock, ReallocInv, Sized DEF realloc, Answers
  <1>5. CASE /\ call.op = "grow_zeroed"
             /\ Answers(Placed(align_layout(new)) /\ bytes' = Contents(new.size, old.size, Zero))
    BY <1>5, PlacedInv, Sized DEF Answers, Changing
  <1>6. CASE call.op \in Changing /\ realloc(align_layout(old), new.size) /\ Returns
    BY <1>6, ReallocInv, Sized DEF realloc
  <1>7. CASE call.op = "deallocate" /\ dealloc(align_layout(old)) /\ Returns
    <2>1. call.next = NoOwner
      BY <1>7 DEF IInv, CallOK, Idle, NoCall, Call, Acquiring, Changing
    <2> QED
      BY <1>7, <2>1, GivenBack
  <1>8. CASE allocate
    BY <1>8, <1>1, <1>2 DEF allocate, At, Acquiring
  <1>9. CASE allocate_zeroed
    BY <1>9, <1>1, <1>3 DEF allocate_zeroed, At, Acquiring
  <1>10. CASE deallocate
    BY <1>10, <1>7 DEF deallocate, At
  <1>11. CASE grow
    BY <1>11, <1>1, <1>4 DEF grow, At, Changing
  <1>12. CASE shrink
    BY <1>12, <1>1, <1>4 DEF shrink, At, Changing
  <1>13. CASE grow_zeroed
    BY <1>13, <1>1, <1>5 DEF grow_zeroed, At
  <1>14. CASE GlobalAlloc
    BY <1>14, <1>1, <1>2 DEF GlobalAlloc, At, Acquiring
  <1>15. CASE GlobalAllocZeroed
    BY <1>15, <1>1, <1>3 DEF GlobalAllocZeroed, At, Acquiring
  <1>16. CASE GlobalDealloc
    BY <1>16, <1>7 DEF GlobalDealloc, At
  <1>17. CASE GlobalRealloc
    BY <1>17, <1>1, <1>6 DEF GlobalRealloc, At, Changing
  <1> QED
    BY <1>8, <1>9, <1>10, <1>11, <1>12, <1>13, <1>14, <1>15, <1>16, <1>17 DEF Handler

\* The owner makes a call for a block of its own, or of another size.
LEMMA CallsProper ==
    ASSUME IInv, NEW op, NEW o \in Proper, o.len <= o.cap,
           UNCHANGED <<block, bytes, owner>>, call' = Call(op, o),
           \/ ~Owns /\ op \in Acquiring
           \/ /\ Owns /\ op \in Changing
              /\ align_layout(LayoutOf(o)).align = align_layout(old).align
    PROVE  IInv'
  <1>1. call' \in [op : Ops, next : Owners]
    BY DEF Call, Ops, Owners, Proper, Acquiring, Changing
  <1>2. call'.op = op /\ call'.next = o /\ Owns' = Owns /\ old' = old
        /\ new' = LayoutOf(o)
    BY DEF Call, Owns, old, new
  <1>3. CallOK'
    BY <1>2 DEF CallOK
  <1> QED
    BY <1>1, <1>3, Called

LEMMA CallsDeallocate ==
    ASSUME IInv, Owns, UNCHANGED <<block, bytes, owner>>,
           call' = Call("deallocate", NoOwner)
    PROVE  IInv'
  <1>1. call' \in [op : Ops, next : Owners]
    BY DEF Call, Ops, Owners
  <1>2. CallOK'
    BY DEF CallOK, Owns
  <1> QED
    BY <1>1, <1>2, Called

LEMMA RequestInv ==
    ASSUME IInv, NEW kind \in {"raw", "global"}, Request(kind)
    PROVE  IInv'
  <1>1. PICK k \in Requests(kind) : Legal(k) /\ call' = k
    BY DEF Request
  <1>2. UNCHANGED <<block, bytes, owner>>
    BY DEF Request
  <1>3. CASE k = Call("deallocate", NoOwner) /\ Owns
    BY <1>1, <1>2, <1>3, CallsDeallocate
  <1>4. ASSUME NEW op \in Acquiring \cup Changing, NEW x \in Aligns, NEW n \in 1 .. MaxBytes,
               k = Call(op, Owner(kind, 1, x, n, n)), op \in Acquiring <=> ~Owns
        PROVE  IInv'
    <2> DEFINE o == Owner(kind, 1, x, n, n)
    <2>1. o \in Proper /\ o.len <= o.cap
      BY MaxBytesAssumption DEF Proper, Owner
    <2>2. k.op = op /\ k.next = o
      BY <1>4 DEF Call
    <2> HIDE DEF o
    <2>3. Owns => align_layout(LayoutOf(o)).align = align_layout(old).align
      BY <1>1, <1>4, <2>2 DEF Legal, Acquiring, Changing
    <2>4. call' = Call(op, o)
      BY <1>1, <1>4 DEF o
    <2> QED
      BY <1>2, <1>4, <2>1, <2>3, <2>4, CallsProper
  <1> QED
    BY <1>1, <1>3, <1>4 DEF Requests, Acquiring, Changing

\* A vector of n elements of type T, or room for them.
LEMMA VecProper ==
    ASSUME NEW T \in Types, NEW len \in 0 .. MaxBytes, NEW cap \in 1 .. MaxBytes
    PROVE  Vec(T, len, cap) \in Proper
  BY TypesAssumption DEF Vec, Owner, Proper

\* The owner takes its bytes for others, of which there are as many.
LEMMA RelabelInv ==
    ASSUME IInv, Idle, UNCHANGED <<block, call>>, DOMAIN bytes' = DOMAIN bytes,
           owner' \in Proper, owner'.len <= owner'.cap,
           LayoutOf(owner').size = old.size,
           align_layout(LayoutOf(owner')) = align_layout(old),
           block.place >= block.align, Owns
    PROVE  IInv'
  <1>1. Owns' /\ Idle' /\ old' = LayoutOf(owner')
    BY LayoutOfProper DEF Owns, Idle, old
  <1>2. TypeOK'
    BY DEF IInv, TypeOK, Owners, Proper
  <1>3. LayoutsMatch'
    BY <1>1 DEF IInv, LayoutsMatch, Panics
  <1> QED
    BY <1>1, <1>2, <1>3 DEF IInv, OwnerOK, PlaceOK, CallOK

LEMMA FillInv == IInv /\ Fill => IInv'
  <1> SUFFICES ASSUME IInv, Fill PROVE IInv'
    OBVIOUS
  <1>1. /\ Idle /\ Owns /\ UNCHANGED <<block, call>> /\ DOMAIN bytes' = DOMAIN bytes
        /\ owner' = [owner EXCEPT !.len = owner.cap]
    BY DEF Fill
  <1>2. owner \in Proper /\ block.place >= block.align
    BY <1>1 DEF IInv, OwnerOK, PlaceOK
  <1>3. owner' \in Proper /\ owner'.len <= owner'.cap /\ LayoutOf(owner') = old
    BY <1>1, <1>2, MaxBytesAssumption DEF Proper, LayoutOf, old
  <1> QED
    BY <1>1, <1>2, <1>3, RelabelInv

LEMMA FromRawPartsInv == IInv /\ from_raw_parts => IInv'
  <1> SUFFICES ASSUME IInv, from_raw_parts PROVE IInv'
    OBVIOUS
  <1>1. /\ Idle /\ Owns /\ UNCHANGED <<block, bytes, call>>
        /\ \E n \in 0 .. owner.cap : owner' = [owner EXCEPT !.len = n]
    BY DEF from_raw_parts, IsVec
  <1>2. owner \in Proper /\ block.place >= block.align
    BY <1>1 DEF IInv, OwnerOK, PlaceOK
  <1>3. owner' \in Proper /\ owner'.len <= owner'.cap /\ LayoutOf(owner') = old
    BY <1>1, <1>2, MaxBytesAssumption DEF Proper, LayoutOf, old
  <1> QED
    BY <1>1, <1>2, <1>3, RelabelInv

\* What is left of a multiple when it is counted in parts of d.
LEMMA ExactQuotient ==
    ASSUME NEW m \in Nat, NEW d \in Nat \ {0}, m % d = 0
    PROVE  m \div d \in Nat /\ (m \div d) * d = m /\ m \div d <= m
  <1>1. m \div d \in Nat /\ (m \div d) * d = m
    OBVIOUS
  <1>2. \A q \in Nat : q * d >= q
    OBVIOUS
  <1> QED
    BY <1>1, <1>2

LEMMA OrderedQuotients ==
    ASSUME NEW m \in Nat, NEW n \in Nat, NEW d \in Nat \ {0}, m <= n
    PROVE  m \div d <= n \div d
  OBVIOUS

\* A conversion keeps the number of bytes, and an alignment that Alloc64 raises
\* to the same one.
LEMMA Relabels ==
    ASSUME IInv, NEW T \in Targets, IsBuffer, Divides(T), owner' = Relabelled(T)
    PROVE  /\ owner' \in Proper /\ owner'.len <= owner'.cap
           /\ LayoutOf(owner').size = old.size
           /\ align_layout(LayoutOf(owner')) = align_layout(old)
  <1>2. /\ owner \in Proper /\ owner.elem = 1 /\ owner.align = 1 /\ Owns
        /\ owner.len <= owner.cap
    BY DEF IInv, OwnerOK, TypeOK, IsBuffer, IsVec, TypeOf, Byte
  <1>3. /\ T \in Types /\ T.size \in Nat \ {0} /\ T.align \in Aligns
        /\ T.align <= Align64
    BY TypesAssumption DEF Targets
  <1>4. owner.len \in Nat /\ owner.cap \in Nat \ {0} /\ owner.cap <= MaxBytes
    BY <1>2, MaxBytesAssumption DEF Proper
  <1> DEFINE len == owner.len \div T.size
             cap == owner.cap \div T.size
  <1>5. cap \in Nat /\ cap * T.size = owner.cap /\ cap <= owner.cap
    BY <1>3, <1>4, ExactQuotient DEF Divides
  <1>6. len \in Nat /\ len <= cap
    BY <1>2, <1>3, <1>4, ExactQuotient, OrderedQuotients DEF Divides
  <1>7. owner' = Vec(T, len, cap)
    BY DEF Relabelled
  <1> HIDE DEF len, cap
  <1>8. cap # 0
    BY <1>3, <1>4, <1>5
  <1>9. owner' \in Proper
    <2>1. len \in 0 .. MaxBytes /\ cap \in 1 .. MaxBytes
      BY <1>4, <1>5, <1>6, <1>8, MaxBytesAssumption
    <2> QED
      BY <1>3, <1>7, <2>1, VecProper
  <1>10. /\ owner'.len = len /\ owner'.cap = cap /\ owner'.elem = T.size
         /\ owner'.align = T.align
    BY <1>7 DEF Vec, Owner
  <1>11. LayoutOf(owner').size = owner.cap /\ LayoutOf(owner').align = T.align
    BY <1>5, <1>9, <1>10, LayoutOfProper
  <1>12. old.size = owner.cap /\ old.align = 1
    BY <1>2, <1>4, LayoutOfProper DEF old
  <1>13. align_layout(LayoutOf(owner')) = align_layout(old)
    <2>1. /\ align_layout(LayoutOf(owner')) = Layout(owner.cap, Align64)
          /\ align_layout(old) = Layout(owner.cap, Align64)
      <3>1. LayoutOf(owner') \in AnyLayout /\ old \in AnyLayout
        BY <1>2, <1>9, LayoutOfProper DEF old
      <3>2. 1 < Align64 \/ 1 = Align64
        BY SmallAligns
      <3>3. T.align < Align64 \/ T.align = Align64
        BY <1>3, SmallAligns
      <3> QED
        BY <1>11, <1>12, <3>1, <3>2, <3>3 DEF align_layout, AnyLayout, Layout
    <2> QED
      BY <2>1
  <1> QED
    BY <1>6, <1>9, <1>10, <1>11, <1>12, <1>13

LEMMA ConvertInv == IInv /\ Convert => IInv'
  <1> SUFFICES ASSUME IInv, Convert PROVE IInv'
    OBVIOUS
  <1>1. PICK T \in Targets : /\ IsBuffer /\ Idle /\ Divides(T)
                             /\ owner' = Relabelled(T)
                             /\ UNCHANGED <<block, bytes, call>>
    BY DEF Convert
  <1>2. Owns /\ block.place >= block.align
    BY <1>1 DEF IInv, PlaceOK, IsBuffer, IsVec
  <1> QED
    BY <1>1, <1>2, Relabels, RelabelInv

LEMMA VectorInv == IInv /\ Vector => IInv'
  <1> SUFFICES ASSUME IInv, Vector PROVE IInv'
    OBVIOUS
  <1>1. CASE with_capacity
    <2>1. PICK T \in Types, n \in 1 .. MaxBytes :
             ~Owns /\ Calls(Call("allocate", Vec(T, 0, n)))
      BY <1>1 DEF with_capacity
    <2>2. Vec(T, 0, n) \in Proper /\ Vec(T, 0, n).len <= Vec(T, 0, n).cap
      <3>1. 0 \in 0 .. MaxBytes
        BY MaxBytesAssumption
      <3>2. Vec(T, 0, n) \in Proper
        BY <3>1, VecProper
      <3> QED
        BY <3>2, MaxBytesAssumption DEF Vec, Owner
    <2> QED
      BY <2>1, <2>2, CallsProper DEF Calls, Acquiring
  <1>2. CASE zeroed
    <2>1. PICK T \in Types, n \in 1 .. MaxBytes :
             ~Owns /\ Calls(Call("allocate_zeroed", Vec(T, n, n)))
      BY <1>2 DEF zeroed
    <2>2. Vec(T, n, n) \in Proper /\ Vec(T, n, n).len <= Vec(T, n, n).cap
      <3>1. n \in 0 .. MaxBytes
        BY MaxBytesAssumption
      <3>2. Vec(T, n, n) \in Proper
        BY <3>1, VecProper
      <3> QED
        BY <3>2, MaxBytesAssumption DEF Vec, Owner
    <2> QED
      BY <2>1, <2>2, CallsProper DEF Calls, Acquiring
  <1>3. ASSUME NEW v, v.kind = "vec", IsVec, v = Vec(TypeOf(owner), v.len, v.cap),
               v.len \in 0 .. MaxBytes, v.cap \in 1 .. MaxBytes, v.len <= v.cap,
               NEW op \in Changing, Calls(Call(op, v))
        PROVE  IInv'
    <2>1. Owns /\ owner \in Proper
      BY <1>3 DEF IsVec, IInv, OwnerOK
    <2>2. v \in Proper /\ v.align = owner.align
      BY <1>3, <2>1 DEF Vec, TypeOf, Owner, Proper
    <2>3. align_layout(LayoutOf(v)).align = align_layout(old).align
      BY <2>1, <2>2, LayoutOfProper DEF old, align_layout, Layout
    <2> QED
      BY <1>3, <2>1, <2>2, <2>3, CallsProper DEF Calls
  <1>4. CASE reserve
    <2>1. PICK n \in 1 .. MaxBytes :
             /\ IsVec /\ n > owner.cap
             /\ Calls(Call("grow", Vec(TypeOf(owner), owner.len, n)))
      BY <1>4 DEF reserve
    <2>2. owner \in Proper /\ owner.len <= owner.cap
      BY <2>1 DEF IsVec, IInv, OwnerOK, TypeOK
    <2> DEFINE v == Vec(TypeOf(owner), owner.len, n)
    <2>3. /\ v.kind = "vec" /\ v.len = owner.len /\ v.cap = n
          /\ v.len \in 0 .. MaxBytes /\ v.len <= v.cap
      BY <2>1, <2>2, MaxBytesAssumption DEF Vec, Owner, Proper
    <2> QED
      BY <1>3, <2>1, <2>3 DEF Changing
  <1>5. CASE shrink_to_fit
    <2>1. IsVec /\ owner \in Proper
      BY <1>5 DEF shrink_to_fit, IsVec, IInv, OwnerOK
    <2>2. CASE owner.len = 0
      BY <1>5, <2>1, <2>2, CallsDeallocate DEF shrink_to_fit, Calls, IsVec
    <2>3. CASE owner.len # 0
      <3> DEFINE v == Vec(TypeOf(owner), owner.len, owner.len)
      <3>1. /\ v.kind = "vec" /\ v.len = owner.len /\ v.cap = owner.len
            /\ v.len \in 0 .. MaxBytes /\ v.cap \in 1 .. MaxBytes /\ v.len <= v.cap
        BY <2>1, <2>3, MaxBytesAssumption DEF Vec, Owner, Proper
      <3>2. Calls(Call("shrink", v))
        BY <1>5, <2>3 DEF shrink_to_fit
      <3> QED
        BY <1>3, <2>1, <3>1, <3>2 DEF Changing
    <2> QED
      BY <2>2, <2>3
  <1>6. CASE drop \/ ConvertPanics
    BY <1>6, CallsDeallocate DEF drop, ConvertPanics, Calls, IsVec, IsBuffer
  <1> QED
    BY <1>1, <1>2, <1>4, <1>5, <1>6, FromRawPartsInv, ConvertInv DEF Vector

LEMMA NextInv == IInv /\ [Next]_vars => IInv'
  <1> SUFFICES ASSUME IInv, [Next]_vars PROVE IInv'
    OBVIOUS
  <1>1. CASE Request("raw") \/ Request("global")
    BY <1>1, RequestInv
  <1>2. CASE UNCHANGED vars
    BY <1>2, LeftAlone DEF vars
  <1> QED
    BY <1>1, <1>2, VectorInv, HandlerInv, FillInv DEF Next

-----------------------------------------------------------------------------
(* What the owner of the block sees *)

Growing == {"grow", "grow_zeroed"}

Asked == IF Idle THEN NoRequest
         ELSE [op |-> call.op, old |-> old.size, new |-> new.size]

\* The users of an allocator itself count in bytes.
InBytes(o) == o.kind # "vec" => o.elem = 1

\* A call is for a larger or a smaller block, as it says.
RequestOK ==
    /\ InBytes(owner)
    /\ ~Idle => InBytes(call.next) /\ new.size \in 0 .. MaxBytes
    /\ call.op \in Growing => old.size < new.size
    /\ call.op = "shrink" => new.size < old.size

CInv == IInv /\ RequestOK

\* What a step is to the owner.
GoesUnseen == Asked' = Asked /\ bytes' = bytes /\ old'.size = old.size

Asks ==
    /\ Idle /\ bytes' = bytes /\ old'.size = old.size
    /\ \E op \in Contract!Ops, o, n \in (1 .. MaxBytes) \cup {0} :
          /\ Asked' = Contract!Request(op, o, n)
          /\ Contract!Legal("owner", Contract!Request(op, o, n))

Fills ==
    /\ Idle /\ Asked' = Asked /\ old'.size = old.size
    /\ bytes' = [i \in DOMAIN bytes |-> <<"owner", i>>]

Refused ==
    /\ ~Idle /\ call.op # "deallocate" /\ Asked' = NoRequest
    /\ bytes' = bytes /\ old'.size = old.size

Answered ==
    /\ ~Idle /\ call.op # "deallocate" /\ Asked' = NoRequest
    /\ old'.size = new.size /\ Contract!Answers(Asked, bytes, bytes')

Ended ==
    /\ ~Idle /\ call.op = "deallocate" /\ Asked' = NoRequest
    /\ bytes' = Contract!Empty /\ old'.size = 0

Outcome == GoesUnseen \/ Asks \/ Fills \/ Refused \/ Answered \/ Ended

LEMMA LengthIs ==
    ASSUME NEW n \in Nat, NEW b, DOMAIN b = 0 .. n - 1
    PROVE  Contract!Length(b) = n
  <1>1. CASE n = 0
    BY <1>1 DEF Contract!Length
  <1>2. CASE n # 0
    <2> DEFINE S == {i + 1 : i \in DOMAIN b}
    <2>1. S = 1 .. n
      <3>1. \A k \in 1 .. n : k - 1 \in 0 .. n - 1 /\ (k - 1) + 1 = k
        OBVIOUS
      <3>2. \A k \in S : k \in 1 .. n
        OBVIOUS
      <3> QED
        BY <3>1, <3>2
    <2>2. \A k \in S : k \notin DOMAIN b <=> k = n
      BY <2>1
    <2>3. n \in S /\ n \notin DOMAIN b
      BY <1>2, <2>1
    <2>4. /\ (CHOOSE k \in S : k \notin DOMAIN b) \in S
          /\ (CHOOSE k \in S : k \notin DOMAIN b) \notin DOMAIN b
      BY <2>3
    <2>5. (CHOOSE k \in S : k \notin DOMAIN b) = n
      BY <2>2, <2>4
    <2>6. DOMAIN b # {}
      BY <1>2
    <2> QED
      BY <2>5, <2>6 DEF Contract!Length
  <1> QED
    BY <1>1, <1>2

\* The bytes of the block are those the owner knows of.
LEMMA OwnSize ==
    ASSUME IInv
    PROVE  /\ old.size \in Nat /\ old.size <= MaxBytes
           /\ Owns => old.size > 0 /\ Contract!Length(bytes) = old.size
           /\ ~Owns => old.size = 0
  <1>1. CASE Owns
    <2>1. owner \in Proper /\ block.size \in 0 .. MaxBytes /\ DOMAIN bytes = 0 .. block.size - 1
      BY <1>1 DEF IInv, OwnerOK, TypeOK
    <2>2. old \in AnyLayout /\ old.size = owner.cap * owner.elem
      BY <2>1, LayoutOfProper DEF old
    <2>3. block.size = old.size
      BY <1>1, <2>2, AlignLayout DEF IInv, LayoutsMatch, Layout
    <2>4. owner.cap * owner.elem > 0
      <3>1. owner.cap \in Nat \ {0} /\ owner.elem \in Nat \ {0}
        BY <2>1, MaxBytesAssumption DEF Proper
      <3> QED
        BY <3>1, SMT
    <2>5. block.size \in Nat /\ block.size <= MaxBytes
      BY <2>1, MaxBytesAssumption
    <2> QED
      BY <1>1, <2>1, <2>2, <2>3, <2>4, <2>5, LengthIs
  <1>2. CASE ~Owns
    BY <1>2, MaxBytesAssumption DEF Owns, old, LayoutOf, Layout, NoOwner, Owner
  <1> QED
    BY <1>1, <1>2

\* The contract allows each of these outcomes.
LEMMA Simulates ==
    ASSUME CInv, Outcome
    PROVE  [Contract!Next]_(Contract!vars)
  <1> DEFINE request == [c \in {"owner"} |->
                  IF Idle THEN NoRequest
                  ELSE [op |-> call.op, old |-> old.size, new |-> new.size]]
             seen == [c \in {"owner"} |-> bytes]
             size == [c \in {"owner"} |-> old.size]
  <1>1. /\ request = [c \in {"owner"} |-> Asked] /\ request' = [c \in {"owner"} |-> Asked']
        /\ seen' = [c \in {"owner"} |-> bytes'] /\ size' = [c \in {"owner"} |-> old'.size]
    BY DEF Asked, Idle, old, new
  <1>2. /\ request["owner"] = Asked /\ seen["owner"] = bytes /\ seen'["owner"] = bytes'
        /\ size["owner"] = old.size
    BY <1>1
  <1>3. /\ request' = [request EXCEPT !["owner"] = Asked']
        /\ seen' = [seen EXCEPT !["owner"] = bytes']
        /\ size' = [size EXCEPT !["owner"] = old'.size]
    <2>1. request' = [request EXCEPT !["owner"] = Asked']
      BY <1>1
    <2>2. seen' = [seen EXCEPT !["owner"] = bytes']
      BY <1>1
    <2>3. size' = [size EXCEPT !["owner"] = old'.size]
      BY <1>1
    <2> QED
      BY <2>1, <2>2, <2>3
  <1>4. /\ Asked' = Asked => request' = request
        /\ bytes' = bytes => seen' = seen
        /\ old'.size = old.size => size' = size
    BY <1>1
  <1> HIDE DEF request, seen, size
  <1>5. /\ ~Idle => /\ Asked # NoRequest /\ Asked.op = call.op /\ Asked.new = new.size
        /\ Idle => Asked = NoRequest
    <2>1. ASSUME ~Idle PROVE Asked \in [op : Ops, old : Nat, new : Nat]
      <3>1. call.op \in Ops /\ old.size \in Nat /\ new.size \in Nat
        BY <2>1, OwnSize, MaxBytesAssumption DEF CInv, RequestOK, IInv, TypeOK, Idle
      <3> QED
        BY <2>1, <3>1 DEF Asked
    <2> QED
      BY <2>1, NoRequestAssumption DEF Asked
  <1>6. CASE GoesUnseen
    <2>1. request' = request /\ seen' = seen /\ size' = size
      BY <1>4, <1>6 DEF GoesUnseen
    <2> QED
      BY <2>1 DEF Contract!vars, request, seen, size
  <1>7. CASE Asks
    <2>1. PICK op \in Contract!Ops, o \in (1 .. MaxBytes) \cup {0},
               n \in (1 .. MaxBytes) \cup {0} :
              /\ Asked' = Contract!Request(op, o, n)
              /\ Contract!Legal("owner", Contract!Request(op, o, n))
      BY <1>7 DEF Asks
    <2>2. /\ seen' = seen /\ size' = size /\ request["owner"] = NoRequest
          /\ request' = [request EXCEPT !["owner"] = Contract!Request(op, o, n)]
      BY <1>2, <1>3, <1>4, <1>5, <1>7, <2>1 DEF Asks
    <2>3. Contract!Ask("owner", Contract!Request(op, o, n))
      BY <2>1, <2>2 DEF Contract!Ask, request, seen, size
    <2> QED
      BY <2>3 DEF Contract!Next
  <1>8. CASE Fills
    <2>1. /\ request' = request /\ size' = size /\ request["owner"] = NoRequest
          /\ seen' = [seen EXCEPT !["owner"] = [i \in DOMAIN seen["owner"] |-> <<"owner", i>>]]
      BY <1>2, <1>3, <1>4, <1>5, <1>8 DEF Fills
    <2>2. Contract!Write("owner")
      BY <2>1 DEF Contract!Write, request, seen, size
    <2> QED
      BY <2>2 DEF Contract!Next
  <1>9. CASE Refused
    <2>1. /\ request["owner"] # NoRequest /\ request["owner"].op # "deallocate"
          /\ request' = [request EXCEPT !["owner"] = NoRequest]
          /\ size' = size /\ seen' = seen
      BY <1>2, <1>3, <1>4, <1>5, <1>9 DEF Refused
    <2>2. Contract!Fail("owner")
      BY <2>1 DEF Contract!Fail, request, seen, size
    <2> QED
      BY <2>2 DEF Contract!Next
  <1>10. CASE Answered
    <2>1. /\ request["owner"] # NoRequest /\ request["owner"].op # "deallocate"
          /\ request' = [request EXCEPT !["owner"] = NoRequest]
          /\ size' = [size EXCEPT !["owner"] = request["owner"].new]
          /\ Contract!Answers(request["owner"], seen["owner"], seen'["owner"])
      BY <1>2, <1>3, <1>5, <1>10 DEF Answered
    <2>2. \A d \in {"owner"} \ {"owner"} : seen'[d] = seen[d]
      OBVIOUS
    <2>3. Contract!Return("owner")
      BY <2>1, <2>2 DEF Contract!Return, request, seen, size
    <2> QED
      BY <2>3 DEF Contract!Next
  <1>11. CASE Ended
    <2>1. /\ request["owner"] # NoRequest /\ request["owner"].op = "deallocate"
          /\ request' = [request EXCEPT !["owner"] = NoRequest]
          /\ size' = [size EXCEPT !["owner"] = 0]
          /\ seen' = [seen EXCEPT !["owner"] = Contract!Empty]
      BY <1>2, <1>3, <1>5, <1>11 DEF Ended
    <2>2. Contract!Release("owner")
      BY <2>1 DEF Contract!Release, request, seen, size
    <2> QED
      BY <2>2 DEF Contract!Next
  <1> QED
    BY <1>6, <1>7, <1>8, <1>9, <1>10, <1>11 DEF Outcome

-----------------------------------------------------------------------------
(* The outcomes of the steps *)

LEMMA AsksChange ==
    ASSUME CInv, Idle, UNCHANGED <<block, bytes, owner>>, NEW op, NEW o \in Proper,
           call' = Call(op, o), IsLayout(LayoutOf(o)), InBytes(o),
           \/ ~Owns /\ op \in Acquiring
           \/ Owns /\ op \in Growing /\ old.size < LayoutOf(o).size
           \/ Owns /\ op = "shrink" /\ LayoutOf(o).size < old.size
    PROVE  RequestOK' /\ Outcome
  <1>1. /\ owner' = owner /\ old' = old /\ new' = LayoutOf(o)
        /\ call'.op = op /\ call'.next = o /\ ~Idle'
    BY DEF old, new, Call, Idle, NoCall, Acquiring, Growing
  <1> DEFINE n == LayoutOf(o).size
  <1>2. n \in Nat /\ n <= MaxBytes
    <2>1. LayoutOf(o) \in AnyLayout
      BY LayoutOfProper
    <2>2. n \in Nat /\ LayoutOf(o).align \in Nat \ {0}
      BY <2>1, SmallAligns DEF AnyLayout
    <2> QED
      BY <2>2, MaxBytesAssumption DEF IsLayout
  <1>3. RequestOK'
    BY <1>1, <1>2, MaxBytesAssumption DEF CInv, RequestOK, InBytes, Acquiring, Growing
  <1>4. Asked' = Contract!Request(op, old.size, n)
    BY <1>1 DEF Asked, Contract!Request
  <1> HIDE DEF n
  <1>5. /\ op \in Contract!Ops /\ old.size \in (1 .. MaxBytes) \cup {0}
        /\ n \in (1 .. MaxBytes) \cup {0}
    BY <1>2, OwnSize, MaxBytesAssumption DEF CInv, Contract!Ops, Acquiring, Growing
  <1>6. Contract!Legal("owner", Contract!Request(op, old.size, n))
    <2>1. /\ old.size \in Nat /\ n \in Nat
          /\ Owns => Contract!Length(bytes) = old.size
          /\ ~Owns => old.size = 0
      BY <1>2, OwnSize DEF CInv
    <2>2. CASE ~Owns /\ op \in Acquiring
      BY <2>1, <2>2 DEF Contract!Legal, Contract!Request, Acquiring
    <2>3. CASE Owns /\ op \in Growing /\ old.size < n
      <3>1. old.size <= old.size /\ op \in {"grow", "grow_zeroed"}
        BY <2>1, <2>3 DEF Growing
      <3>2. CASE op = "grow"
        BY <2>1, <2>3, <3>1, <3>2 DEF Contract!Legal, Contract!Request
      <3>3. CASE op = "grow_zeroed"
        BY <2>1, <2>3, <3>1, <3>3 DEF Contract!Legal, Contract!Request
      <3> QED
        BY <3>1, <3>2, <3>3
    <2>4. CASE Owns /\ op = "shrink" /\ n < old.size
      BY <2>1, <2>4 DEF Contract!Legal, Contract!Request
    <2> QED
      BY <2>2, <2>3, <2>4 DEF n
  <1> QED
    BY <1>1, <1>3, <1>4, <1>5, <1>6 DEF Outcome, Asks

LEMMA AsksDeallocate ==
    ASSUME CInv, Idle, Owns, UNCHANGED <<block, bytes, owner>>,
           call' = Call("deallocate", NoOwner)
    PROVE  RequestOK' /\ Outcome
  <1>1. /\ owner' = owner /\ old' = old /\ new'.size = 0
        /\ call'.op = "deallocate" /\ call'.next = NoOwner /\ ~Idle'
    BY DEF old, new, Call, Idle, NoCall, LayoutOf, Layout, NoOwner, Owner
  <1>2. RequestOK'
    BY <1>1, MaxBytesAssumption DEF CInv, RequestOK, InBytes, NoOwner, Owner, Growing
  <1>3. Asked' = Contract!Request("deallocate", old.size, 0)
    BY <1>1 DEF Asked, Contract!Request
  <1>4. "deallocate" \in Contract!Ops /\ old.size \in (1 .. MaxBytes) \cup {0}
    BY OwnSize, MaxBytesAssumption DEF CInv, Contract!Ops
  <1>5. Contract!Legal("owner", Contract!Request("deallocate", old.size, 0))
    BY OwnSize DEF CInv, Contract!Legal, Contract!Request
  <1> QED
    BY <1>1, <1>2, <1>3, <1>4, <1>5 DEF Outcome, Asks

LEMMA RequestAsks ==
    ASSUME CInv, NEW kind \in {"raw", "global"}, Request(kind)
    PROVE  RequestOK' /\ Outcome
  <1>1. PICK k \in Requests(kind) : Legal(k) /\ call' = k
    BY DEF Request
  <1>2. UNCHANGED <<block, bytes, owner>> /\ Idle /\ (Owns => owner.kind = kind)
    BY DEF Request
  <1>3. CASE k = Call("deallocate", NoOwner) /\ Owns
    BY <1>1, <1>2, <1>3, AsksDeallocate
  <1>4. ASSUME NEW op \in Acquiring \cup Changing, NEW x \in Aligns, NEW n \in 1 .. MaxBytes,
               k = Call(op, Owner(kind, 1, x, n, n)), op \in Acquiring <=> ~Owns
        PROVE  RequestOK' /\ Outcome
    <2> DEFINE o == Owner(kind, 1, x, n, n)
    <2>1. o \in Proper /\ InBytes(o) /\ o.cap = n
      BY MaxBytesAssumption DEF Proper, Owner, InBytes
    <2>2. LayoutOf(o).size = n
      <3>1. LayoutOf(o).size = n * 1 /\ n \in Nat
        BY MaxBytesAssumption DEF LayoutOf, Layout, Owner
      <3> QED
        BY <3>1
    <2>3. k.op = op /\ k.next = o
      BY <1>4 DEF Call
    <2> HIDE DEF o
    <2>4. Owns => old.size = owner.cap
      <3>1. Owns => owner.elem = 1 /\ owner \in Proper
        BY <1>2 DEF CInv, IInv, OwnerOK, RequestOK, InBytes
      <3>2. Owns => old.size = owner.cap * owner.elem /\ owner.cap \in Nat
        BY <3>1, LayoutOfProper, MaxBytesAssumption DEF old, Proper
      <3> QED
        BY <3>1, <3>2
    <2>5. /\ op \in Growing => n > owner.cap
          /\ op = "shrink" => n < owner.cap
          /\ IsLayout(LayoutOf(o))
      BY <1>1, <2>1, <2>3 DEF Legal, Growing
    <2>6. op \in Changing => op \in Growing \/ op = "shrink"
      BY DEF Changing, Growing
    <2>7. call' = Call(op, o)
      BY <1>1, <1>4 DEF o
    <2>8. \/ ~Owns /\ op \in Acquiring
          \/ Owns /\ op \in Growing /\ old.size < LayoutOf(o).size
          \/ Owns /\ op = "shrink" /\ LayoutOf(o).size < old.size
      <3>1. ~Owns => op \in Acquiring
        BY <1>4
      <3>2. Owns => op \in Changing
        BY <1>4
      <3>3. Owns => owner.cap \in Nat
        BY MaxBytesAssumption DEF CInv, IInv, OwnerOK, Proper
      <3> QED
        BY <2>2, <2>4, <2>5, <2>6, <3>1, <3>2, <3>3
    <2> QED
      BY <1>2, <2>1, <2>5, <2>7, <2>8, AsksChange
  <1> QED
    BY <1>1, <1>3, <1>4 DEF Requests, Acquiring, Changing

\* A call returns a block that holds what it should.
LEMMA AnswersCall ==
    ASSUME CInv, call.op \in Acquiring \cup Changing, Returns, NEW kept, NEW v,
           bytes' = Contents(new.size, kept, v),
           call.op = "allocate_zeroed" => kept = 0 /\ v = Zero,
           call.op \in Growing => kept = old.size,
           call.op = "grow_zeroed" => v = Zero,
           call.op = "shrink" => kept = new.size
    PROVE  RequestOK' /\ Outcome
  <1>1. /\ owner' = call.next /\ call' = NoCall /\ old' = new /\ Idle'
        /\ ~Idle /\ call.op # "deallocate"
    BY DEF Returns, old, new, Idle, NoCall, Call, Acquiring, Changing
  <1>2. RequestOK'
    BY <1>1 DEF CInv, RequestOK, NoCall, Call, Growing
  <1>3. new.size \in Nat /\ old.size \in Nat
    BY <1>1, OwnSize, MaxBytesAssumption DEF CInv, RequestOK
  <1>4. /\ DOMAIN bytes' = 0 .. new.size - 1
        /\ \A i \in 0 .. new.size - 1 : bytes'[i] = IF i < kept THEN bytes[i] ELSE v
    BY DEF Contents
  <1>5. Contract!Length(bytes') = new.size
    BY <1>3, <1>4, LengthIs
  <1>6. call.op = "allocate_zeroed" => \A i \in DOMAIN bytes' : bytes'[i] = Zero
    BY <1>4
  <1>7. call.op \in Growing => /\ \A i \in 0 .. old.size - 1 : bytes'[i] = bytes[i]
                               /\ old.size < new.size
    <2>1. call.op \in Growing => old.size < new.size
      BY DEF CInv, RequestOK
    <2>2. call.op \in Growing =>
              \A i \in 0 .. old.size - 1 : i \in 0 .. new.size - 1 /\ i < old.size
      BY <1>3, <2>1
    <2> QED
      BY <1>4, <2>1, <2>2
  <1>8. call.op = "grow_zeroed" => \A i \in old.size .. new.size - 1 : bytes'[i] = Zero
    <2>1. \A i \in old.size .. new.size - 1 : i \in 0 .. new.size - 1 /\ ~(i < old.size)
      BY <1>3
    <2> QED
      BY <1>4, <2>1 DEF Growing
  <1>9. call.op = "shrink" => \A i \in 0 .. new.size - 1 : bytes'[i] = bytes[i]
    <2>1. \A i \in 0 .. new.size - 1 : i < new.size
      BY <1>3
    <2> QED
      BY <1>4, <2>1
  <1>10. Asked = [op |-> call.op, old |-> old.size, new |-> new.size] /\ Asked' = NoRequest
    BY <1>1 DEF Asked
  <1>11. Contract!Answers(Asked, bytes, bytes')
    BY <1>3, <1>5, <1>6, <1>7, <1>8, <1>9, <1>10 DEF Contract!Answers, Growing
  <1> QED
    BY <1>1, <1>2, <1>10, <1>11 DEF Outcome, Answered

LEMMA FailsCall ==
    ASSUME CInv, call.op \in Acquiring \cup Changing, Fails
    PROVE  RequestOK' /\ Outcome
  <1>1. /\ owner' = owner /\ old' = old /\ Idle' /\ bytes' = bytes /\ call' = NoCall
        /\ ~Idle /\ call.op # "deallocate"
    BY DEF Fails, old, Idle, NoCall, Call, Acquiring, Changing
  <1>2. RequestOK'
    BY <1>1 DEF CInv, RequestOK, NoCall, Call, Growing
  <1>3. Asked' = NoRequest
    BY <1>1 DEF Asked
  <1> QED
    BY <1>1, <1>2, <1>3 DEF Outcome, Refused

LEMMA DeallocEnds ==
    ASSUME CInv, call.op = "deallocate", NEW l, dealloc(l), Returns
    PROVE  RequestOK' /\ Outcome
  <1>1. call.next = NoOwner /\ ~Idle
    BY DEF CInv, IInv, CallOK, Idle, NoCall, Call, Acquiring, Changing
  <1>2. /\ owner' = NoOwner /\ Idle' /\ call' = NoCall
    BY <1>1 DEF Returns, Idle
  <1>3. old'.size = 0
    BY <1>2 DEF old, LayoutOf, Layout, NoOwner, Owner
  <1>4. RequestOK'
    BY <1>2 DEF RequestOK, InBytes, NoOwner, Owner, NoCall, Call, Growing
  <1>5. bytes' = Contract!Empty
    <2>1. 0 .. 0 - 1 = {}
      OBVIOUS
    <2>2. bytes' = [i \in 0 .. 0 - 1 |-> IF i < 0 THEN bytes[i] ELSE Junk]
      BY DEF dealloc, Contents
    <2> QED
      BY <2>1, <2>2 DEF Contract!Empty
  <1>6. Asked' = NoRequest
    BY <1>2 DEF Asked
  <1> QED
    BY <1>1, <1>3, <1>4, <1>5, <1>6 DEF Outcome, Ended

\* What the heap's realloc leaves in the block, of the old bytes as many as fit.
LEMMA ReallocContents ==
    ASSUME CInv, call.op \in {"grow", "shrink"}, Returns,
           realloc(align_layout(old), new.size)
    PROVE  RequestOK' /\ Outcome
  <1>1. call.op \in Acquiring \cup Changing
    BY DEF Changing
  <1>2. old.size \in Nat /\ new.size \in Nat /\ align_layout(old).size = old.size
    <2>1. Owns /\ new \in AnyLayout
      BY <1>1, WantsBlock DEF CInv, Changing
    <2>2. old \in AnyLayout
      BY <2>1, LayoutOfProper DEF CInv, IInv, OwnerOK, old
    <2> QED
      BY <2>1, <2>2, AlignLayout DEF AnyLayout
  <1>3. bytes' = Contents(new.size, IF new.size < old.size THEN new.size ELSE old.size, Junk)
    BY <1>2 DEF realloc
  <1>4. /\ call.op = "grow" => old.size < new.size
        /\ call.op = "shrink" => new.size < old.size
    BY DEF CInv, RequestOK, Growing
  <1>5. CASE call.op = "grow"
    <2>1. bytes' = Contents(new.size, old.size, Junk)
      BY <1>2, <1>3, <1>4, <1>5
    <2> QED
      BY <1>1, <1>5, <2>1, AnswersCall
  <1>6. CASE call.op = "shrink"
    <2>1. bytes' = Contents(new.size, new.size, Junk)
      BY <1>3, <1>4, <1>6
    <2> QED
      BY <1>1, <1>6, <2>1, AnswersCall DEF Growing
  <1> QED
    BY <1>5, <1>6

LEMMA HandlerOutcome ==
    ASSUME CInv, Handler
    PROVE  RequestOK' /\ Outcome
  <1>1. CASE Fails /\ call.op \in Acquiring \cup Changing
    BY <1>1, FailsCall
  <1>2. call.op \in Acquiring \cup Changing =>
            align_layout(new).size = new.size
    BY WantsBlock DEF CInv
  <1>3. CASE allocate \/ GlobalAlloc
    <2>1. call.op = "allocate" /\ call.op \in Acquiring
      BY <1>3 DEF allocate, GlobalAlloc, At, Acquiring
    <2>2. CASE Answers(alloc(align_layout(new)))
      BY <1>2, <2>1, <2>2, AnswersCall DEF Answers, alloc, Growing
    <2> QED
      BY <1>1, <1>3, <2>1, <2>2 DEF allocate, GlobalAlloc
  <1>4. CASE allocate_zeroed \/ GlobalAllocZeroed
    <2>1. call.op = "allocate_zeroed" /\ call.op \in Acquiring
      BY <1>4 DEF allocate_zeroed, GlobalAllocZeroed, At, Acquiring
    <2>2. CASE Answers(alloc_zeroed(align_layout(new)))
      BY <1>2, <2>1, <2>2, AnswersCall DEF Answers, alloc_zeroed, Growing
    <2> QED
      BY <1>1, <1>4, <2>1, <2>2 DEF allocate_zeroed, GlobalAllocZeroed
  <1>5. CASE deallocate \/ GlobalDealloc
    BY <1>5, DeallocEnds DEF deallocate, GlobalDealloc, At
  <1>6. CASE grow \/ shrink \/ GlobalRealloc
    <2>1. call.op \in {"grow", "shrink"} /\ call.op \in Changing
      BY <1>6 DEF grow, shrink, GlobalRealloc, At, Changing
    <2>2. CASE realloc(align_layout(old), new.size) /\ Returns
      BY <2>1, <2>2, ReallocContents
    <2>3. CASE Answers(realloc(align_layout(old), align_layout(new).size))
      BY <1>2, <2>1, <2>2, <2>3 DEF Answers
    <2> QED
      BY <1>1, <1>6, <2>1, <2>2, <2>3 DEF grow, shrink, GlobalRealloc
  <1>7. CASE grow_zeroed
    <2>1. call.op = "grow_zeroed" /\ call.op \in Changing
      BY <1>7 DEF grow_zeroed, At, Changing
    <2>2. CASE Answers(Placed(align_layout(new)) /\ bytes' = Contents(new.size, old.size, Zero))
      BY <2>1, <2>2, AnswersCall DEF Answers
    <2> QED
      BY <1>1, <1>7, <2>1, <2>2 DEF grow_zeroed
  <1> QED
    BY <1>3, <1>4, <1>5, <1>6, <1>7 DEF Handler

\* The owner takes its bytes for others, or writes them.
LEMMA IdleStep ==
    ASSUME CInv, Idle, call' = call, owner' \in Proper, InBytes(owner'),
           LayoutOf(owner').size = old.size,
           bytes' = bytes \/ bytes' = [i \in DOMAIN bytes |-> <<"owner", i>>]
    PROVE  RequestOK' /\ Outcome
  <1>1. Idle' /\ Asked' = Asked /\ old'.size = old.size
    BY DEF Idle, Asked, old
  <1>2. RequestOK'
    BY <1>1 DEF RequestOK, Idle, NoCall, Call, Growing
  <1> QED
    BY <1>1, <1>2 DEF Outcome, GoesUnseen, Fills

LEMMA FillOutcome ==
    ASSUME CInv, Fill
    PROVE  RequestOK' /\ Outcome
  <1>1. /\ Idle /\ Owns /\ call' = call /\ bytes' = [i \in DOMAIN bytes |-> <<"owner", i>>]
        /\ owner' = [owner EXCEPT !.len = owner.cap]
    BY DEF Fill, Stamp
  <1>2. owner \in Proper /\ InBytes(owner)
    BY <1>1 DEF CInv, IInv, OwnerOK, RequestOK
  <1>3. owner' \in Proper /\ InBytes(owner') /\ LayoutOf(owner') = old
    BY <1>1, <1>2, MaxBytesAssumption DEF Proper, InBytes, LayoutOf, old
  <1> QED
    BY <1>1, <1>3, IdleStep

\* A vector asks for room for n of its elements.
LEMMA VectorAsks ==
    ASSUME CInv, IsVec, NEW len \in 0 .. MaxBytes, NEW n \in 1 .. MaxBytes, NEW op,
           Calls(Call(op, Vec(TypeOf(owner), len, n))),
           IsArray(Vec(TypeOf(owner), len, n)) \/ n < owner.cap,
           \/ op = "grow" /\ n > owner.cap
           \/ op = "shrink" /\ n < owner.cap
    PROVE  RequestOK' /\ Outcome
  <1> DEFINE v == Vec(TypeOf(owner), len, n)
  <1>1. Owns /\ owner \in Proper /\ owner.cap \in Nat /\ owner.elem \in Nat \ {0} /\ n \in Nat
    BY MaxBytesAssumption DEF IsVec, CInv, IInv, OwnerOK, Proper
  <1>2. v \in Proper /\ InBytes(v) /\ v.align = owner.align
    BY <1>1 DEF Vec, TypeOf, Owner, Proper, InBytes
  <1>3. LayoutOf(v).size = n * owner.elem /\ old.size = owner.cap * owner.elem
    BY <1>1 DEF Vec, TypeOf, Owner, LayoutOf, Layout, old
  <1>4. /\ n > owner.cap => n * owner.elem > owner.cap * owner.elem
        /\ n < owner.cap => n * owner.elem < owner.cap * owner.elem
    BY <1>1, SMT
  <1>5. IsLayout(LayoutOf(v))
    <2>1. CASE n < owner.cap
      <3>1. /\ LayoutOf(v).align = owner.align /\ old.align = owner.align
            /\ old \in AnyLayout /\ LayoutOf(v) \in AnyLayout
        BY <1>1, <1>2, LayoutOfProper DEF old
      <3>2. align_layout(old).size = old.size /\ align_layout(old).align >= old.align
            /\ align_layout(old).align \in Nat
        BY <3>1, AlignLayout, SmallAligns DEF AnyLayout
      <3>3. IsLayout(align_layout(old))
        BY <1>1 DEF CInv, IInv, LayoutsMatch, Panics
      <3>4. LayoutOf(v).size < old.size /\ LayoutOf(v).size \in Nat /\ old.size \in Nat
            /\ owner.align \in Nat
        BY <1>3, <1>4, <2>1, <3>1, SmallAligns DEF AnyLayout
      <3> QED
        BY <3>1, <3>2, <3>3, <3>4, MaxBytesAssumption DEF IsLayout
    <2> QED
      BY <2>1 DEF IsArray
  <1>6. Idle /\ UNCHANGED <<block, bytes, owner>> /\ call' = Call(op, v)
    BY DEF Calls
  <1> HIDE DEF v
  <1> QED
    BY <1>1, <1>2, <1>3, <1>4, <1>5, <1>6, AsksChange DEF Growing

LEMMA VectorOutcome ==
    ASSUME CInv, Vector
    PROVE  RequestOK' /\ Outcome
  <1>1. CASE with_capacity
    <2>1. PICK T \in Types, n \in 1 .. MaxBytes :
             ~Owns /\ IsArray(Vec(T, 0, n)) /\ Calls(Call("allocate", Vec(T, 0, n)))
      BY <1>1 DEF with_capacity
    <2>2. Vec(T, 0, n) \in Proper /\ InBytes(Vec(T, 0, n))
      <3>1. 0 \in 0 .. MaxBytes
        BY MaxBytesAssumption
      <3>2. Vec(T, 0, n) \in Proper
        BY <3>1, VecProper
      <3> QED
        BY <3>2 DEF Vec, Owner, InBytes
    <2> QED
      BY <2>1, <2>2, AsksChange DEF Calls, Acquiring, IsArray
  <1>2. CASE zeroed
    <2>1. PICK T \in Types, n \in 1 .. MaxBytes :
             ~Owns /\ IsArray(Vec(T, n, n)) /\ Calls(Call("allocate_zeroed", Vec(T, n, n)))
      BY <1>2 DEF zeroed
    <2>2. Vec(T, n, n) \in Proper /\ InBytes(Vec(T, n, n))
      <3>1. n \in 0 .. MaxBytes
        BY MaxBytesAssumption
      <3>2. Vec(T, n, n) \in Proper
        BY <3>1, VecProper
      <3> QED
        BY <3>2 DEF Vec, Owner, InBytes
    <2> QED
      BY <2>1, <2>2, AsksChange DEF Calls, Acquiring, IsArray
  <1>3. ASSUME IsVec
        PROVE  owner \in Proper /\ owner.len <= owner.cap /\ Owns /\ InBytes(owner)
               /\ owner.len \in 0 .. MaxBytes /\ owner.cap \in Nat
    BY <1>3, MaxBytesAssumption DEF IsVec, CInv, IInv, OwnerOK, TypeOK, RequestOK, Proper
  <1>4. CASE reserve
    <2>1. PICK n \in 1 .. MaxBytes :
             /\ IsVec /\ n > owner.cap /\ IsArray(Vec(TypeOf(owner), owner.len, n))
             /\ Calls(Call("grow", Vec(TypeOf(owner), owner.len, n)))
      BY <1>4 DEF reserve
    <2> QED
      BY <1>3, <2>1, VectorAsks
  <1>5. CASE shrink_to_fit
    <2>1. IsVec /\ owner.len < owner.cap
      BY <1>5 DEF shrink_to_fit
    <2>2. CASE owner.len = 0
      BY <1>5, <2>1, <2>2, AsksDeallocate DEF shrink_to_fit, Calls, IsVec
    <2>3. CASE owner.len # 0
      <3>1. owner.len \in 1 .. MaxBytes
        BY <1>3, <2>1, <2>3, MaxBytesAssumption
      <3>2. Calls(Call("shrink", Vec(TypeOf(owner), owner.len, owner.len)))
        BY <1>5, <2>3 DEF shrink_to_fit
      <3> QED
        BY <1>3, <2>1, <3>1, <3>2, VectorAsks
    <2> QED
      BY <2>2, <2>3
  <1>6. CASE drop \/ ConvertPanics
    BY <1>6, AsksDeallocate DEF drop, ConvertPanics, Calls, IsVec, IsBuffer
  <1>7. CASE from_raw_parts
    <2>1. PICK n \in 0 .. owner.cap :
              /\ IsVec /\ Idle /\ UNCHANGED <<bytes, call>>
              /\ owner' = [owner EXCEPT !.len = n]
      BY <1>7 DEF from_raw_parts
    <2>2. owner' \in Proper /\ InBytes(owner') /\ LayoutOf(owner') = old
      BY <1>3, <2>1, MaxBytesAssumption DEF Proper, InBytes, LayoutOf, old
    <2> QED
      BY <2>1, <2>2, IdleStep
  <1>8. CASE Convert
    <2>1. PICK T \in Targets : /\ IsBuffer /\ Idle /\ Divides(T)
                               /\ owner' = Relabelled(T)
                               /\ UNCHANGED <<bytes, call>>
      BY <1>8 DEF Convert
    <2>2. owner \in Proper /\ owner.elem = 1 /\ owner.kind = "vec"
      BY <1>3, <2>1 DEF IsBuffer, IsVec, TypeOf, Byte
    <2>3. owner' \in Proper /\ LayoutOf(owner').size = old.size
      BY <2>1, Relabels DEF CInv
    <2>4. InBytes(owner')
      BY <2>1 DEF Relabelled, Vec, Owner, InBytes
    <2> QED
      BY <2>1, <2>3, <2>4, IdleStep
  <1> QED
    BY <1>1, <1>2, <1>4, <1>5, <1>6, <1>7, <1>8 DEF Vector

LEMMA ContentsKept ==
    ASSUME CInv, [Next]_vars
    PROVE  CInv' /\ [Contract!Next]_(Contract!vars)
  <1>1. IInv'
    BY NextInv DEF CInv
  <1>2. CASE Next
    <2>1. RequestOK' /\ Outcome
      BY <1>2, VectorOutcome, RequestAsks, FillOutcome, HandlerOutcome DEF Next
    <2> QED
      BY <1>1, <2>1, Simulates DEF CInv
  <1>3. CASE UNCHANGED vars
    <2>1. RequestOK' /\ GoesUnseen
      BY <1>3 DEF vars, CInv, RequestOK, GoesUnseen, Asked, Idle, old, new
    <2> QED
      BY <1>1, <2>1, Simulates DEF CInv, Outcome
  <1> QED
    BY <1>2, <1>3

LEMMA InitContents == Init => CInv /\ Contract!Init
  <1> SUFFICES ASSUME Init
               PROVE  CInv /\ Contract!Init
    OBVIOUS
  <1>1. Idle /\ owner = NoOwner /\ call = NoCall
    BY DEF Init, Idle
  <1>2. old.size = 0
    BY <1>1 DEF old, LayoutOf, Layout, NoOwner, Owner
  <1>3. CInv
    BY <1>1, InitInv DEF CInv, RequestOK, InBytes, NoOwner, Owner, NoCall, Call, Growing
  <1>4. bytes = Contract!Empty
    <2>1. 0 .. 0 - 1 = {}
      OBVIOUS
    <2>2. bytes = [i \in 0 .. 0 - 1 |-> IF i < 0 THEN bytes[i] ELSE Junk]
      BY DEF Init, Contents
    <2> QED
      BY <2>1, <2>2 DEF Contract!Empty
  <1> QED
    BY <1>1, <1>2, <1>3, <1>4 DEF Contract!Init

-----------------------------------------------------------------------------
(* The theorems *)

THEOREM LayoutInvariant == Spec => []IInv
  BY InitInv, NextInv, PTL DEF Spec

\* The types of the state.
THEOREM BlockTyping == Spec => []TypeOK
  <1>1. IInv => TypeOK
    BY DEF IInv
  <1> QED
    BY <1>1, LayoutInvariant, PTL

\* The layout computed when a block is handed back is the recorded one.
THEOREM LayoutsAgree == Spec => []LayoutsMatch
  <1>1. IInv => LayoutsMatch
    BY DEF IInv
  <1> QED
    BY <1>1, LayoutInvariant, PTL

\* Blocks lie at multiples of 64 and of their elements' alignment.
THEOREM StaysAligned == Spec => []AlignedTo64
  <1>1. IInv => AlignedTo64
    <2> SUFFICES ASSUME IInv, Owns
                 PROVE  block.place % Align64 = 0 /\ block.place % owner.align = 0
      BY DEF AlignedTo64
    <2>1. owner \in Proper /\ block.place \in Aligns /\ block.place >= block.align
      BY DEF IInv, OwnerOK, TypeOK, PlaceOK
    <2>2. block.align = align_layout(old).align
      BY DEF IInv, LayoutsMatch, Layout
    <2>3. block.align \in Aligns /\ block.align >= Align64 /\ block.align >= owner.align
      BY <2>1, <2>2, LayoutOfProper, AlignLayout DEF old, AnyLayout
    <2>4. owner.align \in Aligns
      BY <2>1 DEF Proper
    <2>5. Align64 <= block.place /\ owner.align <= block.place
      BY <2>1, <2>3, <2>4, SmallAligns
    <2> QED
      BY <2>1, <2>4, <2>5, SmallAligns, Alignments
  <1> QED
    BY <1>1, LayoutInvariant, PTL

\* Whoever owns the block, a vector, or a user of Alloc64 or of Alloc64Global,
\* gets what the traits say: growing and shrinking keep the bytes and zeroed
\* ones are zero, a refusal or a panic leaves them alone, and a conversion
\* changes no byte and no length.
THEOREM ContractKept == Spec => KeepsContract
  <1>1. CInv /\ [Next]_vars => CInv' /\ [Contract!Next]_(Contract!vars)
    BY ContentsKept
  <1> QED
    BY InitContents, <1>1, PTL DEF Spec, KeepsContract, Contract!Spec

=============================================================================
