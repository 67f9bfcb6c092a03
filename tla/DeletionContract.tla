-------------------------- MODULE DeletionContract --------------------------
(***************************************************************************)
(* What a vector promises of delete_range, with no bytes and no pages: a   *)
(* sequence of elements loses a range, every deleted element is dropped    *)
(* once and no other is dropped while the vector holds it.  When a drop    *)
(* panics, the elements before the range remain and those behind it leak.  *)
(***************************************************************************)
EXTENDS Integers, Sequences

CONSTANT MaxTokens

Tokens == 1 .. MaxTokens

VARIABLES
    seq,        \* the elements
    dropped,    \* dropped[t]: how often element t has been dropped
    made,       \* how many elements there have been
    deleting    \* the range being deleted, <<start, end>>, or <<>>

vars == <<seq, dropped, made, deleting>>

Init ==
    /\ made \in 0 .. MaxTokens
    /\ seq = [i \in 1 .. made |-> i]
    /\ dropped = [t \in Tokens |-> 0]
    /\ deleting = <<>>

\* The sequence without its elements start .. end-1, counted from 0.
Without(start, end) == SubSeq(seq, 1, start) \o SubSeq(seq, end + 1, Len(seq))

Drops(lo, hi) ==
    dropped' = [t \in Tokens |->
        dropped[t] + IF \E i \in lo + 1 .. hi : seq[i] = t THEN 1 ELSE 0]

Delete(start, end) ==
    /\ deleting = <<>> /\ start < end
    /\ Drops(start, end)
    /\ seq' = Without(start, end)
    /\ UNCHANGED <<made, deleting>>

Begin(start, end) ==
    /\ deleting = <<>> /\ start < end
    /\ Drops(start, end)
    /\ deleting' = <<start, end>>
    /\ UNCHANGED <<seq, made>>

End ==
    /\ deleting # <<>>
    /\ seq' = Without(deleting[1], deleting[2])
    /\ deleting' = <<>>
    /\ UNCHANGED <<dropped, made>>

Panic(start, end) ==
    /\ deleting = <<>> /\ start < end
    /\ Drops(start, end)
    /\ seq' = SubSeq(seq, 1, start)
    /\ UNCHANGED <<made, deleting>>

Push ==
    /\ deleting = <<>> /\ made < MaxTokens
    /\ made' = made + 1
    /\ seq' = Append(seq, made + 1)
    /\ UNCHANGED <<dropped, deleting>>

DropAll ==
    /\ deleting = <<>>
    /\ Drops(0, Len(seq))
    /\ seq' = <<>>
    /\ UNCHANGED <<made, deleting>>

Next ==
    \/ \E start, end \in 0 .. Len(seq) :
          Delete(start, end) \/ Begin(start, end) \/ Panic(start, end)
    \/ End \/ Push \/ DropAll

Spec == Init /\ [][Next]_vars

=============================================================================
