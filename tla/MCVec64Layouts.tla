--------------------------- MODULE MCVec64Layouts ---------------------------
(* Vec64Layouts with bytes, an aligned pair, three packed bytes, a type as     *)
(* aligned as ALIGN_64 and one that is more aligned.                           *)
EXTENDS Vec64Layouts

Type(s, a) == [size |-> s, align |-> a]

MCTypes == {Type(1, 1), Type(2, 2), Type(3, 1), Type(4, 4), Type(8, 8)}

=============================================================================
