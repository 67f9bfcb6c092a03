---------------------------- MODULE MCVec64Splice ----------------------------
(* A small instance of Vec64Splice for TLC: pages of 2 bytes, the mapping    *)
(* threshold at 4; elements of 1 byte, and of 3 bytes, which straddle pages. *)
EXTENDS Vec64Splice

MCShapes == {<<1, 3>>, <<1, 6>>, <<3, 3>>}

=============================================================================
