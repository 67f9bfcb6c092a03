---------------------------- MODULE MCVec64Append ----------------------------
(* A small instance of Vec64Append for TLC: pages of 2 bytes, the mapping    *)
(* threshold at 4 (heap buffers, packed and unpacked mappings, destinations  *)
(* that end on and off a page boundary).                                     *)
EXTENDS Vec64Append

MCSelfShapes == {<<3, 1>>, <<8, 0>>, <<8, 3>>, <<8, 4>>, <<12, 2>>, <<11, 6>>}
MCOtherShapes == {<<2, 0>>, <<3, 3>>, <<4, 0>>, <<4, 4>>, <<5, 4>>, <<5, 5>>, <<8, 8>>}

GiantSelfShapes == {<<24, 2>>}
GiantOtherShapes == {<<10, 10>>, <<16, 16>>}

=============================================================================
