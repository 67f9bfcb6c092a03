---------------------- MODULE MCAppendOnlyVecLiveness ----------------------
(* AppendOnlyVecLiveness on small instances. *)
EXTENDS AppendOnlyVecLiveness, TLC

CONSTANTS w1, w2, w3

ThreeWriters == {w1, w2, w3}
NoReaders == {}
OnePaused == {w1}

=============================================================================
