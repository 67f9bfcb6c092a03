-------------------------- MODULE MCAppendOnlyVec --------------------------
(* AppendOnlyVec, and the log it implements, on a small instance. *)
EXTENDS AppendOnlyVecRefinesLog, TLC

CONSTANTS w1, w2, w3, r1

ThreeWriters == {w1, w2, w3}
ReaderAndWriter == {r1, w1}

WriterSymmetry == Permutations(Writers \ Readers)

=============================================================================
