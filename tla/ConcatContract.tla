--------------------------- MODULE ConcatContract ---------------------------
(***************************************************************************)
(* What extend_from_vec64 and from_chunks promise: vectors are sequences   *)
(* of elements, and appending one to another consumes it.                  *)
(***************************************************************************)
EXTENDS Integers, Sequences

CONSTANTS Vecs,
    NoVec         \* what a vector is that does not exist (any more)

VARIABLE seqs     \* seqs[v]: the elements of vector v, or NoVec

Exists(v) == seqs[v] # NoVec

\* The elements of all vectors are distinct.
Init ==
    \A v, w \in {u \in Vecs : Exists(u)} :
        \A i \in 1 .. Len(seqs[v]), j \in 1 .. Len(seqs[w]) :
            seqs[v][i] = seqs[w][j] => v = w /\ i = j

Extend(v, w) ==
    /\ v # w /\ Exists(v) /\ Exists(w)
    /\ seqs' = [seqs EXCEPT ![v] = seqs[v] \o seqs[w], ![w] = NoVec]

\* from_chunks begins with an empty vector, which it extends by each chunk.
Create(v) ==
    /\ ~Exists(v)
    /\ seqs' = [seqs EXCEPT ![v] = <<>>]

\* Without any element to take, all chunks are consumed at once.
CreateEmpty(v) ==
    /\ ~Exists(v)
    /\ \A w \in Vecs \ {v} : seqs[w] = <<>>
    /\ seqs' = [w \in Vecs |-> IF w = v THEN <<>> ELSE NoVec]

Drop(v) ==
    /\ Exists(v)
    /\ seqs' = [seqs EXCEPT ![v] = NoVec]

Next ==
    \/ \E v, w \in Vecs : Extend(v, w)
    \/ \E v \in Vecs : Create(v) \/ CreateEmpty(v) \/ Drop(v)

Spec == Init /\ [][Next]_seqs

=============================================================================
