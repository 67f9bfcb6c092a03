----------------------------- MODULE AppendLog -----------------------------
(***************************************************************************)
(* What AppendOnlyVec promises to the threads that share it, with no       *)
(* counter, no buffer and no memory order: the vector is a log of values.  *)
(* A push is granted the next place of the log, or is refused when the log *)
(* has Cap values; grants are committed in their order; a reader sees a    *)
(* prefix of the committed log that never gets shorter for it, and what it *)
(* has borrowed stays as it was when it was borrowed.                      *)
(***************************************************************************)
EXTENDS Integers, Sequences

CONSTANTS Writers, Readers, Cap,
    Values,       \* what can be pushed
    NoValue,      \* the argument of a thread that is not in push
    NoReading     \* the contents seen by a thread that holds no reference

Threads == Writers \cup Readers

VARIABLES
    log,          \* the values granted a place, in the order of the grants
    committed,    \* how many of them are readable
    arg,          \* arg[t]: the value of t's unfinished push
    place,        \* place[t]: the place it was granted, counted from 0, or -1
    known,        \* known[t]: the prefix t is sure to see
    reading,      \* reading[t]: the contents of the reference that t holds
    open          \* the vector has not been dropped

vars == <<log, committed, arg, place, known, reading, open>>

Init ==
    /\ log = <<>>
    /\ committed = 0
    /\ arg = [t \in Threads |-> NoValue]
    /\ place = [t \in Threads |-> -1]
    /\ known = [t \in Threads |-> 0]
    /\ reading = [t \in Threads |-> NoReading]
    /\ open = TRUE

Idle(t) == arg[t] = NoValue

Exclusive == open /\ \A t \in Threads : Idle(t) /\ reading[t] = NoReading

Call(t, v) ==
    /\ open /\ Idle(t)
    /\ arg' = [arg EXCEPT ![t] = v]
    /\ UNCHANGED <<log, committed, place, known, reading, open>>

Refuse(t) ==
    /\ ~Idle(t) /\ place[t] = -1
    /\ Len(log) = Cap
    /\ arg' = [arg EXCEPT ![t] = NoValue]
    /\ UNCHANGED <<log, committed, place, known, reading, open>>

Grant(t) ==
    /\ ~Idle(t) /\ place[t] = -1
    /\ Len(log) < Cap
    /\ place' = [place EXCEPT ![t] = Len(log)]
    /\ log' = Append(log, arg[t])
    /\ UNCHANGED <<committed, arg, known, reading, open>>

Commit(t) ==
    /\ place[t] = committed
    /\ committed' = committed + 1
    /\ known' = [known EXCEPT ![t] = committed + 1]
    /\ arg' = [arg EXCEPT ![t] = NoValue]
    /\ place' = [place EXCEPT ![t] = -1]
    /\ UNCHANGED <<log, reading, open>>

\* t learns that the first k values are readable.
Learn(t, k) ==
    /\ open
    /\ k \in known[t] .. committed
    /\ known' = [known EXCEPT ![t] = k]

Observe(t, k) ==
    /\ Learn(t, k)
    /\ UNCHANGED <<log, committed, arg, place, reading, open>>

\* t borrows the values from place lo up to place hi.
Borrow(t, k, lo, hi) ==
    /\ Learn(t, k)
    /\ Idle(t) /\ reading[t] = NoReading
    /\ hi <= k
    /\ reading' = [reading EXCEPT ![t] = SubSeq(log, lo + 1, hi)]
    /\ UNCHANGED <<log, committed, arg, place, open>>

EndBorrow(t) ==
    /\ reading[t] # NoReading
    /\ reading' = [reading EXCEPT ![t] = NoReading]
    /\ UNCHANGED <<log, committed, arg, place, known, open>>

\* Whoever holds the vector exclusively replaces a value; the others learn of
\* it when they get the vector back.
Edit(i, v) ==
    /\ Exclusive
    /\ i \in 1 .. committed
    /\ log' = [log EXCEPT ![i] = v]
    /\ known' = [t \in Threads |-> committed]
    /\ UNCHANGED <<committed, arg, place, reading, open>>

Close ==
    /\ Exclusive
    /\ open' = FALSE
    /\ UNCHANGED <<log, committed, arg, place, known, reading>>

Next ==
    \/ \E t \in Writers :
          \/ \E v \in Values : Call(t, v)
          \/ Refuse(t)
          \/ Grant(t)
          \/ Commit(t)
    \/ \E t \in Threads :
          \/ \E k \in 0 .. Cap : Observe(t, k)
          \/ \E k, lo, hi \in 0 .. Cap : Borrow(t, k, lo, hi)
          \/ EndBorrow(t)
    \/ \E i \in 1 .. Cap, v \in Values : Edit(i, v)
    \/ Close

Spec == Init /\ [][Next]_vars

=============================================================================
