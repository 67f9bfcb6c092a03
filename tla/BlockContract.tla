---------------------------- MODULE BlockContract ----------------------------
(***************************************************************************)
(* What an allocator promises to the owners of its blocks, as the traits   *)
(* Allocator and GlobalAlloc state it: no addresses, no kernel, no pages.  *)
(* A client has at most one block, a size and bytes that only the client   *)
(* changes.  A call takes effect when it returns, or it fails and leaves   *)
(* the block as it was.                                                    *)
(***************************************************************************)
EXTENDS Integers

CONSTANTS Clients, Sizes,
    Zero,         \* the content of a zeroed byte
    NoRequest     \* the request of a client that is not in a call

VARIABLES
    request,      \* request[c]: the operation that c has called, or NoRequest
    size,         \* size[c]: the size c asked for last, 0 if it has no block
    bytes         \* bytes[c]: the contents of c's block, counted from 0

vars == <<request, size, bytes>>

Length(b) == IF DOMAIN b = {} THEN 0
             ELSE CHOOSE n \in {i + 1 : i \in DOMAIN b} : n \notin DOMAIN b

Empty == [i \in {} |-> Zero]

Init ==
    /\ request = [c \in Clients |-> NoRequest]
    /\ size = [c \in Clients |-> 0]
    /\ bytes = [c \in Clients |-> Empty]

Request(op, old, new) == [op |-> op, old |-> old, new |-> new]

\* The caller hands back a block by a size that fits it.
Legal(c, r) ==
    CASE r.op \in {"allocate", "allocate_zeroed"} -> size[c] = 0
      [] r.op \in {"grow", "grow_zeroed"} ->
             size[c] <= r.old /\ r.old <= Length(bytes[c]) /\ r.old < r.new
      [] r.op = "shrink" ->
             size[c] <= r.old /\ r.old <= Length(bytes[c]) /\ r.new < r.old
      [] r.op = "deallocate" ->
             0 < size[c] /\ size[c] <= r.old /\ r.old <= Length(bytes[c])

Ask(c, r) ==
    /\ request[c] = NoRequest /\ Legal(c, r)
    /\ request' = [request EXCEPT ![c] = r]
    /\ UNCHANGED <<size, bytes>>

\* Only the owner changes the bytes of a block, and not while it is in a call.
Write(c) ==
    /\ request[c] = NoRequest
    /\ bytes' = [bytes EXCEPT ![c] = [i \in DOMAIN @ |-> <<c, i>>]]
    /\ UNCHANGED <<request, size>>

\* What the block that a call returns, of length n and with content at, holds.
Answers(r, old, new) ==
    /\ Length(new) >= r.new
    /\ r.op = "allocate_zeroed" => \A i \in DOMAIN new : new[i] = Zero
    /\ r.op \in {"grow", "grow_zeroed"} => \A i \in 0 .. r.old - 1 : new[i] = old[i]
    /\ r.op = "grow_zeroed" =>
          \A i \in r.old .. r.new - 1 :
              new[i] = Zero \/ (i \in DOMAIN old /\ new[i] = old[i])
    /\ r.op = "shrink" => \A i \in 0 .. r.new - 1 : new[i] = old[i]

Return(c) ==
    LET r == request[c] IN
    /\ r # NoRequest /\ r.op # "deallocate"
    /\ request' = [request EXCEPT ![c] = NoRequest]
    /\ size' = [size EXCEPT ![c] = r.new]
    /\ \A d \in Clients \ {c} : bytes'[d] = bytes[d]
    /\ Answers(r, bytes[c], bytes'[c])

Release(c) ==
    /\ request[c] # NoRequest /\ request[c].op = "deallocate"
    /\ request' = [request EXCEPT ![c] = NoRequest]
    /\ size' = [size EXCEPT ![c] = 0]
    /\ bytes' = [bytes EXCEPT ![c] = Empty]

Fail(c) ==
    /\ request[c] # NoRequest /\ request[c].op # "deallocate"
    /\ request' = [request EXCEPT ![c] = NoRequest]
    /\ UNCHANGED <<size, bytes>>

Ops == {"allocate", "allocate_zeroed", "grow", "grow_zeroed", "shrink", "deallocate"}

Next == \E c \in Clients :
    \/ \E op \in Ops, old, new \in Sizes \cup {0} : Ask(c, Request(op, old, new))
    \/ Write(c) \/ Return(c) \/ Release(c) \/ Fail(c)

Spec == Init /\ [][Next]_vars

=============================================================================
