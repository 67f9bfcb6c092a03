--------------------------- MODULE AppendOnlyVec ---------------------------
(***************************************************************************)
(* AppendOnlyVec<T> of src/src/append_only_vec.rs: a vector of fixed       *)
(* capacity that threads share by reference, push to and read without a    *)
(* lock.  A push claims a slot with a compare_exchange_weak loop on        *)
(* `reserved`, writes its value into the slot, waits until every earlier   *)
(* slot has been published and then stores `published`.                    *)
(*                                                                         *)
(* The two counters are atomics with the orderings the code names, so a    *)
(* thread has a view: how far it has seen each counter advance, and the    *)
(* slots whose initialisation happens before its next step.  A Relaxed     *)
(* load returns any value that is not older than the view.  The Release    *)
(* store of a value of `published` leaves the storing thread's view with   *)
(* that value, and an Acquire load that returns the value joins it.        *)
(* Each counter takes its values one after the other, so its modification  *)
(* order is 0 .. its current value.                                        *)
(*                                                                         *)
(* A value pushed is a token <<t, n>>, the n-th value that thread t makes: *)
(* tokens are distinct, so moves and drops of values can be accounted for. *)
(***************************************************************************)
EXTENDS Integers

CONSTANTS
    Writers,     \* threads that push
    Readers,     \* threads that read; a writer may read too
    Cap,         \* the capacity passed to with_capacity
    MaxValues,   \* bound: how many values one writer makes
    Uninit       \* the content of a slot never written

Threads == Writers \cup Readers

Slots == 0 .. Cap - 1

Tokens == Writers \X (1 .. MaxValues)

ASSUME CapAssumption == Cap \in Nat
ASSUME MaxValuesAssumption == MaxValues \in Nat
ASSUME UninitAssumption == Uninit \notin Tokens

VARIABLES
    reserved,    \* the atomic counter of claims
    published,   \* the atomic counter of readable slots
    commits,     \* commits[k]: the view released with the store of k to published
    slots,       \* the buffer
    view,        \* view[t]: what thread t has seen
    pc,          \* pc[t]: where thread t is inside push
    cur,         \* cur[t]: the local cur of push, once the claim succeeded idx;
                 \* 0 when push has returned
    made,        \* made[t]: how many values t has made
    borrow,      \* borrow[t]: the reference into the buffer that t holds
    drops,       \* drops[v]: how often T::drop has run on value v
    phase,       \* whether the vector is alive, being dropped or gone
    cursor       \* the loop counter of Drop::drop

vars == <<reserved, published, commits, slots, view, pc, cur, made, borrow,
          drops, phase, cursor>>

-----------------------------------------------------------------------------
(* Views *)

Views == [init : SUBSET Slots, res : 0 .. Cap, pub : 0 .. Cap]

EmptyView == [init |-> {}, res |-> 0, pub |-> 0]

SeesReserved(u, k) == [init |-> u.init, res |-> k, pub |-> u.pub]

SeesPublished(u, k) == [init |-> u.init, res |-> u.res, pub |-> k]

SeesSlot(u, i) == [init |-> u.init \cup {i}, res |-> u.res, pub |-> u.pub]

Later(a, b) == IF a >= b THEN a ELSE b

Join(u, v) == [init |-> u.init \cup v.init,
               res  |-> Later(u.res, v.res),
               pub  |-> Later(u.pub, v.pub)]

\* Everything there is to see: the view of whoever holds the vector exclusively.
FullView == [init |-> 0 .. published - 1, res |-> reserved, pub |-> published]

\* Mutant: the load is Relaxed and joins nothing.
AcquirePublished_Relaxed(t, k) ==
    /\ k \in view[t].pub .. published
    /\ view' = [view EXCEPT ![t] = SeesPublished(@, k)]

\* Thread t loads `published` with Acquire and the load returns k.
AcquirePublished(t, k) ==
    /\ k \in view[t].pub .. published
    /\ view' = [view EXCEPT ![t] = Join(SeesPublished(@, k), commits[k])]

-----------------------------------------------------------------------------
(* References and exclusive access *)

\* A reference covers the slots lo .. hi-1; an iterator has yielded those
\* below next.
Reference(lo, hi, next) == [lo |-> lo, hi |-> hi, next |-> next]

NoBorrow == Reference(0, -1, -1)

Borrows == [lo : 0 .. Cap, hi : 0 .. Cap, next : 0 .. Cap] \cup {NoBorrow}

Holds(t) == borrow[t] # NoBorrow

Covered(t) == IF Holds(t) THEN borrow[t].lo .. borrow[t].hi - 1 ELSE {}

\* Mutant: as_mut_slice takes &self.
Exclusive_Shared == phase = "live"

\* No thread is inside a method or holds a reference: what the borrow checker
\* and Arc::get_mut ask of whoever obtains a &mut AppendOnlyVec.
Exclusive ==
    /\ phase = "live"
    /\ \A t \in Threads : pc[t] = "idle" /\ ~Holds(t)

-----------------------------------------------------------------------------
(* The states of push *)

\* The value that t's push carries.
Value(t) == <<t, made[t]>>

\* Mutant: the check lets a writer through when every slot is claimed.
HasRoom_OffByOne(k) == k <= Cap
\* Mutant: the check refuses one slot too early.
HasRoom_LastSlotUnused(k) == k + 1 < Cap

\* The cap check of the claim loop lets a writer that has read k go on.
HasRoom(k) == k < Cap

\* Mutant: the claim is a load and a store instead of an exchange.
IsNewest_PlainStore(k) == TRUE
\* Mutant: a slot is claimed only once all earlier ones are published.
IsNewest_AfterReaders(k) == k = reserved /\ reserved = published

\* compare_exchange_weak(k, ..) can succeed: k is the newest value of `reserved`.
IsNewest(k) == k = reserved

\* Mutant: the writer waits for its own slot to be published.
Awaited_OffByOne(t) == cur[t] + 1
\* Mutant: the writer waits for the slots claimed after its own, too.
Awaited_AllClaimed(t) == reserved - 1

\* The value of `published` for which t spins.
Awaited(t) == cur[t]

\* Mutant: the loop leaves out the last slot.
MoreToDrop_OffByOne == cursor + 1 < published

\* The loop of Drop::drop, for i in 0..len, has a slot left.
MoreToDrop == cursor < published

\* t has claimed slot cur[t] and not yet published it.
InFlight(t) == pc[t] \in {"write", "wait", "commit"}

\* with_capacity
Init ==
    /\ reserved = 0
    /\ published = 0
    /\ commits = [k \in 0 .. Cap |-> EmptyView]
    /\ slots = [i \in Slots |-> Uninit]
    /\ view = [t \in Threads |-> EmptyView]
    /\ pc = [t \in Threads |-> "idle"]
    /\ cur = [t \in Threads |-> 0]
    /\ made = [t \in Threads |-> 0]
    /\ borrow = [t \in Threads |-> NoBorrow]
    /\ drops = [v \in Tokens |-> 0]
    /\ phase = "live"
    /\ cursor = 0

-----------------------------------------------------------------------------
(* push *)

\* A Relaxed read of `reserved` by t returns k, the new value of cur.
ReadReserved(t, k) ==
    /\ k \in view[t].res .. reserved
    /\ view' = [view EXCEPT ![t] = SeesReserved(@, k)]
    /\ cur' = [cur EXCEPT ![t] = k]

\* push is called; let mut cur = self.reserved.load(Relaxed)
PushLoad(t) ==
    /\ phase = "live"
    /\ pc[t] = "idle"
    /\ made[t] < MaxValues
    /\ \E k \in 0 .. reserved : ReadReserved(t, k)
    /\ made' = [made EXCEPT ![t] = @ + 1]
    /\ pc' = [pc EXCEPT ![t] = "claim"]
    /\ UNCHANGED <<reserved, published, commits, slots, borrow, drops, phase, cursor>>

\* if cur >= self.slots.len() { return None }: the value is dropped
PushFull(t) ==
    /\ pc[t] = "claim"
    /\ ~HasRoom(cur[t])
    /\ drops' = [drops EXCEPT ![Value(t)] = @ + 1]
    /\ pc' = [pc EXCEPT ![t] = "idle"]
    /\ cur' = [cur EXCEPT ![t] = 0]
    /\ UNCHANGED <<reserved, published, commits, slots, view, made, borrow, phase,
                   cursor>>

\* compare_exchange_weak succeeds: it read the newest value of `reserved`
PushClaim(t) ==
    /\ pc[t] = "claim"
    /\ HasRoom(cur[t])
    /\ IsNewest(cur[t])
    /\ reserved' = cur[t] + 1
    /\ view' = [view EXCEPT ![t] = SeesReserved(@, cur[t] + 1)]
    /\ pc' = [pc EXCEPT ![t] = "write"]
    /\ UNCHANGED <<published, commits, slots, cur, made, borrow, drops, phase, cursor>>

\* compare_exchange_weak fails and hands back some value of `reserved`, which
\* is cur itself when the failure is spurious
PushRetry(t, k) ==
    /\ pc[t] = "claim"
    /\ HasRoom(cur[t])
    /\ ReadReserved(t, k)
    /\ UNCHANGED <<reserved, published, commits, slots, pc, made, borrow, drops,
                   phase, cursor>>

\* Mutant: the index is read again from `reserved` instead of kept.
PushWrite_RereadsCounter(t) ==
    /\ pc[t] = "write"
    /\ slots' = [slots EXCEPT ![reserved - 1] = Value(t)]
    /\ view' = [view EXCEPT ![t] = SeesSlot(@, reserved - 1)]
    /\ pc' = [pc EXCEPT ![t] = "wait"]
    /\ UNCHANGED <<reserved, published, commits, cur, made, borrow, drops, phase, cursor>>

\* (*self.slots[idx].get()).write(value)
PushWrite(t) ==
    /\ pc[t] = "write"
    /\ slots' = [slots EXCEPT ![cur[t]] = Value(t)]
    /\ view' = [view EXCEPT ![t] = SeesSlot(@, cur[t])]
    /\ pc' = [pc EXCEPT ![t] = "wait"]
    /\ UNCHANGED <<reserved, published, commits, cur, made, borrow, drops, phase, cursor>>

\* while self.published.load(Acquire) != idx { spin_loop() }: another round
PushSpin(t, k) ==
    /\ pc[t] = "wait"
    /\ k # Awaited(t)
    /\ AcquirePublished(t, k)
    /\ UNCHANGED <<reserved, published, commits, slots, pc, cur, made, borrow, drops,
                   phase, cursor>>

\* Mutant: a writer publishes without waiting for its predecessors.
PushTurn_NoWait(t) ==
    /\ pc[t] = "wait"
    /\ pc' = [pc EXCEPT ![t] = "commit"]
    /\ UNCHANGED <<reserved, published, commits, slots, view, cur, made, borrow, drops,
                   phase, cursor>>

\* ... and the load that ends the loop
PushTurn(t) ==
    /\ pc[t] = "wait"
    /\ AcquirePublished(t, Awaited(t))
    /\ pc' = [pc EXCEPT ![t] = "commit"]
    /\ UNCHANGED <<reserved, published, commits, slots, cur, made, borrow, drops,
                   phase, cursor>>

\* self.published.store(idx + 1, Release); Some(idx)
PushCommit(t) ==
    /\ pc[t] = "commit"
    /\ published' = cur[t] + 1
    /\ view' = [view EXCEPT ![t] = SeesPublished(@, cur[t] + 1)]
    /\ commits' = [commits EXCEPT ![cur[t] + 1] = view'[t]]
    /\ pc' = [pc EXCEPT ![t] = "idle"]
    /\ cur' = [cur EXCEPT ![t] = 0]
    /\ UNCHANGED <<reserved, slots, made, borrow, drops, phase, cursor>>

-----------------------------------------------------------------------------
(* Readers *)

\* A read that hands out no reference: count, is_empty, get of an index that
\* is not yet published (None) and indexing there (a panic).
Observe(t, k) ==
    /\ phase = "live"
    /\ pc[t] = "idle"
    /\ AcquirePublished(t, k)
    /\ UNCHANGED <<reserved, published, commits, slots, pc, cur, made, borrow, drops,
                   phase, cursor>>

\* t obtains the reference b after loading k from `published`.
Borrow(t, k, b) ==
    /\ phase = "live"
    /\ pc[t] = "idle"
    /\ ~Holds(t)
    /\ AcquirePublished(t, k)
    /\ borrow' = [borrow EXCEPT ![t] = b]
    /\ UNCHANGED <<reserved, published, commits, slots, pc, cur, made, drops, phase,
                   cursor>>

\* Mutant: the slice is as long as the claims.
AsSlice_ReadsReserved(t, k) == Borrow(t, k, Reference(0, reserved, reserved))

\* as_slice and deref
AsSlice(t, k) == Borrow(t, k, Reference(0, k, k))

\* get of a published index, and indexing
Get(t, i, k) == i < k /\ Borrow(t, k, Reference(i, i + 1, i + 1))

\* iter
NewIter(t, k) == Borrow(t, k, Reference(0, k, 0))

\* Iter::next yields a slot
IterNext(t) ==
    /\ Holds(t)
    /\ pc[t] = "idle"
    /\ borrow[t].next < borrow[t].hi
    /\ borrow' = [borrow EXCEPT ![t] = Reference(@.lo, @.hi, @.next + 1)]
    /\ UNCHANGED <<reserved, published, commits, slots, view, pc, cur, made, drops,
                   phase, cursor>>

\* The reference goes out of scope, at the latest when Iter::next returns None.
EndBorrow(t) ==
    /\ Holds(t)
    /\ pc[t] = "idle"
    /\ borrow' = [borrow EXCEPT ![t] = NoBorrow]
    /\ UNCHANGED <<reserved, published, commits, slots, view, pc, cur, made, drops,
                   phase, cursor>>

-----------------------------------------------------------------------------
(* Exclusive access *)

\* A slot is assigned through as_mut_slice or iter_mut: the old value is
\* dropped.  Whoever then shares the vector again passes on all it has seen.
Edit(t, i) ==
    /\ Exclusive
    /\ made[t] < MaxValues
    /\ i < published
    /\ made' = [made EXCEPT ![t] = @ + 1]
    /\ slots' = [slots EXCEPT ![i] = <<t, made[t] + 1>>]
    /\ drops' = [drops EXCEPT ![slots[i]] = @ + 1]
    /\ view' = [s \in Threads |-> FullView]
    /\ UNCHANGED <<reserved, published, commits, pc, cur, borrow, phase, cursor>>

\* Drop::drop starts
DropBegin ==
    /\ Exclusive
    /\ phase' = "dropping"
    /\ UNCHANGED <<reserved, published, commits, slots, view, pc, cur, made, borrow,
                   drops, cursor>>

\* assume_init_drop of one slot
DropSlot ==
    /\ phase = "dropping"
    /\ MoreToDrop
    /\ drops' = [drops EXCEPT ![slots[cursor]] = @ + 1]
    /\ cursor' = cursor + 1
    /\ UNCHANGED <<reserved, published, commits, slots, view, pc, cur, made, borrow,
                   phase>>

\* the same, when T::drop panics: the loop is unwound and the rest is leaked
DropPanic ==
    /\ phase = "dropping"
    /\ MoreToDrop
    /\ drops' = [drops EXCEPT ![slots[cursor]] = @ + 1]
    /\ cursor' = cursor + 1
    /\ phase' = "unwound"
    /\ UNCHANGED <<reserved, published, commits, slots, view, pc, cur, made, borrow>>

\* the loop ends
DropEnd ==
    /\ phase = "dropping"
    /\ ~MoreToDrop
    /\ phase' = "dropped"
    /\ UNCHANGED <<reserved, published, commits, slots, view, pc, cur, made, borrow,
                   drops, cursor>>

\* Nothing is left to do once the vector is gone.
Gone == phase \in {"dropped", "unwound"} /\ UNCHANGED vars

-----------------------------------------------------------------------------

Push(t) ==
    \/ PushLoad(t)
    \/ PushFull(t)
    \/ PushClaim(t)
    \/ \E k \in 0 .. Cap : PushRetry(t, k)
    \/ PushWrite(t)
    \/ \E k \in 0 .. Cap : PushSpin(t, k)
    \/ PushTurn(t)
    \/ PushCommit(t)

Read(t) ==
    \/ \E k \in 0 .. Cap : Observe(t, k)
    \/ \E k \in 0 .. Cap : AsSlice(t, k)
    \/ \E k \in 0 .. Cap : NewIter(t, k)
    \/ \E i \in Slots, k \in 0 .. Cap : Get(t, i, k)
    \/ IterNext(t)
    \/ EndBorrow(t)

Own ==
    \/ \E t \in Writers, i \in Slots : Edit(t, i)
    \/ DropBegin
    \/ DropSlot
    \/ DropPanic
    \/ DropEnd

Next ==
    \/ \E t \in Writers : Push(t)
    \/ \E t \in Readers : Read(t)
    \/ Own
    \/ Gone

Spec == Init /\ [][Next]_vars

-----------------------------------------------------------------------------
(* Properties *)

\* The variables keep their types.  (Every field of the struct, every local of
\* push and Iter, lines 55-70, 152-195 and 316-319.)
TypeOK ==
    /\ reserved \in 0 .. Cap
    /\ published \in 0 .. Cap
    /\ commits \in [0 .. Cap -> Views]
    /\ slots \in [Slots -> Tokens \cup {Uninit}]
    /\ view \in [Threads -> Views]
    /\ pc \in [Threads -> {"idle", "claim", "write", "wait", "commit"}]
    /\ cur \in [Threads -> 0 .. Cap]
    /\ made \in [Threads -> 0 .. MaxValues]
    /\ borrow \in [Threads -> Borrows]
    /\ drops \in [Tokens -> Nat]
    /\ phase \in {"live", "dropping", "dropped", "unwound"}
    /\ cursor \in 0 .. Cap

\* No claim is lost and none is handed out twice: the claimed slots that are
\* not yet published are the slots of the writers in flight, one writer each
\* ("the cap is enforced exactly and no slot is leaked", lines 134-138).
ClaimsAccounted ==
    /\ published <= reserved
    /\ \A t \in Threads : InFlight(t) => cur[t] \in published .. reserved - 1
    /\ \A i \in published .. reserved - 1 : \E t \in Threads : InFlight(t) /\ cur[t] = i
    /\ \A s, t \in Threads : InFlight(s) /\ InFlight(t) /\ cur[s] = cur[t] => s = t

\* The spin loop compares for equality (186), so a writer that `published` has
\* gone past would spin for ever: it never does, and while any slot is claimed
\* and unpublished, the writer of the first of them need wait for nobody.
SpinCanEnd ==
    /\ \A t \in Threads : pc[t] = "wait" => published <= Awaited(t)
    /\ (\E t \in Threads : InFlight(t)) =>
          \E w \in Threads :
              /\ InFlight(w) /\ cur[w] = published
              /\ pc[w] = "wait" => Awaited(w) \in view[w].pub .. published

\* No data race on a slot: whoever holds a reference has every slot it covers
\* initialised, and initialised before its own next step; a writer about to
\* write a slot has it to itself (the SAFETY comments at lines 174, 204, 221).
NoDataRace ==
    /\ \A t \in Threads : \A i \in Covered(t) : i \in view[t].init /\ slots[i] # Uninit
    /\ \A w \in Threads : pc[w] = "write" =>
          \A t \in Threads : cur[w] \notin Covered(t) \cup view[t].init

\* T::drop runs at most once on a value, and when Drop::drop has run to its end
\* it has run on every value ever made: nothing is dropped twice, and neither a
\* refused push nor a slot between published and reserved leaks one (300-313).
DropExactlyOnce ==
    /\ \A v \in Tokens : drops[v] <= 1
    /\ phase = "dropped" => \A t \in Writers : \A n \in 1 .. made[t] : drops[<<t, n>>] = 1

\* The readable prefix grows by one slot at a time, in the order of the claims,
\* and the slot that becomes readable holds the value of the push that returns
\* its index ("the published prefix shrank" in the test at line 485).
PublishesInClaimOrder ==
    [][published' # published =>
         /\ published' = published + 1
         /\ \E t \in Writers :
               /\ InFlight(t) /\ pc'[t] = "idle"
               /\ cur[t] = published
               /\ slots[published] = Value(t)]_vars

\* A push is refused only when every slot is taken: none is free, and none will
\* ever be given back ("returns None once the cap is reached", lines 42-47).
RefusesOnlyWhenTaken ==
    [][\A t \in Writers : pc[t] = "claim" /\ pc'[t] = "idle" =>
         \A i \in Slots : i < published
                         \/ \E w \in Writers : InFlight(w) /\ cur[w] = i]_vars

\* What a held reference covers does not change until it is given up, whatever
\* writers and the owner do meanwhile (stable borrows, lines 17-21).
BorrowsStable ==
    [][\A t \in Readers : \A i \in Covered(t) :
         Holds(t)' => slots'[i] = slots[i]]_vars

-----------------------------------------------------------------------------
(* The inductive invariant behind the safety properties *)

\* Writers alone push, and nobody is inside the vector once it is dropped.
PhasesOK ==
    /\ \A t \in Threads : pc[t] # "idle" => t \in Writers /\ made[t] > 0
    /\ phase # "live" => \A t \in Threads : pc[t] = "idle" /\ ~Holds(t)
    /\ phase = "live" => cursor = 0
    /\ cursor <= published
    /\ phase = "dropped" => cursor = published

\* A slot is written by the writer that claimed it and by no one else before it
\* is published: it holds that writer's value from then on.
SlotsOK ==
    /\ \A i \in 0 .. published - 1 : slots[i] # Uninit
    /\ \A i \in Slots : i >= reserved => slots[i] = Uninit
    /\ \A t \in Threads :
          /\ pc[t] = "write" => slots[cur[t]] = Uninit
          /\ pc[t] \in {"wait", "commit"} => slots[cur[t]] = Value(t)
          /\ pc[t] = "commit" => cur[t] = published

\* A view never runs ahead of the counters; whoever has seen a value of
\* published has seen the slots below it initialised, and every other slot it
\* has seen initialised is its own.
ViewOK(t) ==
    /\ view[t].res <= reserved
    /\ view[t].pub <= published
    /\ 0 .. view[t].pub - 1 \subseteq view[t].init
    /\ \A i \in view[t].init :
          i < published \/ (pc[t] \in {"wait", "commit"} /\ cur[t] = i)
    /\ pc[t] \in {"wait", "commit"} => cur[t] \in view[t].init
    /\ pc[t] = "commit" => view[t].pub = published
    /\ pc[t] = "claim" => cur[t] <= reserved
    /\ Holds(t) => borrow[t].hi <= view[t].pub

ViewsOK == \A t \in Threads : ViewOK(t)

\* The Release store of k carries the slots below k.
CommitsOK ==
    \A k \in 0 .. published :
        /\ commits[k].res <= reserved
        /\ commits[k].pub = k
        /\ commits[k].init = 0 .. k - 1

Carries(t, v) == pc[t] \in {"claim", "write"} /\ Value(t) = v

\* A value made is carried by a push, or sits in one slot, or has been dropped;
\* one that sits in a slot has been dropped only by the loop of Drop::drop.
ValuesOK ==
    /\ \A i, j \in Slots : slots[i] = slots[j] /\ slots[i] # Uninit => i = j
    /\ \A t \in Writers, n \in 1 .. MaxValues : n > made[t] =>
          drops[<<t, n>>] = 0 /\ \A i \in Slots : slots[i] # <<t, n>>
    /\ \A i \in Slots : slots[i] # Uninit => drops[slots[i]] = IF i < cursor THEN 1 ELSE 0
    /\ \A t \in Writers : pc[t] \in {"claim", "write"} =>
          drops[Value(t)] = 0 /\ \A i \in Slots : slots[i] # Value(t)
    /\ \A t \in Writers : \A n \in 1 .. made[t] :
          \/ Carries(t, <<t, n>>)
          \/ \E i \in Slots : slots[i] = <<t, n>>
          \/ drops[<<t, n>>] = 1

IInv == TypeOK /\ ClaimsAccounted /\ PhasesOK /\ SlotsOK /\ ViewsOK /\ CommitsOK /\ ValuesOK

=============================================================================
