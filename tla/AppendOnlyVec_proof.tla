------------------------ MODULE AppendOnlyVec_proof ------------------------
(***************************************************************************)
(* AppendOnlyVec is safe and implements AppendLog, for every set of        *)
(* threads, every capacity and any number of values: IInv is inductive,    *)
(* one lemma for each action, and the safety properties follow from it.    *)
(*                                                                         *)
(* It also gives what the log needs (LogFacts): a slot in flight has one   *)
(* writer, so it counts with the value of that writer, and no published    *)
(* slot is in flight.  Then each action of the vector is one step of the   *)
(* log or none: the claim appends the value, the write changes no entry,   *)
(* since the entry already counts with the writer's value, and the commit  *)
(* hands the entry over to the slot, which holds that value by then.       *)
(***************************************************************************)
EXTENDS AppendOnlyVecRefinesLog, Sequences, TLAPS

-----------------------------------------------------------------------------
(* Views and values *)

\* The operations on views make views of views.
LEMMA ViewTypes ==
  ASSUME NEW u \in Views, NEW v \in Views, NEW k \in 0 .. Cap
  PROVE  /\ SeesReserved(u, k) \in Views
         /\ SeesPublished(u, k) \in Views
         /\ Join(u, v) \in Views
         /\ \A i \in Slots : SeesSlot(u, i) \in Views
BY DEF Views, SeesReserved, SeesPublished, SeesSlot, Join, Later, Slots

\* A thread inside push is a writer, and the value it carries is a token.
LEMMA PusherWrites ==
  ASSUME IInv, NEW t \in Threads, pc[t] # "idle"
  PROVE  t \in Writers /\ Value(t) \in Tokens /\ Value(t) # Uninit
BY UninitAssumption DEF IInv, TypeOK, PhasesOK, Tokens, Value, Threads

\* What a Relaxed read of `reserved` does to the reading thread's view.
LEMMA ReadReservedView ==
  ASSUME IInv, NEW t \in Threads, NEW k \in 0 .. Cap, ReadReserved(t, k)
  PROVE  /\ k <= reserved
         /\ view' \in [Threads -> Views]
         /\ cur' = [cur EXCEPT ![t] = k]
         /\ \A s \in Threads : s # t => view'[s] = view[s]
         /\ view'[t].init = view[t].init
         /\ view'[t].res = k
         /\ view'[t].pub = view[t].pub
<1>1. view[t] \in Views /\ view' = [view EXCEPT ![t] = SeesReserved(@, k)]
  BY DEF ReadReserved, IInv, TypeOK
<1>2. view'[t] = SeesReserved(view[t], k)
  BY <1>1 DEF IInv, TypeOK
<1>3. k <= reserved
  BY <1>1 DEF ReadReserved, IInv, TypeOK, Views
<1>4. view' \in [Threads -> Views]
  BY <1>1, ViewTypes DEF IInv, TypeOK
<1>5. view'[t].init = view[t].init /\ view'[t].res = k /\ view'[t].pub = view[t].pub
  BY <1>2 DEF SeesReserved
<1>. QED  BY <1>1, <1>3, <1>4, <1>5 DEF ReadReserved, IInv, TypeOK

\* What an Acquire load of `published` that returns k does to the view: the
\* first k slots become visible to the loading thread.
LEMMA AcquireView ==
  ASSUME IInv, NEW t \in Threads, NEW k \in 0 .. Cap, AcquirePublished(t, k)
  PROVE  /\ k <= published /\ view[t].pub <= k
         /\ view' \in [Threads -> Views]
         /\ \A s \in Threads : s # t => view'[s] = view[s]
         /\ view'[t].init = view[t].init \cup 0 .. k - 1
         /\ view'[t].res <= reserved
         /\ view'[t].pub = k
<1>1. view[t] \in Views /\ commits[k] \in Views
  BY DEF IInv, TypeOK
<1>2. k <= published /\ view[t].pub <= k
  BY <1>1 DEF AcquirePublished, IInv, TypeOK, Views
<1>3. commits[k].pub = k /\ commits[k].init = 0 .. k - 1 /\ commits[k].res <= reserved
  BY <1>2 DEF IInv, CommitsOK, TypeOK
<1>4. view' = [view EXCEPT ![t] = Join(SeesPublished(view[t], k), commits[k])]
  BY DEF AcquirePublished
<1>5. view'[t] = Join(SeesPublished(view[t], k), commits[k])
  BY <1>4 DEF IInv, TypeOK
<1>6. view' \in [Threads -> Views]
  BY <1>1, <1>4, ViewTypes DEF IInv, TypeOK
<1>7. view[t].res <= reserved
  BY DEF IInv, ViewsOK, ViewOK
<1>8. /\ view'[t].init = view[t].init \cup commits[k].init
      /\ view'[t].res = Later(view[t].res, commits[k].res)
      /\ view'[t].pub = Later(k, commits[k].pub)
  BY <1>5 DEF Join, SeesPublished
<1>9. view'[t].res <= reserved /\ view'[t].pub = k
  BY <1>8, <1>3, <1>7 DEF Later
<1>. QED  BY <1>2, <1>3, <1>4, <1>6, <1>8, <1>9 DEF IInv, TypeOK

\* A step that moves no value keeps the accounting of values.
LEMMA ValuesUndisturbed ==
  ASSUME IInv, UNCHANGED <<slots, drops, made, cursor>>,
         \A w \in Writers : pc[w] \in {"claim", "write"} <=> pc'[w] \in {"claim", "write"}
  PROVE  ValuesOK'
<1>1. \A w \in Writers : Value(w)' = Value(w)
  BY DEF Value
<1>2. \A w \in Writers : \A n \in 1 .. made[w] : Carries(w, <<w, n>>)' <=> Carries(w, <<w, n>>)
  BY <1>1 DEF Carries
<1>. QED  BY <1>1, <1>2 DEF IInv, ValuesOK

-----------------------------------------------------------------------------
(* The steps of push *)

\* push is called: the caller makes a value and reads `reserved` (line 156).
LEMMA PushLoadStep ==
  ASSUME IInv, NEW t \in Writers, PushLoad(t)
  PROVE  IInv'
<1> PICK k \in 0 .. reserved : ReadReserved(t, k)
  BY DEF PushLoad
<1>0. /\ t \in Threads /\ k \in 0 .. Cap
      /\ made' = [made EXCEPT ![t] = @ + 1]
      /\ pc' = [pc EXCEPT ![t] = "claim"]
      /\ UNCHANGED <<reserved, published, commits, slots, borrow, drops, phase, cursor>>
      /\ phase = "live" /\ pc[t] = "idle" /\ made[t] < MaxValues
  BY CapAssumption DEF PushLoad, IInv, TypeOK, Threads
<1>v. /\ k <= reserved
      /\ view' \in [Threads -> Views]
      /\ cur' = [cur EXCEPT ![t] = k]
      /\ \A s \in Threads : s # t => view'[s] = view[s]
      /\ view'[t].init = view[t].init
      /\ view'[t].res = k
      /\ view'[t].pub = view[t].pub
  BY <1>0, ReadReservedView
<1>1. TypeOK'
  <2>1. made' \in [Threads -> 0 .. MaxValues]
    BY <1>0, MaxValuesAssumption DEF IInv, TypeOK
  <2>. QED  BY <1>0, <1>v, <2>1 DEF IInv, TypeOK
<1>2. ClaimsAccounted'
  BY <1>0, <1>v DEF IInv, TypeOK, ClaimsAccounted, InFlight, Threads
<1>3. PhasesOK'
  BY <1>0, MaxValuesAssumption DEF IInv, TypeOK, PhasesOK, Holds, NoBorrow
<1>4. SlotsOK'
  BY <1>0, <1>v DEF IInv, TypeOK, SlotsOK, Value
<1>5. ViewsOK'
  <2> SUFFICES ASSUME NEW s \in Threads PROVE ViewOK(s)'
    BY DEF ViewsOK
  <2>1. pc'[t] = "claim" /\ cur'[t] = k
    BY <1>0, <1>v DEF IInv, TypeOK
  <2>2. CASE s = t
    BY <2>1, <2>2, <1>0, <1>v DEF IInv, ViewsOK, ViewOK, Holds
  <2>3. CASE s # t
    BY <2>3, <1>0, <1>v DEF IInv, TypeOK, ViewsOK, ViewOK, Holds
  <2>. QED  BY <2>2, <2>3
<1>6. CommitsOK'
  BY <1>0 DEF IInv, CommitsOK
<1>7. ValuesOK'
  <2>1. \A v \in Writers, n \in 1 .. MaxValues : n > made'[v] => n > made[v]
    BY <1>0, MaxValuesAssumption DEF IInv, TypeOK, Threads
  <2>2. \A w \in Writers : w # t => Value(w)' = Value(w) /\ pc'[w] = pc[w] /\ made'[w] = made[w]
    BY <1>0 DEF Value, IInv, TypeOK, Threads
  <2>3. drops[Value(t)'] = 0 /\ \A i \in Slots : slots[i] # Value(t)'
    BY <1>0, MaxValuesAssumption DEF IInv, TypeOK, ValuesOK, Value, Threads
  <2>4. \A n \in 1 .. made'[t] : n \in 1 .. made[t] \/ <<t, n>> = Value(t)'
    BY <1>0, MaxValuesAssumption DEF IInv, TypeOK, Value
  <2>5. \A w \in Writers : \A n \in 1 .. made'[w] :
          \/ Carries(w, <<w, n>>)'
          \/ \E i \in Slots : slots'[i] = <<w, n>>
          \/ drops'[<<w, n>>] = 1
    <3> SUFFICES ASSUME NEW w \in Writers, NEW n \in 1 .. made'[w]
                 PROVE  \/ Carries(w, <<w, n>>)'
                        \/ \E i \in Slots : slots'[i] = <<w, n>>
                        \/ drops'[<<w, n>>] = 1
      OBVIOUS
    <3>1. CASE w = t /\ <<w, n>> = Value(t)'
      BY <3>1, <1>0 DEF Carries, IInv, TypeOK
    <3>2. CASE w = t /\ n \in 1 .. made[t]
      BY <3>2, <1>0 DEF Carries, IInv, ValuesOK
    <3>3. CASE w # t
      BY <3>3, <2>2, <1>0 DEF Carries, IInv, ValuesOK
    <3>. QED  BY <3>1, <3>2, <3>3, <2>4
  <2>6. \A w \in Writers : pc'[w] \in {"claim", "write"} =>
          drops'[Value(w)'] = 0 /\ \A i \in Slots : slots'[i] # Value(w)'
    BY <1>0, <2>2, <2>3 DEF IInv, ValuesOK
  <2>. QED  BY <1>0, <2>1, <2>5, <2>6 DEF IInv, ValuesOK
<1>. QED  BY <1>1, <1>2, <1>3, <1>4, <1>5, <1>6, <1>7 DEF IInv

\* push is refused (lines 158-160): the value it carries is dropped.
LEMMA PushFullStep ==
  ASSUME IInv, NEW t \in Writers, PushFull(t)
  PROVE  IInv'
<1>0. /\ t \in Threads /\ pc[t] = "claim" /\ Value(t) \in Tokens
      /\ drops' = [drops EXCEPT ![Value(t)] = @ + 1]
      /\ pc' = [pc EXCEPT ![t] = "idle"]
      /\ cur' = [cur EXCEPT ![t] = 0]
      /\ UNCHANGED <<reserved, published, commits, slots, view, made, borrow, phase, cursor>>
  BY PusherWrites DEF PushFull, Threads
<1>1. TypeOK'
  <2>1. drops' \in [Tokens -> Nat]
    BY <1>0 DEF IInv, TypeOK
  <2>2. cur' \in [Threads -> 0 .. Cap]
    BY <1>0, CapAssumption DEF IInv, TypeOK
  <2>. QED  BY <1>0, <2>1, <2>2 DEF IInv, TypeOK
<1>2. ClaimsAccounted'
  BY <1>0 DEF IInv, TypeOK, ClaimsAccounted, InFlight, Threads
<1>3. PhasesOK'
  BY <1>0 DEF IInv, TypeOK, PhasesOK, Holds, NoBorrow
<1>4. SlotsOK'
  BY <1>0 DEF IInv, TypeOK, SlotsOK, Value
<1>5. ViewsOK'
  BY <1>0 DEF IInv, TypeOK, ViewsOK, ViewOK, Holds
<1>6. CommitsOK'
  BY <1>0 DEF IInv, CommitsOK
<1>7. ValuesOK'
  <2>1. /\ drops[Value(t)] = 0
        /\ drops'[Value(t)] = 1
        /\ \A i \in Slots : slots[i] # Value(t)
        /\ \A v \in Tokens : v # Value(t) => drops'[v] = drops[v]
    BY <1>0 DEF IInv, ValuesOK, TypeOK
  <2>2. \A w \in Writers : w # t =>
          Value(w) # Value(t) /\ Value(w)' = Value(w) /\ pc'[w] = pc[w]
    BY <1>0 DEF Value, IInv, TypeOK, Threads
  <2>3. \A w \in Writers, n \in 1 .. MaxValues : n > made'[w] =>
          drops'[<<w, n>>] = 0 /\ \A i \in Slots : slots'[i] # <<w, n>>
    BY <1>0, <2>1, MaxValuesAssumption DEF IInv, ValuesOK, Tokens, Value, TypeOK, Threads
  <2>4. \A i \in Slots : slots'[i] # Uninit =>
          drops'[slots'[i]] = IF i < cursor' THEN 1 ELSE 0
    BY <1>0, <2>1 DEF IInv, ValuesOK, TypeOK
  <2>5. \A w \in Writers : pc'[w] \in {"claim", "write"} =>
          drops'[Value(w)'] = 0 /\ \A i \in Slots : slots'[i] # Value(w)'
    <3> SUFFICES ASSUME NEW w \in Writers, pc'[w] \in {"claim", "write"}
                 PROVE  drops'[Value(w)'] = 0 /\ \A i \in Slots : slots'[i] # Value(w)'
      OBVIOUS
    <3>1. w # t /\ w \in Threads /\ pc[w] # "idle"
      BY <1>0, <2>2 DEF IInv, TypeOK, Threads
    <3>2. Value(w) \in Tokens
      BY <3>1, PusherWrites
    <3>. QED  BY <1>0, <2>1, <2>2, <3>1, <3>2 DEF IInv, ValuesOK
  <2>6. \A w \in Writers : \A n \in 1 .. made'[w] :
          \/ Carries(w, <<w, n>>)'
          \/ \E i \in Slots : slots'[i] = <<w, n>>
          \/ drops'[<<w, n>>] = 1
    <3> SUFFICES ASSUME NEW w \in Writers, NEW n \in 1 .. made[w]
                 PROVE  \/ Carries(w, <<w, n>>)'
                        \/ \E i \in Slots : slots'[i] = <<w, n>>
                        \/ drops'[<<w, n>>] = 1
      BY <1>0
    <3>1. CASE <<w, n>> = Value(t)
      BY <3>1, <2>1
    <3>2. CASE <<w, n>> # Value(t)
      <4>1. <<w, n>> \in Tokens
        BY MaxValuesAssumption DEF Tokens, IInv, TypeOK, Threads
      <4>2. Carries(w, <<w, n>>) => Carries(w, <<w, n>>)'
        BY <3>2, <2>2 DEF Carries
      <4>. QED  BY <4>1, <4>2, <3>2, <2>1, <1>0 DEF IInv, ValuesOK
    <3>. QED  BY <3>1, <3>2
  <2>. QED  BY <1>0, <2>3, <2>4, <2>5, <2>6 DEF IInv, ValuesOK
<1>. QED  BY <1>1, <1>2, <1>3, <1>4, <1>5, <1>6, <1>7 DEF IInv

\* The exchange succeeds (lines 161-167): the writer now owns the slot at the
\* old value of `reserved`.
LEMMA PushClaimStep ==
  ASSUME IInv, NEW t \in Writers, PushClaim(t)
  PROVE  IInv'
<1>0. /\ t \in Threads /\ pc[t] = "claim" /\ cur[t] = reserved /\ reserved < Cap
      /\ reserved' = reserved + 1
      /\ view' = [view EXCEPT ![t] = SeesReserved(@, reserved + 1)]
      /\ pc' = [pc EXCEPT ![t] = "write"]
      /\ UNCHANGED <<published, commits, slots, cur, made, borrow, drops, phase, cursor>>
  BY DEF PushClaim, Threads, HasRoom, IsNewest
<1>n. /\ reserved \in 0 .. Cap /\ published \in 0 .. Cap /\ published <= reserved
      /\ reserved' \in 0 .. Cap /\ reserved \in Slots
  BY <1>0, CapAssumption DEF IInv, TypeOK, ClaimsAccounted, Slots
<1>v. /\ view' \in [Threads -> Views]
      /\ \A s \in Threads : s # t => view'[s] = view[s]
      /\ view'[t].init = view[t].init
      /\ view'[t].res = reserved'
      /\ view'[t].pub = view[t].pub
  <2>1. view[t] \in Views /\ view'[t] = SeesReserved(view[t], reserved')
    BY <1>0 DEF IInv, TypeOK
  <2>2. view' \in [Threads -> Views]
    BY <1>0, <1>n, <2>1, ViewTypes DEF IInv, TypeOK
  <2>3. /\ view'[t].init = view[t].init
        /\ view'[t].res = reserved'
        /\ view'[t].pub = view[t].pub
    BY <2>1 DEF SeesReserved
  <2>. QED  BY <1>0, <2>2, <2>3 DEF IInv, TypeOK
<1>1. TypeOK'
  BY <1>0, <1>n, <1>v DEF IInv, TypeOK
<1>2. ClaimsAccounted'
  <2>1. \A s \in Threads : InFlight(s) => cur[s] # reserved
    BY <1>n DEF IInv, TypeOK, ClaimsAccounted
  <2>2. InFlight(t)' /\ \A s \in Threads : s # t => (InFlight(s)' <=> InFlight(s))
    BY <1>0 DEF InFlight, IInv, TypeOK
  <2>3. \A i \in published' .. reserved' - 1 : i \in published .. reserved - 1 \/ i = reserved
    BY <1>0, <1>n
  <2>4. ~InFlight(t)
    BY <1>0 DEF InFlight
  <2>5. \A s \in Threads : InFlight(s)' => cur'[s] \in published' .. reserved' - 1
    BY <1>0, <1>n, <2>2 DEF IInv, ClaimsAccounted
  <2>6. \A i \in published' .. reserved' - 1 : \E s \in Threads : InFlight(s)' /\ cur'[s] = i
    BY <1>0, <2>2, <2>3, <2>4 DEF IInv, ClaimsAccounted
  <2>7. \A r, s \in Threads : InFlight(r)' /\ InFlight(s)' /\ cur'[r] = cur'[s] => r = s
    BY <1>0, <2>1, <2>2 DEF IInv, ClaimsAccounted
  <2>. QED  BY <1>0, <1>n, <2>5, <2>6, <2>7 DEF ClaimsAccounted
<1>3. PhasesOK'
  BY <1>0 DEF IInv, TypeOK, PhasesOK, Holds, NoBorrow
<1>4. SlotsOK'
  <2>1. slots[cur[t]] = Uninit
    BY <1>0, <1>n DEF IInv, SlotsOK
  <2>2. \A i \in Slots : i >= reserved' => i >= reserved
    BY <1>0, <1>n DEF Slots
  <2>. QED  BY <1>0, <1>n, <2>1, <2>2 DEF IInv, TypeOK, SlotsOK, Value
<1>5. ViewsOK'
  <2> SUFFICES ASSUME NEW s \in Threads PROVE ViewOK(s)'
    BY DEF ViewsOK
  <2>1. pc'[t] = "write"
    BY <1>0 DEF IInv, TypeOK
  <2>2. CASE s = t
    BY <2>1, <2>2, <1>0, <1>n, <1>v DEF IInv, ViewsOK, ViewOK, Holds
  <2>3. CASE s # t
    <3>1. view[s].res <= reserved /\ view[s] \in Views /\ cur[s] \in 0 .. Cap
      BY DEF IInv, ViewsOK, ViewOK, TypeOK
    <3>2. view[s].res <= reserved'
      BY <3>1, <1>0, <1>n DEF Views
    <3>3. pc[s] = "claim" => cur[s] <= reserved'
      BY <3>1, <1>0, <1>n DEF IInv, ViewsOK, ViewOK
    <3>. QED  BY <2>3, <3>2, <3>3, <1>0, <1>v DEF IInv, TypeOK, ViewsOK, ViewOK, Holds
  <2>. QED  BY <2>2, <2>3
<1>6. CommitsOK'
  <2>1. \A k \in 0 .. published : commits[k].res <= reserved'
    <3> SUFFICES ASSUME NEW k \in 0 .. published PROVE commits[k].res <= reserved'
      OBVIOUS
    <3>1. commits[k].res <= reserved
      BY DEF IInv, CommitsOK
    <3>2. commits[k] \in Views
      BY <1>n, CapAssumption DEF IInv, TypeOK
    <3>. QED  BY <3>1, <3>2, <1>0, <1>n DEF Views
  <2>. QED  BY <1>0, <2>1 DEF IInv, CommitsOK
<1>7. ValuesOK'
  BY <1>0, ValuesUndisturbed DEF IInv, TypeOK, Threads
<1>. QED  BY <1>1, <1>2, <1>3, <1>4, <1>5, <1>6, <1>7 DEF IInv

\* The exchange fails (line 168).
LEMMA PushRetryStep ==
  ASSUME IInv, NEW t \in Writers, NEW k \in 0 .. Cap, PushRetry(t, k)
  PROVE  IInv'
<1>0. /\ t \in Threads /\ pc[t] = "claim" /\ ReadReserved(t, k)
      /\ UNCHANGED <<reserved, published, commits, slots, pc, made, borrow, drops, phase, cursor>>
  BY DEF PushRetry, Threads
<1>v. /\ k <= reserved
      /\ view' \in [Threads -> Views]
      /\ cur' = [cur EXCEPT ![t] = k]
      /\ \A s \in Threads : s # t => view'[s] = view[s]
      /\ view'[t].init = view[t].init
      /\ view'[t].res = k
      /\ view'[t].pub = view[t].pub
  BY <1>0, ReadReservedView
<1>1. TypeOK'
  BY <1>0, <1>v DEF IInv, TypeOK
<1>2. ClaimsAccounted'
  BY <1>0, <1>v DEF IInv, TypeOK, ClaimsAccounted, InFlight
<1>3. PhasesOK'
  BY <1>0 DEF IInv, PhasesOK, Holds, NoBorrow
<1>4. SlotsOK'
  BY <1>0, <1>v DEF IInv, TypeOK, SlotsOK, Value
<1>5. ViewsOK'
  <2> SUFFICES ASSUME NEW s \in Threads PROVE ViewOK(s)'
    BY DEF ViewsOK
  <2>1. cur'[t] = k
    BY <1>0, <1>v DEF IInv, TypeOK
  <2>2. CASE s = t
    BY <2>1, <2>2, <1>0, <1>v DEF IInv, ViewsOK, ViewOK, Holds
  <2>3. CASE s # t
    BY <2>3, <1>0, <1>v DEF IInv, TypeOK, ViewsOK, ViewOK, Holds
  <2>. QED  BY <2>2, <2>3
<1>6. CommitsOK'
  BY <1>0 DEF IInv, CommitsOK
<1>7. ValuesOK'
  BY <1>0, ValuesUndisturbed
<1>. QED  BY <1>1, <1>2, <1>3, <1>4, <1>5, <1>6, <1>7 DEF IInv

\* The value moves into the claimed slot (lines 176-178).
LEMMA PushWriteStep ==
  ASSUME IInv, NEW t \in Writers, PushWrite(t)
  PROVE  IInv'
<1>0. /\ t \in Threads /\ pc[t] = "write" /\ Value(t) \in Tokens /\ Value(t) # Uninit
      /\ slots' = [slots EXCEPT ![cur[t]] = Value(t)]
      /\ view' = [view EXCEPT ![t] = SeesSlot(@, cur[t])]
      /\ pc' = [pc EXCEPT ![t] = "wait"]
      /\ UNCHANGED <<reserved, published, commits, cur, made, borrow, drops, phase, cursor>>
  BY PusherWrites DEF PushWrite, Threads
<1>n. /\ reserved \in 0 .. Cap /\ published \in 0 .. Cap
      /\ cur[t] \in published .. reserved - 1 /\ cur[t] \in Slots
      /\ slots[cur[t]] = Uninit
      /\ cursor = 0
      /\ slots'[cur[t]] = Value(t)
      /\ \A i \in Slots : i # cur[t] => slots'[i] = slots[i]
  BY <1>0, CapAssumption DEF IInv, TypeOK, ClaimsAccounted, InFlight, Slots, SlotsOK, PhasesOK
<1>v. /\ view' \in [Threads -> Views]
      /\ \A s \in Threads : s # t => view'[s] = view[s]
      /\ view'[t].init = view[t].init \cup {cur[t]}
      /\ view'[t].res = view[t].res
      /\ view'[t].pub = view[t].pub
  <2>1. view[t] \in Views /\ view'[t] = SeesSlot(view[t], cur[t])
    BY <1>0 DEF IInv, TypeOK
  <2>2. SeesSlot(view[t], cur[t]) \in Views
    BY <2>1, <1>n DEF Views, SeesSlot
  <2>3. view' \in [Threads -> Views]
    BY <1>0, <2>2 DEF IInv, TypeOK
  <2>4. /\ view'[t].init = view[t].init \cup {cur[t]}
        /\ view'[t].res = view[t].res
        /\ view'[t].pub = view[t].pub
    BY <2>1 DEF SeesSlot
  <2>. QED  BY <1>0, <2>3, <2>4 DEF IInv, TypeOK
<1>1. TypeOK'
  BY <1>0, <1>n, <1>v DEF IInv, TypeOK
<1>2. ClaimsAccounted'
  BY <1>0 DEF IInv, TypeOK, ClaimsAccounted, InFlight
<1>3. PhasesOK'
  BY <1>0 DEF IInv, TypeOK, PhasesOK, Holds, NoBorrow
<1>4. SlotsOK'
  <2>1. \A i \in 0 .. published' - 1 : slots'[i] # Uninit
    BY <1>0, <1>n, CapAssumption DEF IInv, SlotsOK, Slots
  <2>2. \A i \in Slots : i >= reserved' => slots'[i] = Uninit
    BY <1>0, <1>n DEF IInv, SlotsOK, Slots
  <2>3. \A s \in Threads :
          /\ pc'[s] = "write" => slots'[cur'[s]] = Uninit
          /\ pc'[s] \in {"wait", "commit"} => slots'[cur'[s]] = Value(s)'
          /\ pc'[s] = "commit" => cur'[s] = published'
    <3> SUFFICES ASSUME NEW s \in Threads
                 PROVE  /\ pc'[s] = "write" => slots'[cur'[s]] = Uninit
                        /\ pc'[s] \in {"wait", "commit"} => slots'[cur'[s]] = Value(s)'
                        /\ pc'[s] = "commit" => cur'[s] = published'
      OBVIOUS
    <3>1. CASE s = t
      BY <3>1, <1>0, <1>n DEF IInv, TypeOK, Value
    <3>2. CASE s # t
      <4>1. InFlight(s) => cur[s] # cur[t] /\ cur[s] \in Slots
        BY <3>2, <1>0, <1>n, CapAssumption DEF IInv, ClaimsAccounted, InFlight, Slots
      <4>. QED  BY <4>1, <3>2, <1>0, <1>n DEF IInv, TypeOK, SlotsOK, Value, InFlight
    <3>. QED  BY <3>1, <3>2
  <2>. QED  BY <2>1, <2>2, <2>3 DEF SlotsOK
<1>5. ViewsOK'
  <2> SUFFICES ASSUME NEW s \in Threads PROVE ViewOK(s)'
    BY DEF ViewsOK
  <2>1. pc'[t] = "wait"
    BY <1>0 DEF IInv, TypeOK
  <2>2. CASE s = t
    BY <2>1, <2>2, <1>0, <1>v DEF IInv, ViewsOK, ViewOK, Holds
  <2>3. CASE s # t
    BY <2>3, <1>0, <1>v DEF IInv, TypeOK, ViewsOK, ViewOK, Holds
  <2>. QED  BY <2>2, <2>3
<1>6. CommitsOK'
  BY <1>0 DEF IInv, CommitsOK
<1>7. ValuesOK'
  <2>1. drops[Value(t)] = 0 /\ \A i \in Slots : slots[i] # Value(t)
    BY <1>0 DEF IInv, ValuesOK
  <2>2. \A i, j \in Slots : slots'[i] = slots'[j] /\ slots'[i] # Uninit => i = j
    BY <1>0, <1>n, <2>1 DEF IInv, ValuesOK
  <2>3. \A w \in Writers : w # t => pc'[w] = pc[w] /\ Value(w) # Value(t)
    BY <1>0 DEF Value, IInv, TypeOK, Threads
  <2>4. \A w \in Writers : Value(w)' = Value(w)
    BY <1>0 DEF Value
  <2>5. \A w \in Writers, n \in 1 .. MaxValues : n > made'[w] =>
          drops'[<<w, n>>] = 0 /\ \A i \in Slots : slots'[i] # <<w, n>>
    <3>1. \A w \in Writers, n \in 1 .. MaxValues : n > made[w] => <<w, n>> # Value(t)
      BY MaxValuesAssumption DEF Value, IInv, TypeOK, Threads
    <3>. QED  BY <3>1, <1>0, <1>n DEF IInv, ValuesOK
  <2>6. \A i \in Slots : slots'[i] # Uninit =>
          drops'[slots'[i]] = IF i < cursor' THEN 1 ELSE 0
    BY <1>0, <1>n, <2>1 DEF IInv, ValuesOK, Slots
  <2>7. \A w \in Writers : pc'[w] \in {"claim", "write"} =>
          drops'[Value(w)'] = 0 /\ \A i \in Slots : slots'[i] # Value(w)'
    <3>1. pc'[t] = "wait"
      BY <1>0 DEF IInv, TypeOK
    <3>. QED  BY <3>1, <1>0, <1>n, <2>3, <2>4 DEF IInv, ValuesOK
  <2>8. \A w \in Writers : \A n \in 1 .. made'[w] :
          \/ Carries(w, <<w, n>>)'
          \/ \E i \in Slots : slots'[i] = <<w, n>>
          \/ drops'[<<w, n>>] = 1
    <3> SUFFICES ASSUME NEW w \in Writers, NEW n \in 1 .. made[w]
                 PROVE  \/ Carries(w, <<w, n>>)'
                        \/ \E i \in Slots : slots'[i] = <<w, n>>
                        \/ drops'[<<w, n>>] = 1
      BY <1>0
    <3>1. CASE Carries(w, <<w, n>>)
      <4>1. CASE w = t
        BY <3>1, <4>1, <1>n DEF Carries
      <4>2. CASE w # t
        BY <3>1, <4>2, <2>3, <2>4 DEF Carries
      <4>. QED  BY <4>1, <4>2
    <3>2. CASE \E i \in Slots : slots[i] = <<w, n>>
      <4>1. PICK i \in Slots : slots[i] = <<w, n>>
        BY <3>2
      <4>2. <<w, n>> # Uninit
        BY UninitAssumption, MaxValuesAssumption DEF Tokens, IInv, TypeOK, Threads
      <4>. QED  BY <4>1, <4>2, <1>n
    <3>3. CASE drops[<<w, n>>] = 1
      BY <3>3, <1>0
    <3>. QED  BY <3>1, <3>2, <3>3 DEF IInv, ValuesOK
  <2>. QED  BY <2>2, <2>5, <2>6, <2>7, <2>8 DEF ValuesOK
<1>. QED  BY <1>1, <1>2, <1>3, <1>4, <1>5, <1>6, <1>7 DEF IInv

\* One more round of the spin loop (lines 186-188).
LEMMA PushSpinStep ==
  ASSUME IInv, NEW t \in Writers, NEW k \in 0 .. Cap, PushSpin(t, k)
  PROVE  IInv'
<1>0. /\ t \in Threads /\ pc[t] = "wait" /\ AcquirePublished(t, k)
      /\ UNCHANGED <<reserved, published, commits, slots, pc, cur, made, borrow, drops,
                     phase, cursor>>
  BY DEF PushSpin, Threads
<1>v. /\ k <= published /\ view[t].pub <= k
      /\ view' \in [Threads -> Views]
      /\ \A s \in Threads : s # t => view'[s] = view[s]
      /\ view'[t].init = view[t].init \cup 0 .. k - 1
      /\ view'[t].res <= reserved
      /\ view'[t].pub = k
  BY <1>0, AcquireView
<1>1. TypeOK'
  BY <1>0, <1>v DEF IInv, TypeOK
<1>2. ClaimsAccounted'
  BY <1>0 DEF IInv, ClaimsAccounted, InFlight
<1>3. PhasesOK'
  BY <1>0 DEF IInv, PhasesOK, Holds, NoBorrow
<1>4. SlotsOK'
  BY <1>0 DEF IInv, SlotsOK, Value
<1>5. ViewsOK'
  <2> SUFFICES ASSUME NEW s \in Threads PROVE ViewOK(s)'
    BY DEF ViewsOK
  <2>1. published \in 0 .. Cap /\ cur[t] \in 0 .. Cap
    BY <1>0 DEF IInv, TypeOK
  <2>2. CASE s = t
    BY <2>1, <2>2, <1>0, <1>v DEF IInv, ViewsOK, ViewOK, Holds, TypeOK, Borrows, NoBorrow, Reference, Views
  <2>3. CASE s # t
    BY <2>3, <1>0, <1>v DEF IInv, TypeOK, ViewsOK, ViewOK, Holds
  <2>. QED  BY <2>2, <2>3
<1>6. CommitsOK'
  BY <1>0 DEF IInv, CommitsOK
<1>7. ValuesOK'
  BY <1>0, ValuesUndisturbed
<1>. QED  BY <1>1, <1>2, <1>3, <1>4, <1>5, <1>6, <1>7 DEF IInv

\* The spin loop ends: the writer's slot is the next one to publish (line 186).
LEMMA PushTurnStep ==
  ASSUME IInv, NEW t \in Writers, PushTurn(t)
  PROVE  IInv'
<1>0. /\ t \in Threads /\ pc[t] = "wait" /\ AcquirePublished(t, cur[t])
      /\ cur[t] \in 0 .. Cap /\ published \in 0 .. Cap
      /\ pc' = [pc EXCEPT ![t] = "commit"]
      /\ UNCHANGED <<reserved, published, commits, slots, cur, made, borrow, drops,
                     phase, cursor>>
  BY DEF PushTurn, Awaited, Threads, IInv, TypeOK
<1>v. /\ cur[t] <= published /\ view[t].pub <= cur[t]
      /\ view' \in [Threads -> Views]
      /\ \A s \in Threads : s # t => view'[s] = view[s]
      /\ view'[t].init = view[t].init \cup 0 .. cur[t] - 1
      /\ view'[t].res <= reserved
      /\ view'[t].pub = cur[t]
  BY <1>0, AcquireView
<1>n. cur[t] = published
  BY <1>0, <1>v DEF IInv, ClaimsAccounted, InFlight
<1>1. TypeOK'
  BY <1>0, <1>v DEF IInv, TypeOK
<1>2. ClaimsAccounted'
  <2>1. \A s \in Threads : InFlight(s)' <=> InFlight(s)
    BY <1>0 DEF IInv, TypeOK, InFlight
  <2>. QED  BY <1>0, <2>1 DEF IInv, ClaimsAccounted
<1>3. PhasesOK'
  BY <1>0 DEF IInv, TypeOK, PhasesOK, Holds, NoBorrow
<1>4. SlotsOK'
  BY <1>0, <1>n DEF IInv, TypeOK, SlotsOK, Value
<1>5. ViewsOK'
  <2> SUFFICES ASSUME NEW s \in Threads PROVE ViewOK(s)'
    BY DEF ViewsOK
  <2>1. published \in 0 .. Cap /\ cur[t] \in 0 .. Cap
    BY <1>0 DEF IInv, TypeOK
  <2>2. CASE s = t
    BY <2>1, <2>2, <1>0, <1>n, <1>v DEF IInv, ViewsOK, ViewOK, Holds, TypeOK, Borrows, NoBorrow, Reference, Views
  <2>3. CASE s # t
    BY <2>3, <1>0, <1>v DEF IInv, TypeOK, ViewsOK, ViewOK, Holds
  <2>. QED  BY <2>2, <2>3
<1>6. CommitsOK'
  BY <1>0 DEF IInv, CommitsOK
<1>7. ValuesOK'
  BY <1>0, ValuesUndisturbed DEF IInv, TypeOK, Threads
<1>. QED  BY <1>1, <1>2, <1>3, <1>4, <1>5, <1>6, <1>7 DEF IInv

\* The Release store of published (line 192): the prefix grows by the slot of
\* the writer that stores.
LEMMA PushCommitStep ==
  ASSUME IInv, NEW t \in Writers, PushCommit(t)
  PROVE  IInv'
<1>0. /\ t \in Threads /\ pc[t] = "commit"
      /\ published' = cur[t] + 1
      /\ view' = [view EXCEPT ![t] = SeesPublished(@, cur[t] + 1)]
      /\ commits' = [commits EXCEPT ![cur[t] + 1] = view'[t]]
      /\ pc' = [pc EXCEPT ![t] = "idle"]
      /\ cur' = [cur EXCEPT ![t] = 0]
      /\ UNCHANGED <<reserved, slots, made, borrow, drops, phase, cursor>>
  BY DEF PushCommit, Threads
<1>n. /\ reserved \in 0 .. Cap /\ published \in 0 .. Cap
      /\ cur[t] = published /\ published < reserved
      /\ published' = published + 1
      /\ published' \in 0 .. Cap
      /\ published \in Slots
      /\ slots[published] = Value(t) /\ Value(t) # Uninit
      /\ phase = "live" /\ cursor = 0
  <2>1. /\ reserved \in 0 .. Cap /\ published \in 0 .. Cap
        /\ cur[t] = published /\ slots[cur[t]] = Value(t)
    BY <1>0 DEF IInv, TypeOK, SlotsOK
  <2>2. published < reserved
    BY <1>0, <2>1 DEF IInv, ClaimsAccounted, InFlight
  <2>3. phase = "live" /\ cursor = 0
    BY <1>0 DEF IInv, PhasesOK
  <2>. QED  BY <1>0, <2>1, <2>2, <2>3, CapAssumption, PusherWrites DEF Slots
<1>v. /\ view' \in [Threads -> Views]
      /\ \A s \in Threads : s # t => view'[s] = view[s]
      /\ view'[t].init = view[t].init
      /\ view'[t].res = view[t].res
      /\ view'[t].pub = published'
  <2>1. view[t] \in Views /\ view'[t] = SeesPublished(view[t], published')
    BY <1>0 DEF IInv, TypeOK
  <2>2. view' \in [Threads -> Views]
    BY <1>0, <1>n, <2>1, ViewTypes DEF IInv, TypeOK
  <2>3. /\ view'[t].init = view[t].init
        /\ view'[t].res = view[t].res
        /\ view'[t].pub = published'
    BY <2>1 DEF SeesPublished
  <2>. QED  BY <1>0, <2>2, <2>3 DEF IInv, TypeOK
<1>i. view[t].init = 0 .. published
  <2>1. 0 .. published - 1 \subseteq view[t].init /\ published \in view[t].init
    BY <1>0, <1>n DEF IInv, ViewsOK, ViewOK
  <2>2. \A i \in view[t].init : i \in Slots /\ i <= published
    BY <1>0, <1>n DEF IInv, TypeOK, ViewsOK, ViewOK, Views, Slots
  <2>3. 0 .. published = (0 .. published - 1) \cup {published}
    BY <1>n
  <2>4. \A i \in view[t].init : i \in 0 .. published
    BY <2>2, <1>n DEF Slots
  <2>. QED  BY <2>1, <2>3, <2>4
<1>c. /\ commits' \in [0 .. Cap -> Views]
      /\ commits'[published'] = view'[t]
      /\ \A k \in 0 .. published : commits'[k] = commits[k]
  BY <1>0, <1>n, <1>v DEF IInv, TypeOK
<1>1. TypeOK'
  BY <1>0, <1>n, <1>v, <1>c, CapAssumption DEF IInv, TypeOK
<1>2. ClaimsAccounted'
  <2>1. InFlight(t) /\ ~InFlight(t)'
    BY <1>0 DEF InFlight, IInv, TypeOK
  <2>2. \A s \in Threads : s # t => (InFlight(s)' <=> InFlight(s)) /\ cur'[s] = cur[s]
    BY <1>0 DEF InFlight, IInv, TypeOK
  <2>3. \A s \in Threads : s # t /\ InFlight(s) => cur[s] # published
    BY <1>0, <1>n, <2>1 DEF IInv, ClaimsAccounted
  <2>4. \A s \in Threads : InFlight(s)' => cur'[s] \in published' .. reserved' - 1
    BY <1>0, <1>n, <2>1, <2>2, <2>3 DEF IInv, ClaimsAccounted
  <2>5. \A i \in published' .. reserved' - 1 : \E s \in Threads : InFlight(s)' /\ cur'[s] = i
    <3> SUFFICES ASSUME NEW i \in published' .. reserved' - 1
                 PROVE  \E s \in Threads : InFlight(s)' /\ cur'[s] = i
      OBVIOUS
    <3>1. i \in published .. reserved - 1 /\ i # published
      BY <1>0, <1>n
    <3>2. PICK s \in Threads : InFlight(s) /\ cur[s] = i
      BY <3>1 DEF IInv, ClaimsAccounted
    <3>. QED  BY <3>1, <3>2, <1>n, <2>2
  <2>6. \A r, s \in Threads : InFlight(r)' /\ InFlight(s)' /\ cur'[r] = cur'[s] => r = s
    BY <2>1, <2>2 DEF IInv, ClaimsAccounted
  <2>. QED  BY <1>0, <1>n, <2>4, <2>5, <2>6 DEF ClaimsAccounted
<1>3. PhasesOK'
  BY <1>0, <1>n DEF IInv, TypeOK, PhasesOK, Holds, NoBorrow
<1>4. SlotsOK'
  <2>1. \A i \in 0 .. published' - 1 : slots'[i] # Uninit
    BY <1>0, <1>n DEF IInv, SlotsOK
  <2>2. \A s \in Threads :
          /\ pc'[s] = "write" => slots'[cur'[s]] = Uninit
          /\ pc'[s] \in {"wait", "commit"} => slots'[cur'[s]] = Value(s)'
    BY <1>0 DEF IInv, TypeOK, SlotsOK, Value
  <2>3. \A s \in Threads : s # t => pc[s] # "commit"
    BY <1>0, <1>n DEF IInv, SlotsOK, ClaimsAccounted, InFlight
  <2>4. \A s \in Threads : pc'[s] # "commit"
    BY <1>0, <2>3 DEF IInv, TypeOK
  <2>. QED  BY <1>0, <2>1, <2>2, <2>4 DEF IInv, SlotsOK
<1>5. ViewsOK'
  <2> SUFFICES ASSUME NEW s \in Threads PROVE ViewOK(s)'
    BY DEF ViewsOK
  <2>1. pc'[t] = "idle"
    BY <1>0 DEF IInv, TypeOK
  <2>2. CASE s = t
    <3>1. /\ view'[t].res <= reserved'
          /\ 0 .. view'[t].pub - 1 \subseteq view'[t].init
          /\ \A i \in view'[t].init : i < published'
      BY <1>0, <1>n, <1>v, <1>i DEF IInv, ViewsOK, ViewOK
    <3>2. Holds(t)' => borrow'[t].hi <= view'[t].pub
      <4>1. Holds(t) => borrow[t].hi <= view[t].pub /\ view[t].pub = published
        BY <1>0 DEF IInv, ViewsOK, ViewOK
      <4>2. Holds(t) => borrow[t].hi \in 0 .. Cap
        BY <1>0 DEF IInv, TypeOK, Borrows, Holds
      <4>. QED  BY <4>1, <4>2, <1>0, <1>n, <1>v DEF Holds
    <3>. QED  BY <2>1, <2>2, <3>1, <3>2, <1>0, <1>n, <1>v DEF ViewOK
  <2>3. CASE s # t
    <3>1. view'[s] = view[s] /\ pc'[s] = pc[s] /\ cur'[s] = cur[s]
      BY <2>3, <1>0, <1>v DEF IInv, TypeOK
    <3>2. pc[s] # "commit"
      BY <2>3, <1>0, <1>n DEF IInv, SlotsOK, ClaimsAccounted, InFlight
    <3>3. view[s].pub <= published' /\ \A i \in view[s].init : i < published => i < published'
      BY <1>n DEF IInv, TypeOK, ViewsOK, ViewOK, Views, Slots
    <3>. QED  BY <3>1, <3>2, <3>3, <1>0 DEF IInv, ViewsOK, ViewOK, Holds
  <2>. QED  BY <2>2, <2>3
<1>6. CommitsOK'
  <2>1. view'[t].res <= reserved'
    BY <1>0, <1>v DEF IInv, ViewsOK, ViewOK
  <2>2. view'[t].pub = published' /\ view'[t].init = 0 .. published' - 1
    BY <1>n, <1>v, <1>i
  <2>3. \A k \in 0 .. published' : k \in 0 .. published \/ k = published'
    BY <1>n
  <2>. QED  BY <1>0, <1>c, <2>1, <2>2, <2>3 DEF IInv, CommitsOK
<1>7. ValuesOK'
  BY <1>0, ValuesUndisturbed DEF IInv, TypeOK, Threads
<1>. QED  BY <1>1, <1>2, <1>3, <1>4, <1>5, <1>6, <1>7 DEF IInv

-----------------------------------------------------------------------------
(* The steps of readers *)

\* A read of `published` that hands out no reference.
LEMMA ObserveStep ==
  ASSUME IInv, NEW t \in Readers, NEW k \in 0 .. Cap, Observe(t, k)
  PROVE  IInv'
<1>0. /\ t \in Threads /\ pc[t] = "idle" /\ AcquirePublished(t, k)
      /\ UNCHANGED <<reserved, published, commits, slots, pc, cur, made, borrow, drops,
                     phase, cursor>>
  BY DEF Observe, Threads
<1>v. /\ k <= published /\ view[t].pub <= k
      /\ view' \in [Threads -> Views]
      /\ \A s \in Threads : s # t => view'[s] = view[s]
      /\ view'[t].init = view[t].init \cup 0 .. k - 1
      /\ view'[t].res <= reserved
      /\ view'[t].pub = k
  BY <1>0, AcquireView
<1>1. TypeOK'
  BY <1>0, <1>v DEF IInv, TypeOK
<1>2. ClaimsAccounted'
  BY <1>0 DEF IInv, ClaimsAccounted, InFlight
<1>3. PhasesOK'
  BY <1>0 DEF IInv, PhasesOK, Holds, NoBorrow
<1>4. SlotsOK'
  BY <1>0 DEF IInv, SlotsOK, Value
<1>5. ViewsOK'
  <2> SUFFICES ASSUME NEW s \in Threads PROVE ViewOK(s)'
    BY DEF ViewsOK
  <2>1. published \in 0 .. Cap /\ cur[t] \in 0 .. Cap
    BY <1>0 DEF IInv, TypeOK
  <2>2. CASE s = t
    <3>1. Holds(t) => borrow[t].hi \in 0 .. Cap /\ borrow[t].hi <= view[t].pub
      BY <1>0 DEF IInv, TypeOK, Borrows, Holds, ViewsOK, ViewOK
    <3>2. view[t].pub \in 0 .. Cap
      BY <1>0 DEF IInv, TypeOK, Views
    <3>. QED  BY <2>1, <2>2, <3>1, <3>2, <1>0, <1>v DEF IInv, ViewsOK, ViewOK, Holds
  <2>3. CASE s # t
    BY <2>3, <1>0, <1>v DEF IInv, TypeOK, ViewsOK, ViewOK, Holds
  <2>. QED  BY <2>2, <2>3
<1>6. CommitsOK'
  BY <1>0 DEF IInv, CommitsOK
<1>7. ValuesOK'
  BY <1>0, ValuesUndisturbed
<1>. QED  BY <1>1, <1>2, <1>3, <1>4, <1>5, <1>6, <1>7 DEF IInv

\* A reader obtains a reference to slots below the value it loaded.
LEMMA BorrowStep ==
  ASSUME IInv, NEW t \in Readers, NEW k \in 0 .. Cap, NEW b \in Borrows,
         b.hi <= k, Borrow(t, k, b)
  PROVE  IInv'
<1>0. /\ t \in Threads /\ pc[t] = "idle" /\ phase = "live" /\ AcquirePublished(t, k)
      /\ borrow' = [borrow EXCEPT ![t] = b]
      /\ UNCHANGED <<reserved, published, commits, slots, pc, cur, made, drops, phase, cursor>>
  BY DEF Borrow, Threads
<1>v. /\ k <= published /\ view[t].pub <= k
      /\ view' \in [Threads -> Views]
      /\ \A s \in Threads : s # t => view'[s] = view[s]
      /\ view'[t].init = view[t].init \cup 0 .. k - 1
      /\ view'[t].res <= reserved
      /\ view'[t].pub = k
  BY <1>0, AcquireView
<1>1. TypeOK'
  <2>1. borrow' \in [Threads -> Borrows]
    BY <1>0 DEF IInv, TypeOK
  <2>. QED  BY <1>0, <1>v, <2>1 DEF IInv, TypeOK
<1>2. ClaimsAccounted'
  BY <1>0 DEF IInv, ClaimsAccounted, InFlight
<1>3. PhasesOK'
  BY <1>0 DEF IInv, PhasesOK
<1>4. SlotsOK'
  BY <1>0 DEF IInv, SlotsOK, Value
<1>5. ViewsOK'
  <2> SUFFICES ASSUME NEW s \in Threads PROVE ViewOK(s)'
    BY DEF ViewsOK
  <2>1. published \in 0 .. Cap /\ borrow'[t] = b
    BY <1>0 DEF IInv, TypeOK
  <2>2. CASE s = t
    BY <2>1, <2>2, <1>0, <1>v DEF IInv, ViewsOK, ViewOK
  <2>3. CASE s # t
    BY <2>3, <1>0, <1>v DEF IInv, TypeOK, ViewsOK, ViewOK, Holds
  <2>. QED  BY <2>2, <2>3
<1>6. CommitsOK'
  BY <1>0 DEF IInv, CommitsOK
<1>7. ValuesOK'
  BY <1>0, ValuesUndisturbed
<1>. QED  BY <1>1, <1>2, <1>3, <1>4, <1>5, <1>6, <1>7 DEF IInv

\* Iter::next moves on inside the slice of the iterator.
LEMMA IterNextStep ==
  ASSUME IInv, NEW t \in Readers, IterNext(t)
  PROVE  IInv'
<1>0. /\ t \in Threads /\ Holds(t) /\ borrow[t].next < borrow[t].hi
      /\ borrow' = [borrow EXCEPT ![t] = Reference(@.lo, @.hi, @.next + 1)]
      /\ UNCHANGED <<reserved, published, commits, slots, view, pc, cur, made, drops,
                     phase, cursor>>
  BY DEF IterNext, Threads
<1>b. /\ borrow'[t] = Reference(borrow[t].lo, borrow[t].hi, borrow[t].next + 1)
      /\ borrow'[t].hi = borrow[t].hi
      /\ borrow' \in [Threads -> Borrows]
  <2>1. borrow[t] \in [lo : 0 .. Cap, hi : 0 .. Cap, next : 0 .. Cap]
    BY <1>0 DEF IInv, TypeOK, Borrows, Holds
  <2>2. Reference(borrow[t].lo, borrow[t].hi, borrow[t].next + 1) \in Borrows
    BY <2>1, <1>0, CapAssumption DEF Borrows, Reference
  <2>3. borrow'[t] = Reference(borrow[t].lo, borrow[t].hi, borrow[t].next + 1)
    BY <1>0 DEF IInv, TypeOK
  <2>4. borrow' \in [Threads -> Borrows]
    BY <1>0, <2>2 DEF IInv, TypeOK
  <2>. QED  BY <2>3, <2>4 DEF Reference
<1>1. TypeOK'
  BY <1>0, <1>b DEF IInv, TypeOK
<1>2. ClaimsAccounted'
  BY <1>0 DEF IInv, ClaimsAccounted, InFlight
<1>3. PhasesOK'
  BY <1>0 DEF IInv, PhasesOK
<1>4. SlotsOK'
  BY <1>0 DEF IInv, SlotsOK, Value
<1>5. ViewsOK'
  <2> SUFFICES ASSUME NEW s \in Threads PROVE ViewOK(s)'
    BY DEF ViewsOK
  <2>1. Holds(s)' => Holds(s) /\ borrow'[s].hi = borrow[s].hi
    BY <1>0, <1>b DEF IInv, TypeOK, Holds
  <2>. QED  BY <2>1, <1>0 DEF IInv, ViewsOK, ViewOK
<1>6. CommitsOK'
  BY <1>0 DEF IInv, CommitsOK
<1>7. ValuesOK'
  BY <1>0, ValuesUndisturbed
<1>. QED  BY <1>1, <1>2, <1>3, <1>4, <1>5, <1>6, <1>7 DEF IInv

\* A reference is given up.
LEMMA EndBorrowStep ==
  ASSUME IInv, NEW t \in Readers, EndBorrow(t)
  PROVE  IInv'
<1>0. /\ t \in Threads
      /\ borrow' = [borrow EXCEPT ![t] = NoBorrow]
      /\ UNCHANGED <<reserved, published, commits, slots, view, pc, cur, made, drops,
                     phase, cursor>>
  BY DEF EndBorrow, Threads
<1>b. \A s \in Threads : Holds(s)' => Holds(s) /\ borrow'[s] = borrow[s]
  BY <1>0 DEF IInv, TypeOK, Holds
<1>1. TypeOK'
  <2>1. borrow' \in [Threads -> Borrows]
    BY <1>0 DEF IInv, TypeOK, Borrows
  <2>. QED  BY <1>0, <2>1 DEF IInv, TypeOK
<1>2. ClaimsAccounted'
  BY <1>0 DEF IInv, ClaimsAccounted, InFlight
<1>3. PhasesOK'
  BY <1>0, <1>b DEF IInv, PhasesOK
<1>4. SlotsOK'
  BY <1>0 DEF IInv, SlotsOK, Value
<1>5. ViewsOK'
  BY <1>0, <1>b DEF IInv, ViewsOK, ViewOK
<1>6. CommitsOK'
  BY <1>0 DEF IInv, CommitsOK
<1>7. ValuesOK'
  BY <1>0, ValuesUndisturbed
<1>. QED  BY <1>1, <1>2, <1>3, <1>4, <1>5, <1>6, <1>7 DEF IInv

-----------------------------------------------------------------------------
(* The steps under exclusive access *)

\* A slot is replaced under exclusive access: the old value is dropped.
LEMMA EditStep ==
  ASSUME IInv, NEW t \in Writers, NEW i \in Slots, Edit(t, i)
  PROVE  IInv'
<1>0. /\ t \in Threads /\ made[t] < MaxValues /\ i < published
      /\ phase = "live" /\ \A s \in Threads : pc[s] = "idle" /\ ~Holds(s)
      /\ made' = [made EXCEPT ![t] = @ + 1]
      /\ slots' = [slots EXCEPT ![i] = <<t, made[t] + 1>>]
      /\ drops' = [drops EXCEPT ![slots[i]] = @ + 1]
      /\ view' = [s \in Threads |-> FullView]
      /\ UNCHANGED <<reserved, published, commits, pc, cur, borrow, phase, cursor>>
  BY DEF Edit, Exclusive, Threads
<1> DEFINE new == <<t, made[t] + 1>>
           old == slots[i]
<1>n. /\ published \in 0 .. Cap /\ reserved \in 0 .. Cap /\ published = reserved
      /\ cursor = 0
      /\ i \in Slots /\ i \in 0 .. published - 1
      /\ new \in Tokens /\ new # Uninit
      /\ old \in Tokens /\ old # Uninit
      /\ made[t] + 1 \in 1 .. MaxValues
      /\ made'[t] = made[t] + 1
      /\ \A w \in Writers : w # t => made'[w] = made[w]
  <2>1. published \in 0 .. Cap /\ reserved \in 0 .. Cap /\ published <= reserved /\ cursor = 0
    BY <1>0 DEF IInv, TypeOK, ClaimsAccounted, PhasesOK
  <2>2. ~(published < reserved)
    <3> SUFFICES ASSUME published < reserved PROVE FALSE
      OBVIOUS
    <3>1. published \in published .. reserved - 1
      BY <2>1
    <3>2. PICK s \in Threads : InFlight(s) /\ cur[s] = published
      BY <3>1 DEF IInv, ClaimsAccounted
    <3>. QED  BY <3>2, <1>0 DEF InFlight
  <2>3. made[t] + 1 \in 1 .. MaxValues
    BY <1>0, MaxValuesAssumption DEF IInv, TypeOK
  <2>4. i \in 0 .. published - 1 /\ slots[i] # Uninit /\ slots[i] \in Tokens \cup {Uninit}
    BY <1>0, <2>1, CapAssumption DEF IInv, TypeOK, SlotsOK, Slots
  <2>5. new \in Tokens
    BY <2>3 DEF Tokens
  <2>6. made'[t] = made[t] + 1 /\ \A w \in Writers : w # t => made'[w] = made[w]
    BY <1>0 DEF IInv, TypeOK, Threads
  <2>. QED  BY <1>0, <2>1, <2>2, <2>3, <2>4, <2>5, <2>6, UninitAssumption
<1>s. /\ slots' \in [Slots -> Tokens \cup {Uninit}]
      /\ slots'[i] = new
      /\ \A j \in Slots : j # i => slots'[j] = slots[j]
  BY <1>0, <1>n DEF IInv, TypeOK
<1>d. /\ drops' \in [Tokens -> Nat]
      /\ drops'[old] = drops[old] + 1
      /\ \A v \in Tokens : v # old => drops'[v] = drops[v]
  BY <1>0, <1>n DEF IInv, TypeOK
<1>v. FullView \in Views /\ \A s \in Threads : view'[s] = FullView
  <2>1. FullView \in Views
    BY <1>n, CapAssumption DEF FullView, Views, Slots
  <2>. QED  BY <1>0, <2>1
<1>1. TypeOK'
  <2>1. made' \in [Threads -> 0 .. MaxValues]
    BY <1>0, <1>n, MaxValuesAssumption DEF IInv, TypeOK
  <2>2. view' \in [Threads -> Views]
    BY <1>0, <1>v
  <2>. QED  BY <1>0, <1>s, <1>d, <2>1, <2>2 DEF IInv, TypeOK
<1>2. ClaimsAccounted'
  BY <1>0 DEF IInv, ClaimsAccounted, InFlight
<1>3. PhasesOK'
  BY <1>0 DEF IInv, PhasesOK, Holds
<1>4. SlotsOK'
  <2>1. \A j \in 0 .. published - 1 : slots'[j] # Uninit
    BY <1>n, <1>s, CapAssumption DEF IInv, SlotsOK, Slots
  <2>2. \A j \in Slots : j >= reserved => slots'[j] = Uninit
    BY <1>n, <1>s DEF IInv, SlotsOK, Slots
  <2>. QED  BY <1>0, <2>1, <2>2 DEF SlotsOK
<1>5. ViewsOK'
  <2> SUFFICES ASSUME NEW s \in Threads PROVE ViewOK(s)'
    BY DEF ViewsOK
  <2>1. /\ view'[s].init = 0 .. published - 1
        /\ view'[s].res = reserved
        /\ view'[s].pub = published
    BY <1>v DEF FullView
  <2>. QED  BY <2>1, <1>0, <1>n DEF ViewOK, Holds
<1>6. CommitsOK'
  BY <1>0 DEF IInv, CommitsOK
<1>7. ValuesOK'
  <2>1. drops[new] = 0 /\ \A j \in Slots : slots[j] # new
    <3>1. made[t] + 1 > made[t]
      BY <1>0, MaxValuesAssumption DEF IInv, TypeOK
    <3>. QED  BY <3>1, <1>n DEF IInv, ValuesOK
  <2>2. drops[old] = 0 /\ drops'[old] = 1
    BY <1>n, <1>d DEF IInv, ValuesOK, Slots
  <2>3. new # old
    BY <1>n, <2>1
  <2>4. \A j, k \in Slots : slots'[j] = slots'[k] /\ slots'[j] # Uninit => j = k
    BY <1>s, <2>1 DEF IInv, ValuesOK
  <2>5. \A w \in Writers, n \in 1 .. MaxValues : n > made'[w] =>
          drops'[<<w, n>>] = 0 /\ \A j \in Slots : slots'[j] # <<w, n>>
    <3> SUFFICES ASSUME NEW w \in Writers, NEW n \in 1 .. MaxValues, n > made'[w]
                 PROVE  drops'[<<w, n>>] = 0 /\ \A j \in Slots : slots'[j] # <<w, n>>
      OBVIOUS
    <3>1. n > made[w] /\ <<w, n>> # new
      BY <1>n, MaxValuesAssumption DEF IInv, TypeOK, Threads
    <3>2. drops[<<w, n>>] = 0 /\ \A j \in Slots : slots[j] # <<w, n>>
      BY <3>1 DEF IInv, ValuesOK
    <3>3. <<w, n>> # old /\ <<w, n>> \in Tokens
      BY <3>2, <1>n DEF Tokens
    <3>. QED  BY <3>1, <3>2, <3>3, <1>s, <1>d
  <2>6. \A j \in Slots : slots'[j] # Uninit =>
          drops'[slots'[j]] = IF j < cursor' THEN 1 ELSE 0
    <3> SUFFICES ASSUME NEW j \in Slots, slots'[j] # Uninit
                 PROVE  drops'[slots'[j]] = 0
      BY <1>0, <1>n DEF Slots
    <3>1. CASE j = i
      BY <3>1, <1>n, <1>s, <1>d, <2>1, <2>3
    <3>2. CASE j # i
      <4>1. slots'[j] = slots[j] /\ slots[j] \in Tokens /\ slots[j] # old
        BY <3>2, <1>n, <1>s DEF IInv, TypeOK, ValuesOK
      <4>2. drops[slots[j]] = 0
        BY <4>1, <1>n, UninitAssumption DEF IInv, ValuesOK, Slots
      <4>. QED  BY <4>1, <4>2, <1>d
    <3>. QED  BY <3>1, <3>2
  <2>7. \A w \in Writers : pc'[w] = "idle"
    BY <1>0 DEF Threads
  <2>8. \A w \in Writers : \A n \in 1 .. made'[w] :
          \/ Carries(w, <<w, n>>)'
          \/ \E j \in Slots : slots'[j] = <<w, n>>
          \/ drops'[<<w, n>>] = 1
    <3> SUFFICES ASSUME NEW w \in Writers, NEW n \in 1 .. made'[w]
                 PROVE  (\E j \in Slots : slots'[j] = <<w, n>>) \/ drops'[<<w, n>>] = 1
      OBVIOUS
    <3>1. CASE <<w, n>> = new
      BY <3>1, <1>n, <1>s
    <3>2. CASE <<w, n>> = old
      BY <3>2, <2>2
    <3>3. CASE <<w, n>> # new /\ <<w, n>> # old
      <4>1. n \in 1 .. made[w]
        BY <3>3, <1>n, MaxValuesAssumption DEF IInv, TypeOK, Threads
      <4>2. <<w, n>> \in Tokens
        BY <4>1, MaxValuesAssumption DEF Tokens, IInv, TypeOK, Threads
      <4>3. ~Carries(w, <<w, n>>)
        BY <1>0 DEF Carries, Threads
      <4>4. (\E j \in Slots : slots[j] = <<w, n>>) \/ drops[<<w, n>>] = 1
        BY <4>1, <4>3 DEF IInv, ValuesOK
      <4>. QED  BY <3>3, <4>2, <4>4, <1>s, <1>d
    <3>. QED  BY <3>1, <3>2, <3>3
  <2>. QED  BY <2>4, <2>5, <2>6, <2>7, <2>8 DEF ValuesOK
<1>. QED  BY <1>1, <1>2, <1>3, <1>4, <1>5, <1>6, <1>7 DEF IInv

\* Drop::drop starts.
LEMMA DropBeginStep ==
  ASSUME IInv, DropBegin
  PROVE  IInv'
<1>0. /\ \A t \in Threads : pc[t] = "idle" /\ ~Holds(t)
      /\ phase = "live" /\ phase' = "dropping"
      /\ UNCHANGED <<reserved, published, commits, slots, view, pc, cur, made, borrow, drops,
                     cursor>>
  BY DEF DropBegin, Exclusive
<1>1. TypeOK'
  BY <1>0 DEF IInv, TypeOK
<1>2. ClaimsAccounted'
  BY <1>0 DEF IInv, ClaimsAccounted, InFlight
<1>3. PhasesOK'
  BY <1>0 DEF IInv, PhasesOK, Holds
<1>4. SlotsOK'
  BY <1>0 DEF IInv, SlotsOK, Value
<1>5. ViewsOK'
  BY <1>0 DEF IInv, ViewsOK, ViewOK, Holds
<1>6. CommitsOK'
  BY <1>0 DEF IInv, CommitsOK
<1>7. ValuesOK'
  BY <1>0, ValuesUndisturbed
<1>. QED  BY <1>1, <1>2, <1>3, <1>4, <1>5, <1>6, <1>7 DEF IInv

\* DropSlot and DropPanic drop the value of the slot under the cursor.
LEMMA DropCursorStep ==
  ASSUME IInv, phase = "dropping", cursor < published,
         phase' \in {"dropping", "unwound"},
         cursor' = cursor + 1,
         drops' = [drops EXCEPT ![slots[cursor]] = @ + 1],
         UNCHANGED <<reserved, published, commits, slots, view, pc, cur, made, borrow>>
  PROVE  IInv'
<1> DEFINE old == slots[cursor]
<1>n. /\ published \in 0 .. Cap /\ cursor \in 0 .. published - 1 /\ cursor \in Slots
      /\ cursor + 1 \in 0 .. Cap /\ cursor + 1 <= published
      /\ old \in Tokens /\ old # Uninit
  <2>1. published \in 0 .. Cap /\ cursor \in 0 .. published - 1 /\ cursor \in Slots
    BY CapAssumption DEF IInv, TypeOK, Slots
  <2>2. old \in Tokens \cup {Uninit} /\ old # Uninit
    BY <2>1 DEF IInv, TypeOK, SlotsOK
  <2>. QED  BY <2>1, <2>2, CapAssumption
<1>d. /\ drops' \in [Tokens -> Nat]
      /\ drops[old] = 0
      /\ drops'[old] = 1
      /\ \A v \in Tokens : v # old => drops'[v] = drops[v]
  <2>1. drops[old] = 0
    BY <1>n DEF IInv, ValuesOK, Slots
  <2>. QED  BY <1>n, <2>1 DEF IInv, TypeOK
<1>i. \A t \in Threads : pc[t] = "idle" /\ ~Holds(t)
  BY DEF IInv, PhasesOK
<1>1. TypeOK'
  BY <1>n, <1>d DEF IInv, TypeOK
<1>2. ClaimsAccounted'
  BY DEF IInv, ClaimsAccounted, InFlight
<1>3. PhasesOK'
  BY <1>n, <1>i DEF IInv, PhasesOK, Holds
<1>4. SlotsOK'
  BY DEF IInv, SlotsOK, Value
<1>5. ViewsOK'
  BY DEF IInv, ViewsOK, ViewOK, Holds
<1>6. CommitsOK'
  BY DEF IInv, CommitsOK
<1>7. ValuesOK'
  <2>1. \A w \in Writers, n \in 1 .. MaxValues : n > made'[w] =>
          drops'[<<w, n>>] = 0 /\ \A j \in Slots : slots'[j] # <<w, n>>
    <3> SUFFICES ASSUME NEW w \in Writers, NEW n \in 1 .. MaxValues, n > made[w]
                 PROVE  drops'[<<w, n>>] = 0 /\ \A j \in Slots : slots[j] # <<w, n>>
      OBVIOUS
    <3>1. drops[<<w, n>>] = 0 /\ \A j \in Slots : slots[j] # <<w, n>>
      BY DEF IInv, ValuesOK
    <3>2. <<w, n>> # old /\ <<w, n>> \in Tokens
      BY <3>1, <1>n DEF Tokens
    <3>. QED  BY <3>1, <3>2, <1>d
  <2>2. \A j \in Slots : slots'[j] # Uninit =>
          drops'[slots'[j]] = IF j < cursor' THEN 1 ELSE 0
    <3> SUFFICES ASSUME NEW j \in Slots, slots[j] # Uninit
                 PROVE  drops'[slots[j]] = IF j < cursor + 1 THEN 1 ELSE 0
      OBVIOUS
    <3>1. CASE j = cursor
      BY <3>1, <1>n, <1>d
    <3>2. CASE j # cursor
      <4>1. slots[j] \in Tokens /\ slots[j] # old
        BY <3>2, <1>n DEF IInv, TypeOK, ValuesOK
      <4>2. drops'[slots[j]] = IF j < cursor THEN 1 ELSE 0
        BY <4>1, <1>d DEF IInv, ValuesOK
      <4>. QED  BY <3>2, <4>2, <1>n DEF Slots
    <3>. QED  BY <3>1, <3>2
  <2>3. \A w \in Writers : pc'[w] = "idle"
    BY <1>i DEF Threads
  <2>4. \A w \in Writers : \A n \in 1 .. made'[w] :
          \/ Carries(w, <<w, n>>)'
          \/ \E j \in Slots : slots'[j] = <<w, n>>
          \/ drops'[<<w, n>>] = 1
    <3> SUFFICES ASSUME NEW w \in Writers, NEW n \in 1 .. made[w]
                 PROVE  (\E j \in Slots : slots[j] = <<w, n>>) \/ drops'[<<w, n>>] = 1
      OBVIOUS
    <3>1. <<w, n>> \in Tokens
      BY MaxValuesAssumption DEF Tokens, IInv, TypeOK, Threads
    <3>2. ~Carries(w, <<w, n>>)
      BY <1>i DEF Carries, Threads
    <3>3. (\E j \in Slots : slots[j] = <<w, n>>) \/ drops[<<w, n>>] = 1
      BY <3>2 DEF IInv, ValuesOK
    <3>. QED  BY <3>1, <3>3, <1>d
  <2>. QED  BY <2>1, <2>2, <2>3, <2>4 DEF IInv, ValuesOK
<1>. QED  BY <1>1, <1>2, <1>3, <1>4, <1>5, <1>6, <1>7 DEF IInv

\* Drop::drop ends.
LEMMA DropEndStep ==
  ASSUME IInv, DropEnd
  PROVE  IInv'
<1>0. /\ phase = "dropping" /\ cursor >= published /\ phase' = "dropped"
      /\ UNCHANGED <<reserved, published, commits, slots, view, pc, cur, made, borrow, drops,
                     cursor>>
  BY DEF DropEnd, MoreToDrop, IInv, TypeOK
<1>1. TypeOK'
  BY <1>0 DEF IInv, TypeOK
<1>2. ClaimsAccounted'
  BY <1>0 DEF IInv, ClaimsAccounted, InFlight
<1>3. PhasesOK'
  BY <1>0 DEF IInv, TypeOK, PhasesOK, Holds
<1>4. SlotsOK'
  BY <1>0 DEF IInv, SlotsOK, Value
<1>5. ViewsOK'
  BY <1>0 DEF IInv, ViewsOK, ViewOK, Holds
<1>6. CommitsOK'
  BY <1>0 DEF IInv, CommitsOK
<1>7. ValuesOK'
  BY <1>0, ValuesUndisturbed
<1>. QED  BY <1>1, <1>2, <1>3, <1>4, <1>5, <1>6, <1>7 DEF IInv

-----------------------------------------------------------------------------
(* The invariant *)

\* with_capacity establishes the invariant.
LEMMA InitInvariant == Init => IInv
<1> SUFFICES ASSUME Init PROVE IInv
  OBVIOUS
<1>1. EmptyView \in Views
  BY CapAssumption DEF EmptyView, Views
<1>2. TypeOK
  BY <1>1, CapAssumption, MaxValuesAssumption DEF Init, TypeOK, Borrows
<1>3. ClaimsAccounted
  BY DEF Init, ClaimsAccounted, InFlight
<1>4. PhasesOK
  BY DEF Init, PhasesOK, Holds
<1>5. SlotsOK
  BY DEF Init, SlotsOK
<1>6. ViewsOK
  BY DEF Init, ViewsOK, ViewOK, EmptyView, Holds
<1>7. CommitsOK
  BY CapAssumption DEF Init, CommitsOK, EmptyView
<1>8. ValuesOK
  <2>1. \A w \in Writers, n \in 1 .. MaxValues : <<w, n>> \in Tokens /\ <<w, n>> # Uninit
    BY UninitAssumption DEF Tokens
  <2>. QED  BY <2>1, MaxValuesAssumption DEF Init, ValuesOK, Threads
<1>. QED  BY <1>2, <1>3, <1>4, <1>5, <1>6, <1>7, <1>8 DEF IInv

\* Every step of a reader keeps the invariant.
LEMMA ReadStep ==
  ASSUME IInv, NEW t \in Readers, Read(t)
  PROVE  IInv'
<1>1. ASSUME NEW k \in 0 .. Cap, AsSlice(t, k) PROVE IInv'
  <2>1. Reference(0, k, k) \in Borrows /\ Reference(0, k, k).hi <= k
    BY <1>1, CapAssumption DEF Borrows, Reference
  <2>. QED  BY <1>1, <2>1, BorrowStep DEF AsSlice
<1>2. ASSUME NEW k \in 0 .. Cap, NewIter(t, k) PROVE IInv'
  <2>1. Reference(0, k, 0) \in Borrows /\ Reference(0, k, 0).hi <= k
    BY <1>2, CapAssumption DEF Borrows, Reference
  <2>. QED  BY <1>2, <2>1, BorrowStep DEF NewIter
<1>3. ASSUME NEW i \in Slots, NEW k \in 0 .. Cap, Get(t, i, k) PROVE IInv'
  <2>1. Reference(i, i + 1, i + 1) \in Borrows /\ Reference(i, i + 1, i + 1).hi <= k
    BY <1>3, CapAssumption DEF Borrows, Reference, Slots, Get
  <2>. QED  BY <1>3, <2>1, BorrowStep DEF Get
<1>. QED  BY <1>1, <1>2, <1>3, ObserveStep, IterNextStep, EndBorrowStep DEF Read

\* Every step keeps the invariant.
LEMMA NextInvariant ==
  ASSUME IInv, [Next]_vars
  PROVE  IInv'
<1>1. CASE UNCHANGED vars
  <2>1. ValuesOK'
    BY <1>1, ValuesUndisturbed DEF vars
  <2>. QED
    BY <1>1, <2>1 DEF vars, IInv, TypeOK, ClaimsAccounted, PhasesOK, SlotsOK, ViewsOK, ViewOK,
                      CommitsOK, InFlight, Holds, Value
<1>2. ASSUME NEW t \in Writers, Push(t) PROVE IInv'
  BY <1>2, PushLoadStep, PushFullStep, PushClaimStep, PushRetryStep, PushWriteStep, PushSpinStep,
     PushTurnStep, PushCommitStep DEF Push
<1>3. ASSUME NEW t \in Readers, Read(t) PROVE IInv'
  BY <1>3, ReadStep
<1>4. CASE Own
  <2>1. CASE \E t \in Writers, i \in Slots : Edit(t, i)
    BY <2>1, EditStep
  <2>2. CASE DropBegin
    BY <2>2, DropBeginStep
  <2>3. CASE DropSlot
    BY <2>3, DropCursorStep DEF DropSlot, MoreToDrop
  <2>4. CASE DropPanic
    BY <2>4, DropCursorStep DEF DropPanic, MoreToDrop
  <2>5. CASE DropEnd
    BY <2>5, DropEndStep
  <2>. QED  BY <1>4, <2>1, <2>2, <2>3, <2>4, <2>5 DEF Own
<1>. QED  BY <1>1, <1>2, <1>3, <1>4 DEF Next, Gone

\* IInv, the inductive invariant of AppendOnlyVec, holds in every state.
THEOREM Invariance == Spec => []IInv
BY InitInvariant, NextInvariant, PTL DEF Spec

-----------------------------------------------------------------------------
(* What follows from it *)

\* Every variable keeps its type, for every set of threads and every capacity.
THEOREM Typing == Spec => []TypeOK
<1>1. IInv => TypeOK
  BY DEF IInv
<1>. QED  BY <1>1, Invariance, PTL

\* Two writers never own the same slot and no claimed slot is lost (the exchange
\* loop of lines 156-171).
THEOREM ClaimsNeverLost == Spec => []ClaimsAccounted
<1>1. IInv => ClaimsAccounted
  BY DEF IInv
<1>. QED  BY <1>1, Invariance, PTL

\* No writer spins for a value that `published` has gone past, and the writer of
\* the first unpublished slot need wait for nobody (186-194).
THEOREM TurnsComeUp == Spec => []SpinCanEnd
  <1>1. IInv => SpinCanEnd
    <2> SUFFICES ASSUME IInv PROVE SpinCanEnd
      OBVIOUS
    <2>1. TypeOK /\ ClaimsAccounted /\ ViewsOK
      BY DEF IInv
    <2>2. ASSUME NEW t \in Threads, pc[t] = "wait"
          PROVE  published <= Awaited(t)
      <3>1. cur[t] \in published .. reserved - 1
        BY <2>1, <2>2 DEF ClaimsAccounted, InFlight
      <3> QED
        BY <2>1, <3>1 DEF Awaited, TypeOK
    <2>3. ASSUME NEW t \in Threads, InFlight(t)
          PROVE  \E w \in Threads :
                    /\ InFlight(w) /\ cur[w] = published
                    /\ pc[w] = "wait" => Awaited(w) \in view[w].pub .. published
      <3>1. published \in Nat /\ reserved \in Nat /\ cur[t] \in published .. reserved - 1
        BY <2>1, <2>3, CapAssumption DEF ClaimsAccounted, TypeOK
      <3>2. published \in published .. reserved - 1
        BY <3>1
      <3>3. PICK w \in Threads : InFlight(w) /\ cur[w] = published
        BY <2>1, <3>2 DEF ClaimsAccounted
      <3>4. view[w].pub <= published /\ view[w].pub \in Nat
        BY <2>1, CapAssumption DEF ViewsOK, ViewOK, TypeOK, Views
      <3> QED
        BY <3>1, <3>3, <3>4 DEF Awaited
    <2> QED
      BY <2>2, <2>3 DEF SpinCanEnd
  <1> QED
    BY <1>1, Invariance, PTL

\* A reader only ever covers slots that are initialised, and initialised before
\* its own next step; nobody reads the slot a writer is about to write (the
\* Release and Acquire orderings of lines 186-192, 203 and 217).
THEOREM RaceFreedom == Spec => []NoDataRace
<1>1. IInv => NoDataRace
  <2> SUFFICES ASSUME IInv PROVE NoDataRace
    OBVIOUS
  <2>1. ASSUME NEW t \in Threads, NEW i \in Covered(t)
        PROVE  i \in view[t].init /\ slots[i] # Uninit /\ i \in 0 .. published - 1
    <3>1. Holds(t) /\ borrow[t] \in Borrows /\ borrow[t] # NoBorrow
      BY <2>1 DEF Covered, Holds, IInv, TypeOK
    <3>2. borrow[t].lo \in 0 .. Cap /\ borrow[t].hi \in 0 .. Cap /\ i \in borrow[t].lo .. borrow[t].hi - 1
      BY <2>1, <3>1 DEF Covered, Borrows
    <3>3. view[t].pub \in 0 .. Cap /\ published \in 0 .. Cap
      BY DEF IInv, TypeOK, Views
    <3>4. borrow[t].hi <= view[t].pub /\ view[t].pub <= published
      BY <3>1 DEF IInv, ViewsOK, ViewOK
    <3>5. i \in 0 .. view[t].pub - 1 /\ i \in 0 .. published - 1
      BY <3>2, <3>3, <3>4, CapAssumption
    <3>. QED  BY <3>5 DEF IInv, ViewsOK, ViewOK, SlotsOK
  <2>2. ASSUME NEW w \in Threads, pc[w] = "write", NEW t \in Threads
        PROVE  cur[w] \notin Covered(t) \cup view[t].init
    <3>1. InFlight(w) /\ cur[w] \in published .. reserved - 1
      BY <2>2 DEF InFlight, IInv, ClaimsAccounted
    <3>2. published \in 0 .. Cap
      BY DEF IInv, TypeOK
    <3>3. cur[w] \notin Covered(t)
      BY <2>1, <3>1, <3>2
    <3>4. cur[w] \notin view[t].init
      <4>1. SUFFICES ASSUME cur[w] \in view[t].init PROVE FALSE
        OBVIOUS
      <4>2. pc[t] \in {"wait", "commit"} /\ cur[t] = cur[w]
        BY <3>1, <3>2, <4>1 DEF IInv, ViewsOK, ViewOK
      <4>. QED  BY <2>2, <3>1, <4>2 DEF InFlight, IInv, ClaimsAccounted
    <3>. QED  BY <3>3, <3>4
  <2>. QED  BY <2>1, <2>2 DEF NoDataRace
<1>. QED  BY <1>1, Invariance, PTL

\* No value is dropped twice, and when Drop::drop has run to its end every value
\* has been dropped (lines 158-160 and 300-313).
THEOREM DropsOnce == Spec => []DropExactlyOnce
<1>1. IInv => DropExactlyOnce
  <2> SUFFICES ASSUME IInv PROVE DropExactlyOnce
    OBVIOUS
  <2>1. ASSUME NEW w \in Writers, NEW n \in 1 .. MaxValues
        PROVE  drops[<<w, n>>] <= 1
    <3>1. CASE n > made[w]
      BY <3>1 DEF IInv, ValuesOK
    <3>2. CASE ~(n > made[w])
      <4>1. n \in 1 .. made[w]
        BY <3>2, MaxValuesAssumption DEF IInv, TypeOK, Threads
      <4>2. CASE Carries(w, <<w, n>>)
        BY <4>2 DEF Carries, IInv, ValuesOK
      <4>3. CASE \E i \in Slots : slots[i] = <<w, n>>
        <5>1. PICK i \in Slots : slots[i] = <<w, n>>
          BY <4>3
        <5>2. <<w, n>> # Uninit
          BY UninitAssumption DEF Tokens
        <5>. QED  BY <5>1, <5>2 DEF IInv, ValuesOK
      <4>4. CASE drops[<<w, n>>] = 1
        BY <4>4
      <4>. QED  BY <4>1, <4>2, <4>3, <4>4 DEF IInv, ValuesOK
    <3>. QED  BY <3>1, <3>2
  <2>2. ASSUME phase = "dropped", NEW w \in Writers, NEW n \in 1 .. made[w]
        PROVE  drops[<<w, n>>] = 1
    <3>1. cursor = published /\ \A t \in Threads : pc[t] = "idle"
      BY <2>2 DEF IInv, PhasesOK
    <3>2. published = reserved
      <4>1. published \in 0 .. Cap /\ reserved \in 0 .. Cap /\ published <= reserved
        BY DEF IInv, TypeOK, ClaimsAccounted
      <4>2. published \notin published .. reserved - 1
        BY <3>1 DEF IInv, ClaimsAccounted, InFlight
      <4>. QED  BY <4>1, <4>2
    <3>3. ~Carries(w, <<w, n>>)
      BY <3>1 DEF Carries, Threads
    <3>4. CASE \E i \in Slots : slots[i] = <<w, n>>
      <4>1. PICK i \in Slots : slots[i] = <<w, n>>
        BY <3>4
      <4>2. <<w, n>> # Uninit
        BY UninitAssumption, MaxValuesAssumption DEF Tokens, IInv, TypeOK, Threads
      <4>3. ~(i >= reserved)
        BY <4>1, <4>2 DEF IInv, SlotsOK
      <4>4. i < cursor
        BY <3>1, <3>2, <4>3, CapAssumption DEF IInv, TypeOK, Slots
      <4>. QED  BY <4>1, <4>2, <4>4 DEF IInv, ValuesOK
    <3>. QED  BY <3>3, <3>4 DEF IInv, ValuesOK
  <2>. QED  BY <2>1, <2>2 DEF DropExactlyOnce, Tokens
<1>. QED  BY <1>1, Invariance, PTL

\* The readable prefix grows by one slot at a time, in claim order, and the slot
\* that becomes readable holds the value its writer pushed (lines 186-192).
THEOREM PublicationOrder == Spec => PublishesInClaimOrder
<1>1. ASSUME IInv, [Next]_vars, published' # published
      PROVE  /\ published' = published + 1
             /\ \E t \in Writers : /\ InFlight(t) /\ pc'[t] = "idle"
                                   /\ cur[t] = published
                                   /\ slots[published] = Value(t)
  <2>1. PICK t \in Writers : PushCommit(t)
    BY <1>1 DEF Next, vars, Push, Read, Own, Gone, PushLoad, PushFull, PushClaim, PushRetry,
                PushWrite, PushSpin, PushTurn, Observe, AsSlice, Get, NewIter, Borrow, IterNext,
                EndBorrow, Edit, DropBegin, DropSlot, DropPanic, DropEnd
  <2>2. t \in Threads /\ pc[t] = "commit" /\ InFlight(t)
    BY <2>1 DEF PushCommit, Threads, InFlight
  <2>3. cur[t] = published /\ slots[cur[t]] = Value(t)
    BY <1>1, <2>2 DEF IInv, SlotsOK
  <2>4. published' = cur[t] + 1 /\ pc'[t] = "idle"
    BY <1>1, <2>1, <2>2 DEF PushCommit, IInv, TypeOK
  <2>. QED  BY <2>2, <2>3, <2>4
<1>2. IInv /\ [Next]_vars =>
        [published' # published =>
           /\ published' = published + 1
           /\ \E t \in Writers : /\ InFlight(t) /\ pc'[t] = "idle"
                                 /\ cur[t] = published
                                 /\ slots[published] = Value(t)]_vars
  BY <1>1
<1>. QED  BY <1>2, Invariance, PTL DEF Spec, PublishesInClaimOrder

\* A push is refused only when every slot is published or owned by a writer in
\* flight, although it may have read an old value of `reserved` (lines 156-160).
THEOREM RefusalWhenTaken == Spec => RefusesOnlyWhenTaken
<1>1. ASSUME IInv, [Next]_vars, NEW t \in Writers, pc[t] = "claim", pc'[t] = "idle", NEW i \in Slots
      PROVE  i < published \/ \E w \in Writers : InFlight(w) /\ cur[w] = i
  <2>0. t \in Threads
    BY DEF Threads
  <2>1. PushFull(t)
    BY <1>1, <2>0 DEF Next, vars, Push, Read, Own, Gone, PushLoad, PushFull, PushClaim, PushRetry,
                PushWrite, PushSpin, PushTurn, PushCommit, Observe, AsSlice, Get, NewIter, Borrow,
                IterNext, EndBorrow, Edit, DropBegin, DropSlot, DropPanic, DropEnd, IInv, TypeOK
  <2>2. reserved = Cap /\ published \in 0 .. Cap
    BY <1>1, <2>0, <2>1, CapAssumption DEF PushFull, HasRoom, IInv, TypeOK, ViewsOK, ViewOK
  <2>3. i < published \/ i \in published .. reserved - 1
    BY <2>2, CapAssumption DEF Slots
  <2>4. ASSUME NEW w \in Threads, InFlight(w) PROVE w \in Writers
    BY <1>1, <2>4 DEF InFlight, IInv, PhasesOK
  <2>. QED  BY <1>1, <2>3, <2>4 DEF IInv, ClaimsAccounted
<1>2. IInv /\ [Next]_vars =>
        [\A t \in Writers : pc[t] = "claim" /\ pc'[t] = "idle" =>
           \A i \in Slots : i < published
                           \/ \E w \in Writers : InFlight(w) /\ cur[w] = i]_vars
  BY <1>1
<1>. QED  BY <1>2, Invariance, PTL DEF Spec, RefusesOnlyWhenTaken

\* What a reference covers does not change while the reference is held (lines
\* 17-21, 202-211).
THEOREM StableBorrows == Spec => BorrowsStable
<1>1. ASSUME IInv, Next, NEW t \in Readers, NEW i \in Covered(t)
      PROVE  slots'[i] = slots[i]
  <2>1. Holds(t) /\ t \in Threads
    BY <1>1 DEF Covered, Threads
  <2>2. i \in 0 .. published - 1
    <3>1. borrow[t].lo \in 0 .. Cap /\ borrow[t].hi \in 0 .. Cap
      BY <1>1, <2>1 DEF IInv, TypeOK, Borrows, Holds
    <3>2. view[t].pub \in 0 .. Cap /\ published \in 0 .. Cap
      BY <1>1, <2>1 DEF IInv, TypeOK, Views
    <3>3. borrow[t].hi <= view[t].pub /\ view[t].pub <= published
      BY <1>1, <2>1 DEF IInv, ViewsOK, ViewOK
    <3>. QED  BY <1>1, <2>1, <3>1, <3>2, <3>3, CapAssumption DEF Covered
  <2>3. CASE \E w \in Writers : PushWrite(w)
    <3>1. PICK w \in Writers : PushWrite(w)
      BY <2>3
    <3>2. w \in Threads /\ InFlight(w) /\ slots' = [slots EXCEPT ![cur[w]] = Value(w)]
      BY <3>1 DEF PushWrite, Threads, InFlight
    <3>3. i # cur[w]
      BY <1>1, <2>2, <3>2 DEF IInv, TypeOK, ClaimsAccounted
    <3>. QED  BY <1>1, <2>2, <3>2, <3>3 DEF IInv, TypeOK
  <2>4. CASE \E w \in Writers, j \in Slots : Edit(w, j)
    BY <2>1, <2>4 DEF Edit, Exclusive
  <2>5. CASE UNCHANGED slots
    BY <2>5
  <2>. QED
    BY <1>1, <2>3, <2>4, <2>5
    DEF Next, vars, Push, Read, Own, Gone, PushLoad, PushFull, PushClaim, PushRetry, PushSpin,
        PushTurn, PushCommit, Observe, AsSlice, Get, NewIter, Borrow, IterNext, EndBorrow,
        DropBegin, DropSlot, DropPanic, DropEnd
<1>2. IInv /\ [Next]_vars =>
        [\A t \in Readers : \A i \in Covered(t) : Holds(t)' => slots'[i] = slots[i]]_vars
  BY <1>1
<1>. QED  BY <1>2, Invariance, PTL DEF Spec, BorrowsStable

-----------------------------------------------------------------------------
(* The log *)

Stages == {"idle", "claim", "write", "wait", "commit"}

\* Slot i is claimed and not yet published.
Claimed(i) == \E t \in Writers : InFlight(t) /\ cur[t] = i

\* The log in terms of the slots: a writer in flight is the only one of its slot.
LogOK ==
    /\ \A t \in Writers : InFlight(t) => LogValue(cur[t]) = Value(t)
    /\ \A i \in Int : ~Claimed(i) => LogValue(i) = slots[i]
    /\ \A i \in Int : i < published => ~Claimed(i)
    /\ \A i \in 0 .. reserved - 1 : LogValue(i) \in Tokens
    /\ log \in Seq(Tokens) /\ Len(log) = reserved
    /\ \A i \in 1 .. reserved : log[i] = LogValue(i - 1)

LEMMA LogFacts == IInv => LogOK
<1> SUFFICES ASSUME IInv
             PROVE  LogOK
  OBVIOUS
<1>1. ASSUME NEW t \in Writers, InFlight(t)
      PROVE  LogValue(cur[t]) = Value(t)
  <2>1. \A s \in Writers : InFlight(s) /\ cur[s] = cur[t] => s = t
    BY <1>1 DEF IInv, ClaimsAccounted, Threads
  <2>2. Owner(cur[t]) = t
    BY <1>1, <2>1 DEF Owner
  <2>. QED  BY <1>1, <2>2 DEF LogValue
<1>2. \A i \in Int : ~Claimed(i) => LogValue(i) = slots[i]
  BY DEF LogValue, Claimed
<1>3. \A i \in Int : i < published => ~Claimed(i)
  BY DEF Claimed, IInv, ClaimsAccounted, TypeOK, Threads
<1>4. \A i \in 0 .. reserved - 1 : LogValue(i) \in Tokens
  <2> SUFFICES ASSUME NEW i \in 0 .. reserved - 1
               PROVE  LogValue(i) \in Tokens
    OBVIOUS
  <2>1. CASE Claimed(i)
    <3>1. PICK t \in Writers : InFlight(t) /\ cur[t] = i
      BY <2>1 DEF Claimed
    <3>2. LogValue(i) = Value(t)
      BY <3>1, <1>1
    <3>. QED  BY <3>1, <3>2, PusherWrites DEF InFlight, Threads
  <2>2. CASE ~Claimed(i)
    <3>a. reserved \in 0 .. Cap /\ published \in 0 .. Cap /\ i \in Int
      BY CapAssumption DEF IInv, TypeOK
    <3>b. i \notin published .. reserved - 1
      BY <2>2 DEF Claimed, IInv, ClaimsAccounted, PhasesOK, InFlight
    <3>1. i \in 0 .. published - 1 /\ i \in Slots
      BY <3>a, <3>b, CapAssumption DEF Slots
    <3>. QED  BY <2>2, <3>1, <1>2 DEF IInv, SlotsOK, TypeOK
  <2>. QED  BY <2>1, <2>2
<1>5. /\ log \in Seq(Tokens) /\ Len(log) = reserved
      /\ \A i \in 1 .. reserved : log[i] = LogValue(i - 1)
  <2>1. reserved \in Nat
    BY CapAssumption DEF IInv, TypeOK
  <2>2. \A i \in 1 .. reserved : LogValue(i - 1) \in Tokens
    BY <1>4, <2>1
  <2>. QED  BY <2>1, <2>2 DEF log
<1>. QED  BY <1>1, <1>2, <1>3, <1>4, <1>5 DEF LogOK

LEMMA LogFactsNext == (IInv => LogOK)'
BY LogFacts, PTL

-----------------------------------------------------------------------------
(* What a step leaves alone *)

LEMMA SameLog ==
  ASSUME IInv, reserved' = reserved,
         \A i \in 0 .. reserved - 1 : LogValue(i)' = LogValue(i)
  PROVE  log' = log
<1>1. reserved \in Nat
  BY CapAssumption DEF IInv, TypeOK
<1>2. \A i \in 1 .. reserved : LogValue(i - 1)' = LogValue(i - 1)
  BY <1>1
<1>. QED  BY <1>1, <1>2 DEF log

\* Neither the slots nor who is in flight where changes.
LEMMA NoPushLog ==
  ASSUME IInv, UNCHANGED <<reserved, slots, made>>,
         \A s \in Writers : InFlight(s)' = InFlight(s) /\ (InFlight(s) => cur'[s] = cur[s])
  PROVE  log' = log
<1>1. \A i \in Int, s \in Writers : (InFlight(s) /\ cur[s] = i)' = (InFlight(s) /\ cur[s] = i)
  OBVIOUS
<1>2. \A i \in Int : Owner(i)' = Owner(i) /\ Claimed(i)' = Claimed(i)
  BY <1>1 DEF Owner, Claimed
<1>3. \A i \in Int : LogValue(i)' = LogValue(i)
  BY <1>2 DEF LogValue, Claimed, Value
<1>. QED  BY <1>3, SameLog DEF IInv, TypeOK

\* References that stay, over slots that stay, read the same.
LEMMA SameReading ==
  ASSUME IInv, borrow' = borrow,
         \A s \in Threads : \A i \in Covered(s) : slots'[i] = slots[i]
  PROVE  reading' = reading
<1>1. ASSUME NEW s \in Threads, Holds(s), NEW i \in 1 .. borrow[s].hi - borrow[s].lo
      PROVE  slots'[borrow[s].lo + i - 1] = slots[borrow[s].lo + i - 1]
  <2>1. borrow[s].lo \in 0 .. Cap /\ borrow[s].hi \in 0 .. Cap
    BY <1>1 DEF IInv, TypeOK, Borrows, Holds
  <2>2. borrow[s].lo + i - 1 \in borrow[s].lo .. borrow[s].hi - 1
    BY <2>1, CapAssumption
  <2>. QED  BY <1>1, <2>2 DEF Covered
<1>. QED  BY <1>1 DEF reading, Holds

-----------------------------------------------------------------------------
(* push *)

LEMMA PushLoadLogs ==
  ASSUME IInv, NEW t \in Writers, PushLoad(t)
  PROVE  \E v \in Tokens : Log!Call(t, v)
<1>1. PICK k \in 0 .. reserved : ReadReserved(t, k)
  BY DEF PushLoad
<1>0. /\ t \in Threads /\ k \in 0 .. Cap
      /\ phase = "live" /\ pc[t] = "idle" /\ made[t] < MaxValues
      /\ made' = [made EXCEPT ![t] = @ + 1] /\ made \in [Threads -> 0 .. MaxValues]
      /\ pc' = [pc EXCEPT ![t] = "claim"] /\ pc \in [Threads -> Stages]
      /\ UNCHANGED <<reserved, published, slots, borrow, phase>>
  BY CapAssumption DEF PushLoad, IInv, TypeOK, Threads, Stages
<1>2. /\ \A s \in Threads : s # t => view'[s] = view[s] /\ cur'[s] = cur[s]
      /\ \A s \in Threads : view'[s].pub = view[s].pub
  BY <1>0, <1>1, ReadReservedView DEF IInv, TypeOK
<1>3. \A s \in Threads : InFlight(s)' = InFlight(s) /\ (s # t => Value(s)' = Value(s))
  BY <1>0 DEF InFlight, Value
<1>4. log' = log
  <2>1. \A i \in Int, s \in Writers : (InFlight(s) /\ cur[s] = i)' = (InFlight(s) /\ cur[s] = i)
    BY <1>0, <1>2, <1>3 DEF Threads, InFlight
  <2>2. \A i \in Int : Owner(i)' = Owner(i) /\ Claimed(i)' = Claimed(i)
    BY <2>1 DEF Owner, Claimed
  <2>3. \A i \in Int : Claimed(i) => Owner(i) # t /\ Owner(i) \in Threads
    BY <1>0 DEF Claimed, Owner, InFlight, Threads
  <2>4. \A i \in Int : LogValue(i)' = LogValue(i)
    BY <1>0, <1>3, <2>2, <2>3 DEF LogValue, Claimed
  <2>. QED  BY <1>0, <2>4, SameLog DEF IInv, TypeOK
<1>5. Value(t)' \in Tokens
  BY <1>0, MaxValuesAssumption DEF Tokens, Value
<1>6. arg' = [arg EXCEPT ![t] = Value(t)'] /\ arg[t] = NoValue
  BY <1>0, <1>3 DEF arg
<1>7. place' = place /\ known' = known
  BY <1>0, <1>2, <1>3 DEF place, known, InFlight
<1>8. reading' = reading
  BY <1>0, SameReading
<1>. QED  BY <1>0, <1>4, <1>5, <1>6, <1>7, <1>8 DEF Log!Call, Log!Idle

LEMMA PushFullLogs ==
  ASSUME IInv, NEW t \in Writers, PushFull(t)
  PROVE  Log!Refuse(t)
<1>0. /\ t \in Threads /\ pc[t] = "claim" /\ ~HasRoom(cur[t])
      /\ pc' = [pc EXCEPT ![t] = "idle"] /\ pc \in [Threads -> Stages]
      /\ cur' = [cur EXCEPT ![t] = 0] /\ cur \in [Threads -> 0 .. Cap]
      /\ UNCHANGED <<reserved, published, slots, view, made, borrow, phase>>
  BY DEF PushFull, IInv, TypeOK, Threads, Stages
<1>1. \A s \in Threads : /\ InFlight(s)' = InFlight(s) /\ (InFlight(s) => cur'[s] = cur[s])
                         /\ Value(s)' = Value(s)
  BY <1>0 DEF InFlight, Value
<1>2. log' = log
  BY <1>0, <1>1, NoPushLog DEF Threads
<1>3. Len(log) = Cap
  <2>1. cur[t] <= reserved /\ reserved \in 0 .. Cap /\ cur[t] \in 0 .. Cap
    BY <1>0 DEF IInv, TypeOK, ViewsOK, ViewOK
  <2>2. reserved = Cap
    BY <1>0, <2>1, CapAssumption DEF HasRoom
  <2>. QED  BY <2>2, LogFacts DEF LogOK
<1>4. /\ arg' = [arg EXCEPT ![t] = NoValue] /\ arg[t] # NoValue
      /\ place' = place /\ place[t] = -1 /\ known' = known
  <2>1. arg[t] # NoValue
    BY <1>0, PusherWrites, NoValueAssumption DEF arg
  <2>. QED  BY <1>0, <1>1, <2>1 DEF arg, place, known, InFlight
<1>5. reading' = reading
  BY <1>0, SameReading
<1>. QED  BY <1>0, <1>2, <1>3, <1>4, <1>5 DEF Log!Refuse, Log!Idle

LEMMA PushClaimLogs ==
  ASSUME IInv, IInv', NEW t \in Writers, PushClaim(t)
  PROVE  Log!Grant(t)
<1>0. /\ t \in Threads /\ pc[t] = "claim" /\ HasRoom(cur[t]) /\ cur[t] = reserved
      /\ reserved' = reserved + 1
      /\ view' = [view EXCEPT ![t] = SeesReserved(@, cur[t] + 1)]
      /\ view \in [Threads -> Views]
      /\ pc' = [pc EXCEPT ![t] = "write"] /\ pc \in [Threads -> Stages]
      /\ UNCHANGED <<published, slots, cur, made, borrow, phase>>
      /\ reserved \in Nat /\ reserved < Cap
  BY CapAssumption DEF PushClaim, IsNewest, HasRoom, IInv, TypeOK, Threads, Stages
<1>1. /\ \A s \in Threads : Value(s)' = Value(s) /\ (s # t => InFlight(s)' = InFlight(s))
      /\ InFlight(t)' /\ ~InFlight(t)
  BY <1>0 DEF InFlight, Value
<1>2. LogOK /\ LogOK'
  BY LogFacts, LogFactsNext
<1>3. \A i \in 0 .. reserved - 1 : LogValue(i)' = LogValue(i)
  <2> SUFFICES ASSUME NEW i \in 0 .. reserved - 1
               PROVE  LogValue(i)' = LogValue(i)
    OBVIOUS
  <2>1. CASE Claimed(i)
    <3>1. PICK s \in Writers : InFlight(s) /\ cur[s] = i
      BY <2>1 DEF Claimed
    <3>2. s # t /\ InFlight(s)' /\ cur'[s] = i /\ Value(s)' = Value(s)
      BY <1>0, <1>1, <3>1 DEF Threads
    <3>. QED  BY <1>2, <3>1, <3>2 DEF LogOK
  <2>2. CASE ~Claimed(i)
    <3>1. ~Claimed(i)'
      BY <1>0, <1>1, <2>2 DEF Claimed, Threads
    <3>. QED  BY <1>0, <1>2, <2>2, <3>1 DEF LogOK
  <2>. QED  BY <2>1, <2>2
<1>4. LogValue(cur[t])' = Value(t)
  BY <1>0, <1>1, <1>2 DEF LogOK
<1>5. arg[t] = Value(t) /\ arg' = arg /\ arg[t] # NoValue
  BY <1>0, <1>1, PusherWrites, NoValueAssumption DEF arg
<1>6. log' = Append(log, arg[t])
  <2>1. log \in Seq(Tokens) /\ Len(log) = reserved /\ log' \in Seq(Tokens) /\ Len(log') = reserved + 1
    BY <1>0, <1>2 DEF LogOK
  <2>2. \A i \in 1 .. reserved : log'[i] = log[i]
    <3> SUFFICES ASSUME NEW i \in 1 .. reserved
                 PROVE  log'[i] = log[i]
      OBVIOUS
    <3>1. i - 1 \in 0 .. reserved - 1 /\ i \in 1 .. reserved'
      BY <1>0
    <3>. QED  BY <1>2, <1>3, <3>1 DEF LogOK
  <2>3. log'[reserved + 1] = arg[t]
    <3>1. reserved + 1 \in 1 .. reserved' /\ reserved + 1 - 1 = cur'[t]
      BY <1>0
    <3>. QED  BY <1>2, <1>4, <1>5, <3>1 DEF LogOK
  <2>. QED  BY <1>0, <2>1, <2>2, <2>3
<1>7. place' = [place EXCEPT ![t] = reserved] /\ place[t] = -1
  BY <1>0, <1>1 DEF place
<1>8. known' = known
  BY <1>0 DEF known, SeesReserved
<1>9. reading' = reading
  BY <1>0, SameReading
<1>. QED  BY <1>0, <1>2, <1>5, <1>6, <1>7, <1>8, <1>9 DEF Log!Grant, Log!Idle, LogOK

LEMMA PushRetryLogs ==
  ASSUME IInv, NEW t \in Writers, NEW k \in 0 .. Cap, PushRetry(t, k)
  PROVE  UNCHANGED Log!vars
<1>0. /\ t \in Threads /\ pc[t] = "claim" /\ ReadReserved(t, k)
      /\ UNCHANGED <<reserved, published, slots, pc, made, borrow, phase>>
  BY DEF PushRetry, Threads
<1>1. /\ \A s \in Threads : view'[s].pub = view[s].pub
      /\ \A s \in Threads : s # t => cur'[s] = cur[s]
  BY <1>0, ReadReservedView DEF IInv, TypeOK
<1>2. \A s \in Threads : /\ InFlight(s)' = InFlight(s) /\ (InFlight(s) => cur'[s] = cur[s])
                         /\ Value(s)' = Value(s)
  BY <1>0, <1>1 DEF InFlight, Value
<1>3. log' = log
  BY <1>0, <1>2, NoPushLog DEF Threads
<1>4. arg' = arg /\ place' = place /\ known' = known
  BY <1>0, <1>1, <1>2 DEF arg, place, known
<1>5. reading' = reading
  BY <1>0, SameReading
<1>. QED  BY <1>0, <1>3, <1>4, <1>5 DEF Log!vars

\* The value is in the log from the claim on; the slot is only written now,
\* under no reference.
LEMMA PushWriteLogs ==
  ASSUME IInv, IInv', NEW t \in Writers, PushWrite(t)
  PROVE  UNCHANGED Log!vars
<1>0. /\ t \in Threads /\ pc[t] = "write"
      /\ slots' = [slots EXCEPT ![cur[t]] = Value(t)] /\ slots \in [Slots -> Tokens \cup {Uninit}]
      /\ view' = [view EXCEPT ![t] = SeesSlot(@, cur[t])] /\ view \in [Threads -> Views]
      /\ pc' = [pc EXCEPT ![t] = "wait"] /\ pc \in [Threads -> Stages]
      /\ UNCHANGED <<reserved, published, cur, made, borrow, phase>>
  BY DEF PushWrite, IInv, TypeOK, Threads, Stages
<1>1. \A s \in Threads : InFlight(s)' = InFlight(s) /\ Value(s)' = Value(s)
  BY <1>0 DEF InFlight, Value
<1>2. LogOK /\ LogOK'
  BY LogFacts, LogFactsNext
<1>3. ASSUME NEW i \in 0 .. reserved - 1
      PROVE  LogValue(i)' = LogValue(i)
  <2>1. CASE Claimed(i)
    <3>1. PICK s \in Writers : InFlight(s) /\ cur[s] = i
      BY <2>1 DEF Claimed
    <3>2. InFlight(s)' /\ cur'[s] = i /\ Value(s)' = Value(s)
      BY <1>0, <1>1, <3>1 DEF Threads
    <3>. QED  BY <1>2, <3>1, <3>2 DEF LogOK
  <2>2. CASE ~Claimed(i)
    <3>1. ~Claimed(i)' /\ i # cur[t]
      BY <1>0, <1>1, <2>2 DEF Claimed, Threads, InFlight
    <3>. QED  BY <1>0, <1>2, <2>2, <3>1 DEF LogOK
  <2>. QED  BY <2>1, <2>2
<1>4. log' = log
  BY <1>0, <1>3, SameLog
<1>5. arg' = arg /\ place' = place /\ known' = known
  BY <1>0, <1>1 DEF arg, place, known, SeesSlot
<1>6. reading' = reading
  <2>1. \A s \in Threads : cur[t] \notin Covered(s)
    <3>1. cur[t] >= published /\ cur[t] \in Int /\ published \in Int
      BY <1>0 DEF IInv, TypeOK, ClaimsAccounted, InFlight
    <3>2. ASSUME NEW s \in Threads, Holds(s)
          PROVE  cur[t] \notin borrow[s].lo .. borrow[s].hi - 1
      <4>1. borrow[s].hi <= published /\ borrow[s].hi \in Int /\ borrow[s].lo \in Int
        BY <3>2 DEF IInv, TypeOK, ViewsOK, ViewOK, Views, Borrows, Holds
      <4>. QED  BY <3>1, <4>1
    <3>. QED  BY <3>2 DEF Covered
  <2>. QED  BY <1>0, <2>1, SameReading
<1>. QED  BY <1>0, <1>4, <1>5, <1>6 DEF Log!vars

\* A load of `published` that returns k.
LEMMA LoadLogs ==
  ASSUME IInv, NEW t \in Threads, NEW k \in 0 .. Cap, AcquirePublished(t, k), phase = "live",
         UNCHANGED <<reserved, published, slots, cur, made, phase>>,
         \A s \in Threads : InFlight(s)' = InFlight(s) /\ (pc'[s] = "idle" <=> pc[s] = "idle")
  PROVE  Log!Learn(t, k) /\ UNCHANGED <<log, published, arg, place>>
<1>1. /\ k <= published /\ view[t].pub <= k /\ view'[t].pub = k
      /\ \A s \in Threads : s # t => view'[s] = view[s]
  BY AcquireView
<1>2. known' = [known EXCEPT ![t] = k] /\ known[t] = view[t].pub
  BY <1>1 DEF known
<1>3. view[t].pub \in Int /\ published \in Int
  BY DEF IInv, TypeOK, Views
<1>4. arg' = arg /\ place' = place
  BY DEF arg, place, Value
<1>5. log' = log
  BY NoPushLog DEF Threads
<1>. QED  BY <1>1, <1>2, <1>3, <1>4, <1>5 DEF Log!Learn

LEMMA PushWaitLogs ==
  ASSUME IInv, NEW t \in Writers,
         (\E k \in 0 .. Cap : PushSpin(t, k)) \/ PushTurn(t)
  PROVE  \E k \in 0 .. Cap : Log!Observe(t, k)
<1>1. PICK k \in 0 .. Cap : AcquirePublished(t, k)
  BY DEF PushSpin, PushTurn, Awaited, IInv, TypeOK, Threads
<1>0. /\ t \in Threads /\ pc[t] = "wait"
      /\ pc' \in {pc, [pc EXCEPT ![t] = "commit"]} /\ pc \in [Threads -> Stages]
      /\ UNCHANGED <<reserved, published, slots, cur, made, borrow, phase>>
  BY DEF PushSpin, PushTurn, IInv, TypeOK, Threads, Stages
<1>2. phase = "live"
  BY <1>0 DEF IInv, PhasesOK
<1>3. \A s \in Threads : InFlight(s)' = InFlight(s) /\ (pc'[s] = "idle" <=> pc[s] = "idle")
  BY <1>0 DEF InFlight
<1>4. reading' = reading
  BY <1>0, SameReading
<1>5. Log!Learn(t, k) /\ UNCHANGED <<log, published, arg, place>>
  BY <1>0, <1>1, <1>2, <1>3, LoadLogs
<1>. QED  BY <1>0, <1>4, <1>5 DEF Log!Observe

\* The slot that was logged with the writer's value holds it.
LEMMA PushCommitLogs ==
  ASSUME IInv, IInv', NEW t \in Writers, PushCommit(t)
  PROVE  Log!Commit(t)
<1>0. /\ t \in Threads /\ pc[t] = "commit" /\ InFlight(t)
      /\ published' = cur[t] + 1
      /\ view' = [view EXCEPT ![t] = SeesPublished(@, cur[t] + 1)] /\ view \in [Threads -> Views]
      /\ pc' = [pc EXCEPT ![t] = "idle"] /\ pc \in [Threads -> Stages]
      /\ cur' = [cur EXCEPT ![t] = 0] /\ cur \in [Threads -> 0 .. Cap]
      /\ UNCHANGED <<reserved, slots, made, borrow, phase>>
  BY DEF PushCommit, IInv, TypeOK, Threads, Stages, InFlight
<1>1. /\ \A s \in Threads : /\ Value(s)' = Value(s)
                            /\ s # t => InFlight(s)' = InFlight(s) /\ cur'[s] = cur[s]
      /\ ~InFlight(t)'
  BY <1>0 DEF InFlight, Value
<1>2. LogOK /\ LogOK'
  BY LogFacts, LogFactsNext
<1>3. cur[t] = published /\ slots[cur[t]] = Value(t) /\ published \in Int
  BY <1>0 DEF IInv, SlotsOK, TypeOK
<1>4. ASSUME NEW i \in 0 .. reserved - 1
      PROVE  LogValue(i)' = LogValue(i)
  <2>1. CASE i = cur[t]
    <3>1. ~Claimed(i)'
      BY <1>0, <1>1, <2>1 DEF Claimed, Threads, IInv, ClaimsAccounted
    <3>2. LogValue(i)' = slots[i]
      BY <1>0, <1>2, <3>1 DEF LogOK
    <3>3. LogValue(i) = Value(t)
      BY <1>0, <1>2, <2>1 DEF LogOK
    <3>. QED  BY <1>3, <2>1, <3>2, <3>3
  <2>2. CASE i # cur[t] /\ Claimed(i)
    <3>1. PICK s \in Writers : InFlight(s) /\ cur[s] = i
      BY <2>2 DEF Claimed
    <3>2. InFlight(s)' /\ cur'[s] = i /\ Value(s)' = Value(s)
      BY <1>0, <1>1, <2>2, <3>1 DEF Threads
    <3>. QED  BY <1>2, <3>1, <3>2 DEF LogOK
  <2>3. CASE ~Claimed(i)
    <3>1. ~Claimed(i)' /\ i \in Int
      BY <1>0, <1>1, <2>3 DEF Claimed, Threads
    <3>2. LogValue(i) = slots[i]
      BY <1>2, <2>3, <3>1 DEF LogOK
    <3>3. LogValue(i)' = slots'[i]
      BY <1>2, <3>1 DEF LogOK
    <3>. QED  BY <1>0, <3>2, <3>3
  <2>. QED  BY <2>1, <2>2, <2>3
<1>5. log' = log
  BY <1>0, <1>4, SameLog
<1>6. /\ arg' = [arg EXCEPT ![t] = NoValue]
      /\ place' = [place EXCEPT ![t] = -1] /\ place[t] = published
      /\ known' = [known EXCEPT ![t] = published + 1]
  BY <1>0, <1>1, <1>3 DEF arg, place, known, SeesPublished
<1>7. reading' = reading
  BY <1>0, SameReading
<1>. QED  BY <1>0, <1>3, <1>5, <1>6, <1>7 DEF Log!Commit

-----------------------------------------------------------------------------
(* Readers *)

LEMMA ObserveLogs ==
  ASSUME IInv, NEW t \in Readers, NEW k \in 0 .. Cap, Observe(t, k)
  PROVE  Log!Observe(t, k)
<1>0. /\ t \in Threads /\ phase = "live" /\ AcquirePublished(t, k)
      /\ UNCHANGED <<reserved, published, slots, pc, cur, made, borrow, phase>>
  BY DEF Observe, Threads
<1>1. \A s \in Threads : InFlight(s)' = InFlight(s) /\ (pc'[s] = "idle" <=> pc[s] = "idle")
  BY <1>0 DEF InFlight
<1>2. reading' = reading
  BY <1>0, SameReading
<1>3. Log!Learn(t, k) /\ UNCHANGED <<log, published, arg, place>>
  BY <1>0, <1>1, LoadLogs
<1>. QED  BY <1>0, <1>2, <1>3 DEF Log!Observe

\* A published slot holds the value that the log has for it.
LEMMA PublishedLog ==
  ASSUME IInv, NEW i \in 0 .. published - 1
  PROVE  log[i + 1] = slots[i]
<1>1. reserved \in 0 .. Cap /\ published \in 0 .. Cap /\ published <= reserved
  BY DEF IInv, TypeOK, ClaimsAccounted
<1>2. i + 1 \in 1 .. reserved /\ i \in Int /\ i < published
  BY <1>1, CapAssumption
<1>3. log[i + 1] = LogValue(i)
  BY <1>2, LogFacts DEF LogOK
<1>. QED  BY <1>2, <1>3, LogFacts DEF LogOK

LEMMA BorrowLogs ==
  ASSUME IInv, NEW t \in Readers, NEW k \in 0 .. Cap,
         NEW lo \in 0 .. Cap, NEW hi \in 0 .. k, NEW next \in Int,
         Borrow(t, k, Reference(lo, hi, next))
  PROVE  Log!Borrow(t, k, lo, hi)
<1>0. /\ t \in Threads /\ phase = "live" /\ pc[t] = "idle" /\ ~Holds(t) /\ AcquirePublished(t, k)
      /\ borrow' = [borrow EXCEPT ![t] = Reference(lo, hi, next)] /\ DOMAIN borrow = Threads
      /\ UNCHANGED <<reserved, published, slots, pc, cur, made, phase>>
  BY DEF Borrow, Threads, IInv, TypeOK
<1>1. \A s \in Threads : InFlight(s)' = InFlight(s) /\ (pc'[s] = "idle" <=> pc[s] = "idle")
  BY <1>0 DEF InFlight
<1>2. Log!Learn(t, k) /\ UNCHANGED <<log, published, arg, place>>
  BY <1>0, <1>1, LoadLogs
<1>3. hi <= k /\ hi <= published /\ published <= reserved /\ reserved \in Nat /\ published \in Nat
      /\ hi \in Nat /\ lo \in Nat
  BY <1>0, AcquireView, CapAssumption DEF IInv, TypeOK, ClaimsAccounted
<1>4. /\ borrow'[t].lo = lo /\ borrow'[t].hi = hi /\ Holds(t)'
      /\ \A s \in Threads : s # t => borrow'[s] = borrow[s]
  BY <1>0, <1>3 DEF Holds, Reference, NoBorrow
<1>5. reading'[t] = SubSeq(log, lo + 1, hi)
  <2>1. reading'[t] = [i \in 1 .. hi - lo |-> slots[lo + i - 1]]
    BY <1>0, <1>4 DEF reading
  <2>2. log \in Seq(Tokens) /\ Len(log) = reserved
    BY LogFacts DEF LogOK
  <2>3. ASSUME NEW i \in 1 .. hi - lo
        PROVE  log[lo + i] = slots[lo + i - 1]
    <3>1. lo + i - 1 \in 0 .. published - 1
      BY <1>3
    <3>2. log[lo + i - 1 + 1] = slots[lo + i - 1]
      BY <3>1, PublishedLog
    <3>3. lo + i - 1 + 1 = lo + i
      BY <1>3
    <3>. QED  BY <3>2, <3>3
  <2>4. SubSeq(log, lo + 1, hi) = [i \in 1 .. hi - lo |-> log[lo + i]]
    BY <1>3, <2>2
  <2>. QED  BY <2>1, <2>3, <2>4
<1>6. reading' = [reading EXCEPT ![t] = SubSeq(log, lo + 1, hi)]
  <2>1. \A s \in Threads : s # t => reading'[s] = reading[s]
    BY <1>0, <1>4 DEF reading, Holds
  <2>. QED  BY <1>5, <2>1 DEF reading
<1>7. Log!Idle(t) /\ reading[t] = NoReading
  BY <1>0 DEF Log!Idle, arg, reading
<1>. QED  BY <1>0, <1>2, <1>3, <1>6, <1>7 DEF Log!Borrow

\* References that change only in what an iterator has yielded.
LEMMA SameExtents ==
  ASSUME UNCHANGED <<reserved, published, slots, view, pc, cur, made, phase>>, IInv,
         NEW t \in Threads, Holds(t), Holds(t)', DOMAIN borrow = Threads,
         NEW b, borrow' = [borrow EXCEPT ![t] = b],
         b.lo = borrow[t].lo, b.hi = borrow[t].hi
  PROVE  UNCHANGED Log!vars
<1>1. \A s \in Threads : InFlight(s)' = InFlight(s) /\ Value(s)' = Value(s)
  BY DEF InFlight, Value
<1>2. log' = log
  BY <1>1, NoPushLog DEF Threads
<1>3. arg' = arg /\ place' = place /\ known' = known
  BY <1>1 DEF arg, place, known
<1>4. \A s \in Threads : Holds(s)' = Holds(s) /\ borrow'[s].lo = borrow[s].lo
                                             /\ borrow'[s].hi = borrow[s].hi
  BY DEF Holds
<1>5. reading' = reading
  BY <1>4 DEF reading
<1>. QED  BY <1>2, <1>3, <1>5 DEF Log!vars

LEMMA IterNextLogs ==
  ASSUME IInv, NEW t \in Readers, IterNext(t)
  PROVE  UNCHANGED Log!vars
<1> DEFINE b == Reference(borrow[t].lo, borrow[t].hi, borrow[t].next + 1)
<1>0. /\ t \in Threads /\ DOMAIN borrow = Threads /\ Holds(t)
      /\ borrow' = [borrow EXCEPT ![t] = b]
      /\ UNCHANGED <<reserved, published, slots, view, pc, cur, made, phase>>
  BY DEF IterNext, Threads, IInv, TypeOK
<1>1. b.lo = borrow[t].lo /\ b.hi = borrow[t].hi /\ b.next = borrow[t].next + 1
  BY DEF Reference
<1>2. Holds(t)'
  <2>1. borrow[t].hi \in 0 .. Cap /\ NoBorrow.hi = -1 /\ borrow'[t] = b
    BY <1>0 DEF IInv, TypeOK, Borrows, Holds, NoBorrow, Reference
  <2>2. b # NoBorrow
    BY <1>1, <2>1, CapAssumption
  <2>. QED  BY <2>1, <2>2 DEF Holds
<1>. HIDE DEF b
<1>. QED  BY <1>0, <1>1, <1>2, SameExtents

LEMMA EndBorrowLogs ==
  ASSUME IInv, NEW t \in Readers, EndBorrow(t)
  PROVE  Log!EndBorrow(t) \/ UNCHANGED Log!vars
<1>0. /\ t \in Threads /\ DOMAIN borrow = Threads
      /\ borrow' = [borrow EXCEPT ![t] = NoBorrow]
      /\ UNCHANGED <<reserved, published, slots, view, pc, cur, made, phase>>
  BY DEF EndBorrow, Threads, IInv, TypeOK
<1>1. \A s \in Threads : InFlight(s)' = InFlight(s) /\ Value(s)' = Value(s)
  BY <1>0 DEF InFlight, Value
<1>2. log' = log
  BY <1>0, <1>1, NoPushLog DEF Threads
<1>3. arg' = arg /\ place' = place /\ known' = known
  BY <1>0, <1>1 DEF arg, place, known
<1>4. reading' = [reading EXCEPT ![t] = NoReading]
  BY <1>0 DEF reading, Holds
<1>5. CASE reading[t] = NoReading
  BY <1>0, <1>2, <1>3, <1>4, <1>5 DEF Log!vars, reading
<1>6. CASE reading[t] # NoReading
  BY <1>0, <1>2, <1>3, <1>4, <1>6 DEF Log!EndBorrow
<1>. QED  BY <1>5, <1>6

LEMMA ReadLogs ==
  ASSUME IInv, NEW t \in Readers, Read(t)
  PROVE  \/ \E k \in 0 .. Cap : Log!Observe(t, k)
         \/ \E k, lo, hi \in 0 .. Cap : Log!Borrow(t, k, lo, hi)
         \/ Log!EndBorrow(t)
         \/ UNCHANGED Log!vars
<1>1. CASE \E k \in 0 .. Cap : Observe(t, k)
  BY <1>1, ObserveLogs
<1>2. CASE \E k \in 0 .. Cap : AsSlice(t, k)
  <2>1. PICK k \in 0 .. Cap : Borrow(t, k, Reference(0, k, k))
    BY <1>2 DEF AsSlice
  <2>2. 0 \in 0 .. Cap /\ k \in 0 .. k /\ k \in Int
    BY CapAssumption
  <2>. QED  BY <2>1, <2>2, BorrowLogs
<1>3. CASE \E k \in 0 .. Cap : NewIter(t, k)
  <2>1. PICK k \in 0 .. Cap : Borrow(t, k, Reference(0, k, 0))
    BY <1>3 DEF NewIter
  <2>2. 0 \in 0 .. Cap /\ k \in 0 .. k /\ 0 \in Int
    BY CapAssumption
  <2>. QED  BY <2>1, <2>2, BorrowLogs
<1>4. CASE \E i \in Slots, k \in 0 .. Cap : Get(t, i, k)
  <2>1. PICK i \in Slots, k \in 0 .. Cap : i < k /\ Borrow(t, k, Reference(i, i + 1, i + 1))
    BY <1>4 DEF Get
  <2>2. i \in 0 .. Cap /\ i + 1 \in 0 .. k /\ i + 1 \in Int /\ i + 1 \in 0 .. Cap
    BY <2>1, CapAssumption DEF Slots
  <2>. QED  BY <2>1, <2>2, BorrowLogs
<1>. QED  BY <1>1, <1>2, <1>3, <1>4, IterNextLogs, EndBorrowLogs DEF Read

-----------------------------------------------------------------------------
(* Exclusive access *)

LEMMA ExclusiveLogs ==
  ASSUME IInv, Exclusive
  PROVE  Log!Exclusive
BY DEF Exclusive, Log!Exclusive, Log!Idle, arg, reading, Log!Threads, Threads

LEMMA EditLogs ==
  ASSUME IInv, IInv', NEW t \in Writers, NEW i \in Slots, Edit(t, i)
  PROVE  \E n \in 1 .. Cap, v \in Tokens : Log!Edit(n, v)
<1> DEFINE v == <<t, made[t] + 1>>
<1>0. /\ Exclusive /\ t \in Threads /\ i < published /\ i \in 0 .. Cap - 1
      /\ made[t] < MaxValues /\ made[t] \in Nat
      /\ slots' = [slots EXCEPT ![i] = v] /\ DOMAIN slots = 0 .. Cap - 1
      /\ view' = [s \in Threads |-> FullView]
      /\ UNCHANGED <<reserved, published, pc, cur, borrow, phase>>
  BY DEF Edit, Threads, IInv, TypeOK, Slots
<1>1. v \in Tokens
  BY <1>0, MaxValuesAssumption DEF Tokens
<1>2. /\ published \in Nat /\ reserved \in Nat /\ published <= reserved /\ reserved <= Cap
  BY CapAssumption DEF IInv, TypeOK, ClaimsAccounted
<1>3. i + 1 \in 1 .. published /\ i + 1 \in 1 .. Cap /\ i + 1 \in 1 .. reserved
  BY <1>0, <1>2, CapAssumption
<1>4. log' = [log EXCEPT ![i + 1] = v]
  <2>1. \A j \in Int : ~Claimed(j) /\ ~Claimed(j)'
    BY <1>0 DEF Claimed, InFlight, Exclusive, Threads
  <2>2. \A j \in Int : LogValue(j) = slots[j]
    BY <2>1, LogFacts DEF LogOK
  <2>3. \A j \in Int : LogValue(j)' = slots'[j]
    BY <2>1, LogFactsNext DEF LogOK
  <2>4. log = [n \in 1 .. reserved |-> slots[n - 1]]
    BY <1>2, <2>2 DEF log
  <2>5. log' = [n \in 1 .. reserved |-> slots'[n - 1]]
    BY <1>0, <1>2, <2>3 DEF log
  <2>6. \A n \in 1 .. reserved : slots'[n - 1] = IF n = i + 1 THEN v ELSE slots[n - 1]
    BY <1>0, <1>2
  <2>. HIDE DEF v
  <2>. QED  BY <1>3, <2>4, <2>5, <2>6
<1>5. known' = [s \in Threads |-> published]
  BY <1>0 DEF known, FullView
<1>6. arg' = arg /\ place' = place
  BY <1>0 DEF arg, place, InFlight, Exclusive
<1>7. reading' = reading
  BY <1>0 DEF reading, Holds, Exclusive
<1>. HIDE DEF v
<1>8. Log!Edit(i + 1, v)
  BY <1>0, <1>3, <1>4, <1>5, <1>6, <1>7, ExclusiveLogs DEF Log!Edit, Log!Threads, Threads
<1>. QED  BY <1>1, <1>3, <1>8

\* What the drop leaves alone.
LEMMA DropLogs ==
  ASSUME IInv, UNCHANGED <<reserved, published, slots, view, pc, cur, made, borrow>>
  PROVE  UNCHANGED <<log, published, arg, place, known, reading>>
<1>1. \A s \in Threads : InFlight(s)' = InFlight(s) /\ Value(s)' = Value(s)
  BY DEF InFlight, Value
<1>2. log' = log
  BY <1>1, NoPushLog DEF Threads
<1>3. arg' = arg /\ place' = place /\ known' = known
  BY <1>1 DEF arg, place, known
<1>4. reading' = reading
  BY SameReading
<1>. QED  BY <1>2, <1>3, <1>4

LEMMA OwnLogs ==
  ASSUME IInv, IInv', Own
  PROVE  \/ \E n \in 1 .. Cap, v \in Tokens : Log!Edit(n, v)
         \/ Log!Close
         \/ UNCHANGED Log!vars
<1>1. CASE \E t \in Writers, i \in Slots : Edit(t, i)
  BY <1>1, EditLogs
<1>2. CASE DropBegin
  <2>1. Exclusive /\ phase' = "dropping"
        /\ UNCHANGED <<reserved, published, slots, view, pc, cur, made, borrow>>
    BY <1>2 DEF DropBegin
  <2>. QED  BY <2>1, DropLogs, ExclusiveLogs DEF Log!Close
<1>3. CASE DropSlot \/ DropPanic \/ DropEnd
  <2>1. phase = "dropping" /\ phase' # "live"
        /\ UNCHANGED <<reserved, published, slots, view, pc, cur, made, borrow>>
    BY <1>3 DEF DropSlot, DropPanic, DropEnd
  <2>. QED  BY <2>1, DropLogs DEF Log!vars
<1>. QED  BY <1>1, <1>2, <1>3 DEF Own

-----------------------------------------------------------------------------

LEMMA LogInit ==
  ASSUME Init
  PROVE  Log!Init
<1>1. log = <<>>
  BY DEF Init, log
<1>2. arg = [t \in Threads |-> NoValue] /\ place = [t \in Threads |-> -1]
  BY DEF Init, arg, place, InFlight
<1>3. known = [t \in Threads |-> 0]
  BY DEF Init, known, EmptyView
<1>4. reading = [t \in Threads |-> NoReading]
  BY DEF Init, reading, Holds
<1>. QED  BY <1>1, <1>2, <1>3, <1>4 DEF Init, Log!Init, Log!Threads, Threads

LEMMA PushLogs ==
  ASSUME IInv, IInv', NEW t \in Writers, Push(t)
  PROVE  \/ \E v \in Tokens : Log!Call(t, v)
         \/ Log!Refuse(t)
         \/ Log!Grant(t)
         \/ Log!Commit(t)
         \/ \E k \in 0 .. Cap : Log!Observe(t, k)
         \/ UNCHANGED Log!vars
BY PushLoadLogs, PushFullLogs, PushClaimLogs, PushRetryLogs, PushWriteLogs, PushWaitLogs,
   PushCommitLogs DEF Push

LEMMA LogNext ==
  ASSUME IInv, IInv', [Next]_vars
  PROVE  [Log!Next]_(Log!vars)
<1>1. CASE \E t \in Writers : Push(t)
  BY <1>1, PushLogs DEF Log!Next, Log!Threads
<1>2. CASE \E t \in Readers : Read(t)
  BY <1>2, ReadLogs DEF Log!Next, Log!Threads
<1>3. CASE Own
  BY <1>3, OwnLogs DEF Log!Next
<1>4. CASE UNCHANGED vars
  <2>1. UNCHANGED <<reserved, published, slots, view, pc, cur, made, borrow>> /\ phase' = phase
    BY <1>4 DEF vars
  <2>. QED  BY <2>1, DropLogs DEF Log!vars
<1>. QED  BY <1>1, <1>2, <1>3, <1>4 DEF Next, Gone

\* Whatever the numbers of threads, slots and values: what the threads see of
\* the counters, the buffer and the views is the log of AppendLog, every step of
\* push, of a reader and of the owner being a step of that log or no step of it
\* (lines 152-313).
THEOREM Refinement == Spec => ImplementsLog
<1>1. Init => Log!Init
  BY LogInit
<1>2. IInv /\ IInv' /\ [Next]_vars => [Log!Next]_(Log!vars)
  BY LogNext
<1>. QED  BY <1>1, <1>2, Invariance, PTL DEF Spec, ImplementsLog, Log!Spec

=============================================================================
