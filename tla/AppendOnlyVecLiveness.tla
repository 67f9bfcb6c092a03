----------------------- MODULE AppendOnlyVecLiveness -----------------------
(***************************************************************************)
(* Progress of AppendOnlyVec::push when some writers may be paused for     *)
(* ever, anywhere inside push, and the others keep being scheduled.        *)
(***************************************************************************)
EXTENDS AppendOnlyVec

CONSTANT Paused      \* writers that the scheduler may stop running

ASSUME PausedAssumption == Paused \subseteq Writers

\* The step that takes t's push forward: a load that returns the newest value,
\* a compare_exchange_weak that does not fail spuriously.
PushStep(t) ==
    \/ PushFull(t)
    \/ PushClaim(t)
    \/ cur[t] # reserved /\ PushRetry(t, reserved)
    \/ PushWrite(t)
    \/ PushTurn(t)
    \/ PushCommit(t)

\* Threads run, a store becomes visible in finite time, and a weak exchange
\* does not fail spuriously for ever.  Nothing is assumed of who wins a claim.
LiveSpec == Spec /\ \A t \in Writers \ Paused : WF_vars(PushStep(t))

\* Every push returns if the scheduler does not stop a writer after all: writers
\* that wait for one another always get their turn (the spin loop of lines
\* 186-188).
PushReturns ==
    (\A t \in Paused : WF_vars(PushStep(t)))
        => \A t \in Writers : pc[t] # "idle" ~> pc[t] = "idle"

\* The reservation phase is lock-free: a push is refused or gets a slot although
\* other writers are paused, even with their claim unpublished (lines 29-31).
ClaimDecided == \A t \in Writers \ Paused : pc[t] = "claim" ~> pc[t] # "claim"

Behind(t) == \E p \in Paused : InFlight(p) /\ cur[p] < cur[t]

\* Only a paused writer with a lower slot stalls a push: a writer that has
\* claimed its slot and has no such predecessor returns (lines 37-40, 141-148).
StallsOnlyBehindPaused ==
    \A t \in Writers \ Paused : InFlight(t) /\ ~Behind(t) ~> pc[t] = "idle"

=============================================================================
