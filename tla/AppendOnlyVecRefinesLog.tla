---------------------- MODULE AppendOnlyVecRefinesLog ----------------------
(***************************************************************************)
(* AppendOnlyVec implements AppendLog.  The log is the slots that have     *)
(* been claimed: a slot whose writer is in flight counts with the value    *)
(* that the push carries, the others with their content.  A reader's       *)
(* contents are read from the buffer at every moment, so they stay what    *)
(* they were only if nothing writes to the slots a reference covers.       *)
(***************************************************************************)
EXTENDS AppendOnlyVec

CONSTANTS NoValue, NoReading

ASSUME NoValueAssumption == NoValue \notin Tokens

Owner(i) == CHOOSE t \in Writers : InFlight(t) /\ cur[t] = i

LogValue(i) ==
    IF \E t \in Writers : InFlight(t) /\ cur[t] = i THEN Value(Owner(i)) ELSE slots[i]

log == [i \in 1 .. reserved |-> LogValue(i - 1)]

arg == [t \in Threads |-> IF pc[t] = "idle" THEN NoValue ELSE Value(t)]

place == [t \in Threads |-> IF InFlight(t) THEN cur[t] ELSE -1]

known == [t \in Threads |-> view[t].pub]

reading == [t \in Threads |->
    IF Holds(t) THEN [i \in 1 .. borrow[t].hi - borrow[t].lo |-> slots[borrow[t].lo + i - 1]]
                ELSE NoReading]

\* The threads see the log that AppendLog describes.
Log == INSTANCE AppendLog WITH
    Values <- Tokens, committed <- published, open <- (phase = "live")

ImplementsLog == Log!Spec

=============================================================================
