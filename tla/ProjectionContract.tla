------------------------- MODULE ProjectionContract -------------------------
(***************************************************************************)
(* What a hosted projection promises about one request: it shows the       *)
(* beginning of the broker's chain of events, moves forward one event at a *)
(* time, and once it has seen a gap it stands still until a resync brings  *)
(* a beginning of the chain again.                                         *)
(***************************************************************************)
EXTENDS Integers

VARIABLES
  length,   \* events in the broker's chain
  shown,    \* the numbers of the events the projection has applied
  frozen    \* it has seen a gap

vars == <<length, shown, frozen>>

Init == length = 0 /\ shown = {} /\ frozen = FALSE

BrokerAppends == length' = length + 1 /\ UNCHANGED <<shown, frozen>>

Advance ==
  /\ ~frozen
  /\ \E n \in 0 .. length - 1 : shown = 1 .. n /\ shown' = 1 .. n + 1
  /\ UNCHANGED <<length, frozen>>

Freeze == frozen' = TRUE /\ UNCHANGED <<length, shown>>

Resync ==
  /\ \E n \in 0 .. length : shown' = 1 .. n
  /\ frozen' = FALSE
  /\ UNCHANGED length

Next == BrokerAppends \/ Advance \/ Freeze \/ Resync

Spec == Init /\ [][Next]_vars
=============================================================================
