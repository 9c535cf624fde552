-------------------------- MODULE RequestLifecycle --------------------------
(***************************************************************************)
(* What the broker promises about requests, without connections, clocks,   *)
(* credentials or transactions: one device slot, a lifecycle that follows  *)
(* permits, and a receipt that appears in the step that closes a request.  *)
(***************************************************************************)
EXTENDS RequestState

CONSTANT Requests

VARIABLES state,      \* "absent" or a member of States
          receipt     \* "none" or the terminal state the receipt certifies

vars == <<state, receipt>>

TypeOK ==
  /\ state \in [Requests -> States \cup {"absent"}]
  /\ receipt \in [Requests -> Terminal \cup {"none"}]

Init ==
  /\ state = [r \in Requests |-> "absent"]
  /\ receipt = [r \in Requests |-> "none"]

\* A request takes the device slot.
Create(r) ==
  /\ state[r] = "absent"
  /\ \A q \in Requests : state[q] \notin Active
  /\ state' = [state EXCEPT ![r] = "planning"]
  /\ UNCHANGED receipt

\* The request holding the slot moves on.
Advance(r, t) ==
  /\ permits(state[r], t)
  /\ t \in Active
  /\ state' = [state EXCEPT ![r] = t]
  /\ UNCHANGED receipt

\* The request closes and its receipt exists from the same step on.
Close(r, t) ==
  /\ t \in Terminal
  /\ \/ permits(state[r], t)
     \/ t = "expired" /\ state[r] \in BootExpired
  /\ state' = [state EXCEPT ![r] = t]
  /\ receipt' = [receipt EXCEPT ![r] = t]

Next ==
  \E r \in Requests :
    \/ Create(r)
    \/ \E t \in Active : Advance(r, t)
    \/ \E t \in Terminal : Close(r, t)

Spec == Init /\ [][Next]_vars
=============================================================================
