---------------------------- MODULE RequestState ----------------------------
(***************************************************************************)
(* The lifecycle alphabet of a package-install request: RequestState,      *)
(* is_terminal, permits and transition_reason of rp-broker-core.  States   *)
(* keep the spelling of the database column (RequestState::as_db).         *)
(***************************************************************************)

\* RequestState::is_terminal: the request is closed and its slot released.
Terminal == {"no_change", "invalid", "denied", "expired", "cancelled", "stale",
             "succeeded", "failed"}

\* The states of the partial index requests_one_active_per_device.
Active == {"planning", "pending", "approved", "executing", "recovery_required"}

States == Active \cup Terminal

\* RequestState::permits as a relation.
Edges ==
  UNION {{"planning"} \X {"pending", "no_change", "invalid"},
         {"pending"} \X {"approved", "denied", "expired", "cancelled", "stale"},
         {"approved"} \X {"executing", "cancelled", "stale", "expired"},
         {"executing"} \X {"succeeded", "failed", "recovery_required"},
         {"recovery_required"} \X {"succeeded", "failed"}}

permits(s, t) == <<s, t>> \in Edges

\* The states start_boot closes, whatever permits says of them.
BootExpired == {"planning", "pending", "approved"}

\* TransitionReason as transition_reason derives it from the state entered;
\* reconciliation has two reasons of its own.
transition_reason ==
  [planning |-> "created", pending |-> "planner_pending",
   no_change |-> "planner_no_change", invalid |-> "planner_invalid",
   approved |-> "approved", denied |-> "denied", expired |-> "expired",
   cancelled |-> "cancelled", stale |-> "generation_stale",
   executing |-> "execution_started", succeeded |-> "execution_succeeded",
   failed |-> "execution_failed", recovery_required |-> "recovery_required"]

reconcile_reason ==
  [succeeded |-> "reconciled_succeeded", failed |-> "reconciled_failed"]

Reasons == {transition_reason[s] : s \in States}
             \cup {"reconciled_succeeded", "reconciled_failed"}
=============================================================================
