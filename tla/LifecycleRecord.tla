--------------------------- MODULE LifecycleRecord ---------------------------
(***************************************************************************)
(* LifecycleRecord of rp-broker-core: the in-memory value object that      *)
(* decides every race of one request.  Its callers pass the monotonic      *)
(* instant and the active credential generation; here both are the host's  *)
(* and move on their own.  A refused call is a step too, because           *)
(* pre_execution_guard closes the record on the way to its error.          *)
(***************************************************************************)
EXTENDS Naturals, Sequences, RequestState

CONSTANTS
  Packages,        \* package names
  Digests,         \* request digests
  MaxGeneration,   \* bound: credential generations
  MaxTime,         \* bound: the monotonic clock
  NoPlan, NoReceipt, NoRequest

VARIABLES
  bound,     \* requested_package, request_digest, generation, deadline_mono_ns
  state,     \* "absent" before new
  plan,      \* the package of the frozen plan
  events,
  receipt,   \* the ReceiptDraft
  answer,    \* what the last call returned
  now,       \* now_mono_ns of the next call
  active     \* active_generation of the next call

record == <<bound, state, plan, events, receipt>>
vars == <<record, answer, now, active>>

Generations == 0 .. MaxGeneration
Times == 0 .. MaxTime
Bounds == [package : Packages, digest : Digests, generation : Generations,
           deadline : Times]
Events == [state : States, reason : Reasons]
Drafts == [state : Terminal, final : Nat, plan : Packages \cup {NoPlan}]
Errors == {"invalid_state", "already_terminal", "context_mismatch",
           "generation_stale", "package_mismatch"}
Decisions == [digest : Digests, generation : Generations,
              decision : {"approved", "denied"}]

\* The values that stand for None are no plans, receipts or requests.
ASSUME RecordAssumption ==
  /\ MaxGeneration \in Nat /\ MaxTime \in Nat
  /\ NoPlan \notin Packages /\ NoReceipt \notin Drafts /\ NoRequest \notin Bounds

\* The record holds what its Rust type admits.
TypeOK ==
  /\ bound \in Bounds \cup {NoRequest}
  /\ state \in States \cup {"absent"}
  /\ plan \in Packages \cup {NoPlan}
  /\ events \in Seq(Events)
  /\ receipt \in Drafts \cup {NoReceipt}
  /\ answer \in Errors \cup {"ok"}
  /\ now \in Times /\ active \in Generations

------------------------------------------------------------------------------
Init ==
  /\ bound = NoRequest /\ state = "absent" /\ plan = NoPlan
  /\ events = <<>> /\ receipt = NoReceipt
  /\ answer = "ok" /\ now = 0 /\ active \in Generations

Tick == now < MaxTime /\ now' = now + 1 /\ UNCHANGED <<record, answer, active>>

\* replace_credentials of the broker; it may name any generation.
Rotate == active' \in Generations \ {active} /\ UNCHANGED <<record, answer, now>>

\* Fault: the receipt seals the chain as it was before the closing event.
make_receipt_too_early(t) == [state |-> t, final |-> Len(events), plan |-> plan]

\* make_receipt seals the chain as it is after the closing event.
make_receipt(t) == [state |-> t, final |-> Len(events) + 1, plan |-> plan]

\* winner: the state, the event and, when it closes the record, the receipt.
winner(t, reason) ==
  /\ state' = t
  /\ events' = Append(events, [state |-> t, reason |-> reason])
  /\ \/ t \in Terminal /\ receipt' = make_receipt(t)
     \/ t \notin Terminal /\ UNCHANGED receipt

wins(t, reason) == winner(t, reason) /\ answer' = "ok"
refuse(error) == answer' = error /\ UNCHANGED record

\* Fault: a closed record is not told apart from one in the wrong state.
state_error_invalid == "invalid_state"

\* state_error: a closed record answers that the race is over.
state_error == IF state \in Terminal THEN "already_terminal" ELSE "invalid_state"

\* Pending and approved records are still open to expiry and staleness.
AtRisk == state \in {"pending", "approved"}

\* Fault: at its deadline a record is still in time.
ElapsedAfterDeadline == AtRisk /\ now > bound.deadline

Elapsed == AtRisk /\ now >= bound.deadline

\* Fault: only an undecided record becomes stale.
OutdatedUndecided == state = "pending" /\ ~Elapsed /\ active # bound.generation

Outdated == AtRisk /\ ~Elapsed /\ active # bound.generation

\* pre_execution_guard: expiry first, then the generation, then the call itself.
pre_execution_guard(Call) ==
  \/ state \in Terminal /\ refuse("already_terminal")
  \/ /\ Elapsed
     /\ winner("expired", "expired")
     /\ answer' = "already_terminal" /\ UNCHANGED <<bound, plan>>
  \/ /\ Outdated
     /\ winner("stale", "generation_stale")
     /\ answer' = "already_terminal" /\ UNCHANGED <<bound, plan>>
  \/ state \notin Terminal /\ ~Elapsed /\ ~Outdated /\ Call

------------------------------------------------------------------------------
\* Operations.

new(b) ==
  /\ state = "absent"
  /\ bound' = b
  /\ wins("planning", "created")
  /\ UNCHANGED <<plan, now, active>>

\* Fault: any plan is accepted.
PlanFitsAny(p) == TRUE

\* The planner's package is the requested one.
PlanFits(p) == p = bound.package

\* apply_plan, PlanOutcome::Pending.
apply_plan_pending(p) ==
  /\ state # "absent"
  /\ \/ state # "planning" /\ refuse(state_error)
     \/ state = "planning" /\ ~PlanFits(p) /\ refuse("package_mismatch")
     \/ /\ state = "planning" /\ PlanFits(p)
        /\ plan' = p
        /\ wins("pending", "planner_pending")
        /\ UNCHANGED bound
  /\ UNCHANGED <<now, active>>

\* apply_plan, PlanOutcome::NoChange and Invalid.
apply_plan_closing(t) ==
  /\ state # "absent"
  /\ \/ state # "planning" /\ refuse(state_error)
     \/ /\ state = "planning"
        /\ wins(t, transition_reason[t])
        /\ UNCHANGED <<bound, plan>>
  /\ UNCHANGED <<now, active>>

apply_verified_decision(d) ==
  /\ state # "absent"
  /\ pre_execution_guard(
       \/ state # "pending" /\ refuse(state_error)
       \/ /\ state = "pending" /\ d.digest # bound.digest
          /\ refuse("context_mismatch")
       \/ /\ state = "pending" /\ d.digest = bound.digest
          /\ d.generation # bound.generation
          /\ refuse("generation_stale")
       \/ /\ state = "pending" /\ d.digest = bound.digest
          /\ d.generation = bound.generation
          /\ wins(d.decision, transition_reason[d.decision])
          /\ UNCHANGED <<bound, plan>>)
  /\ UNCHANGED <<now, active>>

\* Fault: work that is executing can still be cancelled.
CancellableOrExecuting == state \in {"pending", "approved", "executing"}

Cancellable == state \in {"pending", "approved"}

cancel ==
  /\ state # "absent"
  /\ pre_execution_guard(
       \/ ~Cancellable /\ refuse(state_error)
       \/ Cancellable /\ wins("cancelled", "cancelled") /\ UNCHANGED <<bound, plan>>)
  /\ UNCHANGED <<now, active>>

begin_execution ==
  /\ state # "absent"
  /\ pre_execution_guard(
       \/ state # "approved" /\ refuse(state_error)
       \/ /\ state = "approved" /\ wins("executing", "execution_started")
          /\ UNCHANGED <<bound, plan>>)
  /\ UNCHANGED <<now, active>>

\* finish_execution: success and recovery together are refused.
finish_execution(succeeded, recovery) ==
  LET t == IF succeeded THEN "succeeded" ELSE IF recovery THEN "recovery_required"
                                                          ELSE "failed"
  IN
  /\ state # "absent"
  /\ \/ state # "executing" /\ refuse(state_error)
     \/ state = "executing" /\ succeeded /\ recovery /\ refuse("invalid_state")
     \/ /\ state = "executing" /\ ~(succeeded /\ recovery)
        /\ wins(t, transition_reason[t])
        /\ UNCHANGED <<bound, plan>>
  /\ UNCHANGED <<now, active>>

reconcile(t) ==
  /\ state # "absent"
  /\ \/ state # "recovery_required" /\ refuse(state_error)
     \/ /\ state = "recovery_required"
        /\ wins(t, reconcile_reason[t])
        /\ UNCHANGED <<bound, plan>>
  /\ UNCHANGED <<now, active>>

Next ==
  \/ Tick \/ Rotate
  \/ \E b \in Bounds : new(b)
  \/ \E p \in Packages : apply_plan_pending(p)
  \/ \E t \in {"no_change", "invalid"} : apply_plan_closing(t)
  \/ \E d \in Decisions : apply_verified_decision(d)
  \/ cancel \/ begin_execution
  \/ \E succeeded, recovery \in BOOLEAN : finish_execution(succeeded, recovery)
  \/ \E t \in {"succeeded", "failed"} : reconcile(t)

Spec == Init /\ [][Next]_vars

------------------------------------------------------------------------------
\* Properties.

\* The assertion in winner never fires: whatever calls were made in whatever
\* order, the events follow permits from planning to the state of the record.
WinnerIsPermitted ==
  /\ state = "absent" <=> events = <<>>
  /\ events # <<>> => events[1].state = "planning" /\ events[Len(events)].state = state
  /\ \A i \in 1 .. Len(events) - 1 : permits(events[i].state, events[i + 1].state)

\* A closed record has exactly one draft receipt; it certifies the final state and
\* the last event, so nothing was appended behind it (make_receipt).
ReceiptSealsChain ==
  /\ receipt = NoReceipt <=> state \notin Terminal
  /\ receipt # NoReceipt =>
       receipt = [state |-> state, final |-> Len(events), plan |-> plan]

\* What reaches the helper was planned for the requested package.
ExecutesRequestedPackage ==
  state \in {"approved", "executing", "recovery_required", "succeeded", "failed"}
    => plan = bound.package

\* After the deadline a record that was not executing can only expire, and under
\* another generation it can only go stale: no decision, cancellation or start
\* wins against either (pre_execution_guard).
GuardsWinFirst ==
  [][AtRisk /\ state' # state =>
       (/\ now >= bound.deadline => state' = "expired"
        /\ now < bound.deadline /\ active # bound.generation => state' = "stale")]_vars

\* A call that answers with an error never advanced the record: at most it closed
\* it as expired or stale, and then says so (LifecycleError::AlreadyTerminal).
ErrorsOnlyClose ==
  [][answer' # "ok" =>
       (/\ state' = state \/ state' \in {"expired", "stale"}
        /\ answer' = "already_terminal" <=> state' \in Terminal)]_vars

\* Seen from outside, the record is the abstract lifecycle of one request.
Abstract == INSTANCE RequestLifecycle WITH
  Requests <- {"it"},
  state <- [r \in {"it"} |-> state],
  receipt <- [r \in {"it"} |-> IF receipt = NoReceipt THEN "none" ELSE receipt.state]

\* The value object implements the lifecycle the durable broker implements.
ImplementsLifecycle == Abstract!Spec
=============================================================================
