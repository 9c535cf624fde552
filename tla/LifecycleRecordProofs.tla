------------------------ MODULE LifecycleRecordProofs ------------------------
(***************************************************************************)
(* What the value object promises, for every package, digest, deadline,    *)
(* generation and sequence of calls.                                       *)
(***************************************************************************)
EXTENDS LifecycleRecord, TLAPS

USE DEF make_receipt

\* A call that moves the record: one edge of permits through winner.
Moves(t, reason) ==
  /\ t \in States /\ reason \in Reasons
  /\ permits(state, t)
  /\ winner(t, reason)
  /\ UNCHANGED bound

\* new: the record comes into being.
Begins ==
  /\ state = "absent"
  /\ winner("planning", "created")
  /\ bound' \in Bounds /\ UNCHANGED plan

\* A plan is stored by the step that enters pending, and it is the requested one.
PlanStep(t) == plan' = IF t = "pending" THEN bound.package ELSE plan

\* The reasons winner is called with are those of the audit codes.
LEMMA KnownReasons ==
  /\ \A t \in States : transition_reason[t] \in Reasons
  /\ {"created", "planner_pending", "expired", "generation_stale", "cancelled",
      "execution_started", "reconciled_succeeded", "reconciled_failed"} \subseteq Reasons
BY DEF Reasons, transition_reason, States, Active, Terminal

\* Every step leaves the record alone, creates it or moves it along one edge.
LEMMA StepKinds ==
  ASSUME Next
  PROVE  \/ UNCHANGED record
         \/ Begins
         \/ \E t, reason : Moves(t, reason) /\ PlanStep(t)
<1>1. CASE Tick \/ Rotate
  BY <1>1 DEF Tick, Rotate
<1>2. ASSUME NEW b \in Bounds, new(b)
      PROVE  Begins
  BY <1>2 DEF new, wins, Begins
<1>3. ASSUME NEW p \in Packages, apply_plan_pending(p)
      PROVE  \/ UNCHANGED record
             \/ Moves("pending", "planner_pending") /\ PlanStep("pending")
  BY <1>3, KnownReasons
  DEF apply_plan_pending, refuse, wins, Moves, PlanStep, PlanFits, permits, Edges, States,
      Active
<1>4. ASSUME NEW t \in {"no_change", "invalid"}, apply_plan_closing(t)
      PROVE  \/ UNCHANGED record
             \/ Moves(t, transition_reason[t]) /\ PlanStep(t)
  BY <1>4, KnownReasons
  DEF apply_plan_closing, refuse, wins, Moves, PlanStep, permits, Edges, States, Terminal
<1>5. ASSUME NEW d \in Decisions, apply_verified_decision(d)
      PROVE  \/ UNCHANGED record
             \/ \E t, reason : Moves(t, reason) /\ PlanStep(t)
  <2>1. d.decision \in {"approved", "denied"}
    BY DEF Decisions
  <2> QED
    BY <1>5, <2>1, KnownReasons
    DEF apply_verified_decision, pre_execution_guard, Elapsed, Outdated, AtRisk, refuse,
        wins, Moves, PlanStep, permits, Edges, States, Active, Terminal
<1>6. ASSUME cancel
      PROVE  \/ UNCHANGED record
             \/ \E t, reason : Moves(t, reason) /\ PlanStep(t)
  BY <1>6, KnownReasons
  DEF cancel, pre_execution_guard, Elapsed, Outdated, AtRisk, refuse, Cancellable,
      wins, Moves, PlanStep, permits, Edges, States, Active, Terminal
<1>7. ASSUME begin_execution
      PROVE  \/ UNCHANGED record
             \/ \E t, reason : Moves(t, reason) /\ PlanStep(t)
  BY <1>7, KnownReasons
  DEF begin_execution, pre_execution_guard, Elapsed, Outdated, AtRisk, refuse,
      wins, Moves, PlanStep, permits, Edges, States, Active, Terminal
<1>8. ASSUME NEW succeeded \in BOOLEAN, NEW recovery \in BOOLEAN,
             finish_execution(succeeded, recovery)
      PROVE  \/ UNCHANGED record
             \/ \E t, reason : Moves(t, reason) /\ PlanStep(t)
  <2> DEFINE t == IF succeeded THEN "succeeded"
                  ELSE IF recovery THEN "recovery_required" ELSE "failed"
  <2>1. t \in {"succeeded", "recovery_required", "failed"}
    OBVIOUS
  <2>2. UNCHANGED record \/ (/\ state = "executing" /\ winner(t, transition_reason[t])
                             /\ UNCHANGED <<bound, plan>>)
    BY <1>8 DEF finish_execution, refuse, wins
  <2> HIDE DEF t
  <2>3. t \in States /\ permits("executing", t)
    BY <2>1 DEF States, Active, Terminal, permits, Edges
  <2> QED
    BY <2>1, <2>2, <2>3, KnownReasons DEF Moves, PlanStep
<1>9. ASSUME NEW t \in {"succeeded", "failed"}, reconcile(t)
      PROVE  \/ UNCHANGED record
             \/ Moves(t, reconcile_reason[t]) /\ PlanStep(t)
  <2>1. reconcile_reason[t] \in Reasons
    BY KnownReasons DEF reconcile_reason
  <2> QED
    BY <1>9, <2>1
    DEF reconcile, refuse, wins, Moves, PlanStep, permits, Edges, States, Terminal
<1> QED
  BY <1>1, <1>2, <1>3, <1>4, <1>5, <1>6, <1>7, <1>8, <1>9 DEF Next

------------------------------------------------------------------------------
\* The record is typed and its chain, its receipt and its plan fit its state.
BoundInv == state # "absent" => bound \in Bounds
PlanInv ==
  /\ state \in {"pending", "approved", "executing", "recovery_required", "succeeded",
                "failed"} => plan = bound.package
  /\ state \in {"absent", "planning"} => plan = NoPlan
RecordType ==
  /\ state \in States \cup {"absent"}
  /\ plan \in Packages \cup {NoPlan}
  /\ events \in Seq(Events)

RecordInv == RecordType /\ BoundInv /\ PlanInv /\ WinnerIsPermitted /\ ReceiptSealsChain

\* States the provers must tell apart.
LEMMA StateFacts ==
  /\ "absent" \notin States /\ "planning" \in States /\ "planning" \notin Terminal
  /\ "absent" \notin Terminal
  /\ \A t : permits("absent", t) = FALSE
  /\ \A s, t : permits(s, t) => s \in States \ Terminal /\ t \in States /\ t # "planning"
  /\ \A s : permits(s, "pending") => s = "planning"
  /\ \A s, t : permits(s, t) /\ t \in {"approved", "executing", "recovery_required",
                                       "succeeded", "failed"}
       => s \in {"pending", "approved", "executing", "recovery_required"}
BY DEF States, Active, Terminal, permits, Edges

\* What winner does to a chain that follows permits.
LEMMA ChainGrows ==
  ASSUME NEW t \in States, NEW reason \in Reasons, events \in Seq(Events),
         events' = Append(events, [state |-> t, reason |-> reason]), state' = t,
         WinnerIsPermitted,
         \/ state = "absent" /\ t = "planning"
         \/ permits(state, t)
  PROVE  WinnerIsPermitted' /\ events' \in Seq(Events) /\ Len(events') = Len(events) + 1
<1> DEFINE e == [state |-> t, reason |-> reason]
<1>1. e \in Events
  BY DEF Events
<1>2. /\ events' \in Seq(Events) /\ Len(events') = Len(events) + 1
      /\ \A i \in 1 .. Len(events) : events'[i] = events[i]
      /\ events'[Len(events) + 1] = e
  BY <1>1
<1>3. state = "absent" <=> Len(events) = 0
  BY DEF WinnerIsPermitted
<1>4. state' # "absent" /\ events' # <<>>
  BY <1>2, StateFacts
<1>5. events'[1].state = "planning"
  <2>1. CASE state = "absent"
    BY <2>1, <1>2, <1>3, StateFacts
  <2>2. CASE state # "absent"
    BY <2>2, <1>2, <1>3 DEF WinnerIsPermitted
  <2> QED
    BY <2>1, <2>2
<1>6. ASSUME NEW i \in 1 .. Len(events') - 1
      PROVE  permits(events'[i].state, events'[i + 1].state)
  <2>1. CASE i < Len(events)
    BY <2>1, <1>2 DEF WinnerIsPermitted
  <2>2. CASE i = Len(events)
    BY <2>2, <1>2, <1>3, <1>6, StateFacts DEF WinnerIsPermitted
  <2> QED
    BY <1>2, <1>6, <2>1, <2>2
<1> QED
  BY <1>2, <1>4, <1>5, <1>6 DEF WinnerIsPermitted

LEMMA RecordStep == RecordInv /\ [Next]_vars => RecordInv'
<1> SUFFICES ASSUME RecordInv, [Next]_vars PROVE RecordInv'
  OBVIOUS
<1>1. CASE UNCHANGED record
  BY <1>1 DEF record, RecordInv, RecordType, BoundInv, PlanInv, WinnerIsPermitted,
              ReceiptSealsChain
<1>2. CASE Begins
  <2>1. WinnerIsPermitted' /\ events' \in Seq(Events)
    BY <1>2, StateFacts, KnownReasons, ChainGrows DEF Begins, winner, RecordInv, RecordType
  <2>2. ReceiptSealsChain'
    BY <1>2, StateFacts DEF Begins, winner, RecordInv, ReceiptSealsChain
  <2> QED
    BY <1>2, <2>1, <2>2, StateFacts
    DEF Begins, winner, RecordInv, RecordType, BoundInv, PlanInv
<1>3. ASSUME NEW t, NEW reason, Moves(t, reason), PlanStep(t)
      PROVE  RecordInv'
  <2>1. WinnerIsPermitted' /\ events' \in Seq(Events) /\ Len(events') = Len(events) + 1
    BY <1>3, ChainGrows DEF Moves, winner, RecordInv, RecordType
  <2>2. state \in States \ Terminal /\ t \in States /\ t # "absent"
    BY <1>3, StateFacts DEF Moves
  <2>3. ReceiptSealsChain'
    <3>1. CASE t \in Terminal
      <4>1. UNCHANGED plan
        BY <1>3, <3>1 DEF PlanStep, Terminal
      <4>2. receipt' = [state |-> t, final |-> Len(events) + 1, plan |-> plan]
        BY <1>3, <3>1 DEF Moves, winner
      <4>3. receipt' \in Drafts
        BY <3>1, <4>2 DEF Drafts, RecordInv, RecordType
      <4> QED
        BY <1>3, <2>1, <3>1, <4>1, <4>2, <4>3, RecordAssumption
        DEF Moves, winner, ReceiptSealsChain
    <3>2. CASE t \notin Terminal
      BY <1>3, <2>2, <3>2 DEF Moves, winner, RecordInv, ReceiptSealsChain
    <3> QED
      BY <3>1, <3>2
  <2>4. BoundInv' /\ state # "absent"
    BY <1>3, <2>2, StateFacts DEF Moves, RecordInv, BoundInv
  <2>5. PlanInv'
    BY <1>3, <2>2, <2>4, StateFacts DEF Moves, winner, PlanStep, RecordInv, PlanInv
  <2>6. RecordType'
    BY <1>3, <2>1, <2>2, <2>4
    DEF Moves, winner, PlanStep, RecordInv, RecordType, BoundInv, Bounds
  <2> QED
    BY <2>1, <2>3, <2>4, <2>5, <2>6 DEF RecordInv
<1> QED
  BY <1>1, <1>2, <1>3, StepKinds DEF vars

LEMMA RecordInductive == Spec => []RecordInv
<1>1. Init => RecordInv
  BY StateFacts
  DEF Init, RecordInv, RecordType, BoundInv, PlanInv, WinnerIsPermitted, ReceiptSealsChain
<1> QED
  BY <1>1, RecordStep, PTL DEF Spec

------------------------------------------------------------------------------
\* The assertion in winner never fires: the events follow permits from planning to
\* the state of the record, whatever calls were made (LifecycleRecord::winner).
THEOREM AssertionHolds == Spec => []WinnerIsPermitted
BY RecordInductive, PTL DEF RecordInv

\* A closed record has one receipt, of its final state and its last event
\* (LifecycleRecord::make_receipt).
THEOREM ReceiptSeals == Spec => []ReceiptSealsChain
BY RecordInductive, PTL DEF RecordInv

\* What is handed to the helper was planned for the requested package
\* (LifecycleRecord::apply_plan).
THEOREM RequestedPackage == Spec => []ExecutesRequestedPackage
<1>1. RecordInv => ExecutesRequestedPackage
  BY DEF RecordInv, PlanInv, ExecutesRequestedPackage
<1> QED
  BY <1>1, RecordInductive, PTL

\* now_mono_ns is an unsigned integer.
ClockInv == now \in Nat

LEMMA Clock == Spec => []ClockInv
<1>1. Init => ClockInv
  BY DEF Init, ClockInv
<1>2. ASSUME Next PROVE Tick \/ UNCHANGED now
  <2>1. Rotate => UNCHANGED now
    BY DEF Rotate
  <2>2. /\ \A b \in Bounds : new(b) => UNCHANGED now
        /\ \A p \in Packages : apply_plan_pending(p) => UNCHANGED now
        /\ \A t \in {"no_change", "invalid"} : apply_plan_closing(t) => UNCHANGED now
    BY DEF new, apply_plan_pending, apply_plan_closing
  <2>3. \A d \in Decisions : apply_verified_decision(d) => UNCHANGED now
    BY DEF apply_verified_decision
  <2>4. (cancel => UNCHANGED now) /\ (begin_execution => UNCHANGED now)
    BY DEF cancel, begin_execution
  <2>5. /\ \A x, y \in BOOLEAN : finish_execution(x, y) => UNCHANGED now
        /\ \A t \in {"succeeded", "failed"} : reconcile(t) => UNCHANGED now
    BY DEF finish_execution, reconcile
  <2> QED
    BY <1>2, <2>1, <2>2, <2>3, <2>4, <2>5 DEF Next
<1>3. ClockInv /\ [Next]_vars => ClockInv'
  BY <1>2 DEF ClockInv, Tick, vars
<1> QED
  BY <1>1, <1>3, PTL DEF Spec

\* The guard closes the record or finds it in time and of the active generation.
LEMMA GuardCloses ==
  ASSUME NEW ACTION Call, pre_execution_guard(Call), AtRisk, state' # state
  PROVE  \/ Elapsed /\ state' = "expired"
         \/ Outdated /\ state' = "stale"
         \/ ~Elapsed /\ ~Outdated
BY DEF pre_execution_guard, refuse, record, winner

\* After the deadline an undecided or approved record can only expire, and under
\* another generation only go stale (LifecycleRecord::pre_execution_guard).
THEOREM GuardsFirst == Spec => GuardsWinFirst
<1> DEFINE Guarded == \/ Elapsed /\ state' = "expired"
                      \/ Outdated /\ state' = "stale"
                      \/ ~Elapsed /\ ~Outdated
           Safe == AtRisk /\ state' # state =>
                     (/\ now >= bound.deadline => state' = "expired"
                      /\ now < bound.deadline /\ active # bound.generation => state' = "stale")
<1>1. ASSUME RecordInv, ClockInv, [Next]_vars, AtRisk, state' # state
      PROVE  Guarded
  <2>1. CASE Tick \/ Rotate
    BY <1>1, <2>1 DEF Tick, Rotate, record
  <2>2. ASSUME NEW b \in Bounds, new(b) PROVE FALSE
    BY <1>1, <2>2 DEF new, AtRisk
  <2>3. ASSUME NEW p \in Packages, apply_plan_pending(p) PROVE FALSE
    BY <1>1, <2>3 DEF apply_plan_pending, refuse, record, AtRisk
  <2>4. ASSUME NEW t \in {"no_change", "invalid"}, apply_plan_closing(t) PROVE FALSE
    BY <1>1, <2>4 DEF apply_plan_closing, refuse, record, AtRisk
  <2>5. ASSUME NEW d \in Decisions, apply_verified_decision(d) PROVE Guarded
    BY <1>1, <2>5, GuardCloses DEF apply_verified_decision
  <2>6. CASE cancel
    BY <1>1, <2>6, GuardCloses DEF cancel
  <2>7. CASE begin_execution
    BY <1>1, <2>7, GuardCloses DEF begin_execution
  <2>8. ASSUME NEW succeeded \in BOOLEAN, NEW recovery \in BOOLEAN,
               finish_execution(succeeded, recovery)
        PROVE  FALSE
    BY <1>1, <2>8 DEF finish_execution, refuse, record, AtRisk
  <2>9. ASSUME NEW t \in {"succeeded", "failed"}, reconcile(t) PROVE FALSE
    BY <1>1, <2>9 DEF reconcile, refuse, record, AtRisk
  <2> QED
    BY <1>1, <2>1, <2>2, <2>3, <2>4, <2>5, <2>6, <2>7, <2>8, <2>9 DEF Next, vars, record
<1>2. RecordInv /\ ClockInv /\ [Next]_vars => [Safe]_vars
  <2> SUFFICES ASSUME RecordInv, ClockInv, [Next]_vars, AtRisk, state' # state
               PROVE  /\ now >= bound.deadline => state' = "expired"
                      /\ now < bound.deadline /\ active # bound.generation => state' = "stale"
    OBVIOUS
  <2>1. bound.deadline \in Nat
    BY RecordAssumption DEF RecordInv, BoundInv, AtRisk, Bounds, Times
  <2>2. Guarded
    BY <1>1
  <2> QED
    BY <2>1, <2>2 DEF Elapsed, Outdated, ClockInv
<1> QED
  BY <1>2, RecordInductive, Clock, PTL DEF Spec, GuardsWinFirst

------------------------------------------------------------------------------
(***************************************************************************)
(* What an error says.                                                     *)
(***************************************************************************)

\* An answer other than "ok" is the error of the state the record is in.
AnswerInv == answer # "ok" => (answer = "already_terminal" <=> state \in Terminal)

\* What a call that answers with an error did to the record.
Refused ==
  /\ state' = state \/ state' \in {"expired", "stale"}
  /\ answer' = "already_terminal" <=> state' \in Terminal

\* A refusal with the error of the state, or of an open record.
LEMMA RefuseAnswers ==
  ASSUME NEW error, refuse(error),
         \/ error = state_error
         \/ /\ state \notin Terminal
            /\ error \in {"package_mismatch", "context_mismatch", "generation_stale",
                          "invalid_state"}
         \/ state \in Terminal /\ error = "already_terminal"
  PROVE  Refused
<1>1. UNCHANGED state /\ answer' = error
  BY DEF refuse, record
<1>2. error = "already_terminal" <=> state \in Terminal
  BY DEF state_error
<1> QED
  BY <1>1, <1>2 DEF Refused

\* The guard refuses a closed record, or closes it and says so.
LEMMA GuardAnswers ==
  ASSUME NEW ACTION Call, pre_execution_guard(Call), ~Call
  PROVE  Refused
<1>1. CASE state \in Terminal /\ refuse("already_terminal")
  BY <1>1, RefuseAnswers
<1>2. CASE Elapsed /\ winner("expired", "expired") /\ answer' = "already_terminal"
  BY <1>2 DEF winner, Refused, Terminal
<1>3. CASE Outdated /\ winner("stale", "generation_stale") /\ answer' = "already_terminal"
  BY <1>3 DEF winner, Refused, Terminal
<1> QED
  BY <1>1, <1>2, <1>3 DEF pre_execution_guard

\* Every call that answers with an error is such a refusal.
LEMMA CallsAnswer ==
  ASSUME AnswerInv, [Next]_vars, answer' # "ok"
  PROVE  Refused
<1>1. CASE Tick \/ Rotate \/ UNCHANGED vars
  BY <1>1 DEF Tick, Rotate, vars, record, AnswerInv, Refused
<1>2. ASSUME NEW b \in Bounds, new(b) PROVE FALSE
  BY <1>2 DEF new, wins
<1>3. ASSUME NEW p \in Packages, apply_plan_pending(p) PROVE Refused
  <2>1. \/ refuse(state_error)
        \/ state = "planning" /\ refuse("package_mismatch")
    BY <1>3 DEF apply_plan_pending, wins
  <2> QED
    BY <2>1, RefuseAnswers, StateFacts
<1>4. ASSUME NEW t \in {"no_change", "invalid"}, apply_plan_closing(t) PROVE Refused
  <2>1. refuse(state_error)
    BY <1>4 DEF apply_plan_closing, wins
  <2> QED
    BY <2>1, RefuseAnswers
<1>5. ASSUME NEW d \in Decisions, apply_verified_decision(d) PROVE Refused
  <2> DEFINE Call ==
        \/ state # "pending" /\ refuse(state_error)
        \/ state = "pending" /\ d.digest # bound.digest /\ refuse("context_mismatch")
        \/ /\ state = "pending" /\ d.digest = bound.digest
           /\ d.generation # bound.generation
           /\ refuse("generation_stale")
        \/ /\ state = "pending" /\ d.digest = bound.digest
           /\ d.generation = bound.generation
           /\ wins(d.decision, transition_reason[d.decision])
           /\ UNCHANGED <<bound, plan>>
  <2>1. pre_execution_guard(Call)
    BY <1>5 DEF apply_verified_decision
  <2>2. CASE Call
    <3>1. \/ refuse(state_error)
          \/ state = "pending" /\ (refuse("context_mismatch") \/ refuse("generation_stale"))
      BY <2>2 DEF wins
    <3>2. "pending" \notin Terminal
      BY DEF Terminal
    <3> QED
      BY <3>1, <3>2, RefuseAnswers
  <2> HIDE DEF Call
  <2> QED
    BY <2>1, <2>2, GuardAnswers
<1>6. CASE cancel
  <2> DEFINE Call ==
        \/ ~Cancellable /\ refuse(state_error)
        \/ Cancellable /\ wins("cancelled", "cancelled") /\ UNCHANGED <<bound, plan>>
  <2>1. pre_execution_guard(Call)
    BY <1>6 DEF cancel
  <2>2. CASE Call
    BY <2>2, RefuseAnswers DEF wins
  <2> HIDE DEF Call
  <2> QED
    BY <2>1, <2>2, GuardAnswers
<1>7. CASE begin_execution
  <2> DEFINE Call ==
        \/ state # "approved" /\ refuse(state_error)
        \/ /\ state = "approved" /\ wins("executing", "execution_started")
           /\ UNCHANGED <<bound, plan>>
  <2>1. pre_execution_guard(Call)
    BY <1>7 DEF begin_execution
  <2>2. CASE Call
    BY <2>2, RefuseAnswers DEF wins
  <2> HIDE DEF Call
  <2> QED
    BY <2>1, <2>2, GuardAnswers
<1>8. ASSUME NEW succeeded \in BOOLEAN, NEW recovery \in BOOLEAN,
             finish_execution(succeeded, recovery)
      PROVE  Refused
  <2>1. \/ refuse(state_error)
        \/ state = "executing" /\ refuse("invalid_state")
    BY <1>8 DEF finish_execution, wins
  <2>2. "executing" \notin Terminal
    BY DEF Terminal
  <2> QED
    BY <2>1, <2>2, RefuseAnswers
<1>9. ASSUME NEW t \in {"succeeded", "failed"}, reconcile(t) PROVE Refused
  <2>1. refuse(state_error)
    BY <1>9 DEF reconcile, wins
  <2> QED
    BY <2>1, RefuseAnswers
<1> QED
  BY <1>1, <1>2, <1>3, <1>4, <1>5, <1>6, <1>7, <1>8, <1>9 DEF Next

\* A call that answers with an error never advanced the record: at most it closed it as
\* expired or stale, and LifecycleError::AlreadyTerminal is the answer exactly when the
\* record is closed.
THEOREM ErrorsClose == Spec => ErrorsOnlyClose
<1>1. Init => AnswerInv
  BY DEF Init, AnswerInv
<1>2. AnswerInv /\ [Next]_vars => AnswerInv'
  BY CallsAnswer DEF AnswerInv, Refused
<1>3. AnswerInv /\ [Next]_vars =>
        [answer' # "ok" =>
           (/\ state' = state \/ state' \in {"expired", "stale"}
            /\ answer' = "already_terminal" <=> state' \in Terminal)]_vars
  BY CallsAnswer DEF Refused
<1> QED
  BY <1>1, <1>2, <1>3, PTL DEF Spec, ErrorsOnlyClose

------------------------------------------------------------------------------
(***************************************************************************)
(* Refinement of RequestLifecycle.                                         *)
(***************************************************************************)

\* The refinement mapping: the record is the one request of the abstract lifecycle.
Mapped == [r \in {"it"} |-> state]
Certified == [r \in {"it"} |-> IF receipt = NoReceipt THEN "none" ELSE receipt.state]

\* The vocabulary of the abstract module is the one of this module.
LEMMA SameVocabulary ==
  /\ Abstract!Active = Active /\ Abstract!Terminal = Terminal
  /\ \A s, t : Abstract!permits(s, t) <=> permits(s, t)
BY DEF Abstract!Active, Active, Abstract!Terminal, Terminal, Abstract!permits, permits,
       Abstract!Edges, Edges

\* Each kind of step is an abstract action, or invisible.
LEMMA RecordRefines ==
  ASSUME RecordInv, RecordInv', [Next]_vars
  PROVE  [Abstract!Next]_<<Mapped, Certified>>
<1>1. CASE UNCHANGED record
  BY <1>1 DEF record, Mapped, Certified
<1>2. CASE Begins
  <2>1. state = "absent" /\ state' = "planning" /\ receipt' = receipt
    BY <1>2, StateFacts DEF Begins, winner
  <2>2. Mapped' = [Mapped EXCEPT !["it"] = "planning"] /\ Certified' = Certified
    BY <2>1 DEF Mapped, Certified
  <2>3. \A q \in {"it"} : Mapped[q] = "absent"
    BY <2>1 DEF Mapped
  <2>4. "absent" \notin Abstract!Active
    BY DEF Abstract!Active
  <2>5. Abstract!Create("it")
    BY <2>2, <2>3, <2>4 DEF Abstract!Create, Mapped, Certified
  <2> QED
    BY <2>5 DEF Abstract!Next
<1>3. ASSUME NEW t, NEW reason, Moves(t, reason)
      PROVE  Abstract!Next
  <2>1. permits(state, t) /\ state' = t /\ t \in States /\ winner(t, reason)
    BY <1>3 DEF Moves, winner
  <2>2. Mapped' = [Mapped EXCEPT !["it"] = t] /\ Mapped["it"] = state
    BY <2>1 DEF Mapped
  <2>3. CASE t \in Terminal
    <3>1. receipt' # NoReceipt /\ receipt'.state = t
      BY <2>1, <2>3 DEF RecordInv, ReceiptSealsChain
    <3>2. Certified' = [Certified EXCEPT !["it"] = t]
      BY <3>1 DEF Certified
    <3>3. Abstract!Close("it", t)
      BY <2>1, <2>2, <2>3, <3>2, SameVocabulary DEF Abstract!Close, Mapped, Certified
    <3> QED
      BY <2>3, <3>3, SameVocabulary DEF Abstract!Next
  <2>4. CASE t \notin Terminal
    <3>1. t \in Active /\ receipt' = receipt
      BY <2>1, <2>4 DEF States, winner
    <3>2. Certified' = Certified
      BY <3>1 DEF Certified
    <3>3. Abstract!Advance("it", t)
      BY <2>1, <2>2, <3>1, <3>2, SameVocabulary DEF Abstract!Advance, Mapped, Certified
    <3> QED
      BY <3>1, <3>3, SameVocabulary DEF Abstract!Next
  <2> QED
    BY <2>3, <2>4
<1> QED
  BY <1>1, <1>2, <1>3, StepKinds DEF vars

\* The value object implements the abstract lifecycle the durable broker implements:
\* permitted edges only, and the receipt in the step that closes the record.
THEOREM RecordImplements == Spec => ImplementsLifecycle
<1>1. Init => Abstract!Init
  BY DEF Init, Abstract!Init
<1>2. RecordInv /\ RecordInv' /\ [Next]_vars => [Abstract!Next]_(Abstract!vars)
  BY RecordRefines DEF Abstract!vars, Mapped, Certified
<1> QED
  BY <1>1, <1>2, RecordInductive, PTL DEF Spec, ImplementsLifecycle, Abstract!Spec
=============================================================================
