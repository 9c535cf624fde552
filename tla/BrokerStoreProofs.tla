-------------------------- MODULE BrokerStoreProofs --------------------------
(***************************************************************************)
(* Theorems about BrokerStore for every set of connections, requests,      *)
(* credentials, keys and rules, and for all bounds.                        *)
(***************************************************************************)
EXTENDS BrokerStore, TLAPS

\* TypeOK alone is not inductive: Tick advances both clocks and tests only utc.
TypeInv == TypeOK /\ mono <= utc

\* Every state has its reason, and reconciliation has two more.
LEMMA ReasonsKnown ==
  /\ \A t \in States : transition_reason[t] \in Reasons
  /\ \A t \in {"succeeded", "failed"} : reconcile_reason[t] \in Reasons
  /\ {"created", "planner_pending", "expired", "generation_stale"} \subseteq Reasons
PROOF
  <1>1. \A t \in States : transition_reason[t] \in Reasons
    BY DEF Reasons
  <1>2. \A t \in {"succeeded", "failed"} : reconcile_reason[t] \in Reasons
    BY DEF Reasons, reconcile_reason
  <1>3. /\ transition_reason["planning"] = "created"
        /\ transition_reason["pending"] = "planner_pending"
        /\ transition_reason["expired"] = "expired"
        /\ transition_reason["stale"] = "generation_stale"
    BY DEF transition_reason
  <1>4. {"planning", "pending", "expired", "stale"} \subseteq States
    BY DEF States, Active, Terminal
  <1> QED
    BY <1>1, <1>2, <1>3, <1>4

\* append_transition keeps the types of the rows it writes.
LEMMA AppendTyped ==
  ASSUME TypeOK, NEW r \in Requests, NEW t \in States, NEW reason \in Reasons,
         append_transition(r, t, reason)
  PROVE  /\ state' \in [Requests -> States \cup {"absent"}]
         /\ events' \in [Requests -> Seq(Events)]
PROOF
  <1>1. [state |-> t, reason |-> reason] \in Events
    BY DEF Events
  <1>2. Append(events[r], [state |-> t, reason |-> reason]) \in Seq(Events)
    BY <1>1 DEF TypeOK
  <1> QED
    BY <1>2 DEF TypeOK, append_transition

\* A receipt of a terminal state under a signing key is well formed.
LEMMA ReceiptTyped ==
  ASSUME TypeOK, NEW r \in Requests, NEW t \in Terminal, NEW k \in SigningKeys,
         NEW w \in Credentials \cup {NoCredential}, NEW b \in BOOLEAN
  PROVE  Receipt(r, t, k, w, b) \in Receipts
PROOF
  BY DEF TypeOK, Receipt, Receipts

\* create_receipt keeps the type of the receipt table.
LEMMA CreateTyped ==
  ASSUME TypeOK, NEW r \in Requests, NEW t \in Terminal, NEW k \in SigningKeys,
         NEW w \in Credentials \cup {NoCredential}, NEW b \in BOOLEAN,
         create_receipt(r, t, k, w, b)
  PROVE  receipts' \in [Requests -> Receipts \cup {NoReceipt}]
PROOF
  BY ReceiptTyped DEF TypeOK, create_receipt

\* A whole closing transaction keeps the types of what it writes.
LEMMA CloseTyped ==
  ASSUME TypeOK, NEW r \in Requests, NEW t \in Terminal, NEW k \in SigningKeys,
         NEW reason \in Reasons, NEW w \in Credentials \cup {NoCredential},
         NEW b \in BOOLEAN, CloseRequest(r, t, k, reason, w, b)
  PROVE  /\ state' \in [Requests -> States \cup {"absent"}]
         /\ events' \in [Requests -> Seq(Events)]
         /\ receipts' \in [Requests -> Receipts \cup {NoReceipt}]
PROOF
  <1>1. t \in States
    BY DEF States
  <1> QED
    BY <1>1, AppendTyped, CreateTyped DEF CloseRequest

\* Initially every value has its type.
LEMMA InitTyped == Init => TypeInv
PROOF
  BY BoundsAssumption DEF Init, TypeInv, TypeOK, DeviceIds, Generations, Epochs

\* What a call in progress carries.
LEMMA CallTyped ==
  ASSUME TypeOK, NEW c \in Connections, call[c] # NoCall
  PROVE  /\ call[c] \in Calls
         /\ call[c].request \in Requests /\ call[c].signer \in SigningKeys
         /\ call[c].decision \in {"approved", "denied"}
         /\ call[c].credential \in Credentials /\ call[c].count \in SignCounts
PROOF
  BY DEF TypeOK, Calls

\* The steps of the environment and the administration keep the types.
LEMMA EnvironmentTyped ==
  ASSUME TypeInv,
         \/ Tick \/ Reboot
         \/ \E c \in Connections :
              \/ Open(c) \/ Crash(c)
              \/ \E k \in SigningKeys : InitializeIdentity(c, k)
              \/ \E g \in Generations, set \in SUBSET Credentials :
                   ReplaceCredentials(c, g, set)
  PROVE  TypeInv'
PROOF
  <1> USE DEF TypeInv, TypeOK
  <1>1. CASE Tick
    BY <1>1, BoundsAssumption DEF Tick, durable, clocks, rows
  <1>2. CASE Reboot
    BY <1>2, BoundsAssumption DEF Reboot, durable, clocks, rows
  <1>3. ASSUME NEW c \in Connections, Open(c) PROVE TypeInv'
    BY <1>3 DEF Open, durable, clocks, DeviceIds
  <1>4. ASSUME NEW c \in Connections, Crash(c) PROVE TypeInv'
    BY <1>4 DEF Crash, durable, clocks
  <1>5. ASSUME NEW c \in Connections, NEW k \in SigningKeys, InitializeIdentity(c, k)
        PROVE TypeInv'
    BY <1>5 DEF InitializeIdentity, rows, credentialTable, clocks, DeviceIds
  <1>6. ASSUME NEW c \in Connections, NEW g \in Generations,
               NEW set \in SUBSET Credentials, ReplaceCredentials(c, g, set)
        PROVE TypeInv'
    BY <1>6 DEF ReplaceCredentials, rows, clocks
  <1> QED
    BY <1>1, <1>2, <1>3, <1>4, <1>5, <1>6

\* Submission keeps the types.
LEMMA SubmitTyped ==
  ASSUME TypeInv, NEW c \in Connections,
         \/ \E r \in Requests, uid \in Uids, key \in OperationKeys, p \in Packages,
               g \in Generations : SubmitNew(c, r, uid, key, p, g)
         \/ \E uid \in Uids, key \in OperationKeys, p \in Packages :
               SubmitRetry(c, uid, key, p)
  PROVE  TypeInv'
PROOF
  <1> USE DEF TypeInv, TypeOK
  <1>1. ASSUME NEW r \in Requests, NEW uid \in Uids, NEW key \in OperationKeys,
               NEW p \in Packages, NEW g \in Generations,
               SubmitNew(c, r, uid, key, p, g)
        PROVE TypeInv'
    <2>1. <<[state |-> "planning", reason |-> "created"]>> \in Seq(Events)
      BY ReasonsKnown DEF Events, States, Active
    <2>2. events' \in [Requests -> Seq(Events)]
      BY <1>1, <2>1 DEF SubmitNew
    <2>3. state' \in [Requests -> States \cup {"absent"}]
      BY <1>1 DEF SubmitNew, States, Active
    <2>4. device' \in [Requests -> DeviceIds]
      BY <1>1 DEF SubmitNew, Ready, Idle
    <2>5. input' \in [Requests -> Inputs \cup {NoInput}]
      BY <1>1 DEF SubmitNew, Inputs
    <2>6. acks' \subseteq Acks
      BY <1>1 DEF SubmitNew, Acks
    <2> QED
      BY <1>1, <2>2, <2>3, <2>4, <2>5, <2>6 DEF SubmitNew, credentialTable, clocks
  <1>2. ASSUME NEW uid \in Uids, NEW key \in OperationKeys, NEW p \in Packages,
               SubmitRetry(c, uid, key, p)
        PROVE TypeInv'
    <2>1. acks' \subseteq Acks
      BY <1>2 DEF SubmitRetry, Acks, lookup_idempotency
    <2> QED
      BY <1>2, <2>1 DEF SubmitRetry, durable, clocks
  <1> QED
    BY <1>1, <1>2

\* The transactions that move a row keep the types.
LEMMA TransitionTyped ==
  ASSUME TypeInv, NEW c \in Connections, NEW r \in Requests,
         \/ \E t \in Active : TransitionNonterminal(c, r, t)
         \/ \E k \in SigningKeys, t \in Terminal : TransitionTerminal(c, k, r, t)
         \/ \E k \in SigningKeys, x, y \in Lifetimes : PrepareForDecision(c, k, r, x, y)
         \/ \E k \in SigningKeys, t \in {"succeeded", "failed"} :
               ReconcileRecovery(c, k, r, t)
  PROVE  TypeInv'
PROOF
  <1>0. TypeOK
    BY DEF TypeInv
  <1>1. ASSUME NEW t \in Active, TransitionNonterminal(c, r, t) PROVE TypeInv'
    <2>1. t \in States /\ transition_reason[t] \in Reasons
      BY ReasonsKnown DEF States
    <2> QED
      BY <1>0, <1>1, <2>1, AppendTyped
      DEF TransitionNonterminal, TypeInv, TypeOK, credentialTable, clocks
  <1>2. ASSUME NEW k \in SigningKeys, NEW t \in Terminal, TransitionTerminal(c, k, r, t)
        PROVE TypeInv'
    <2>1. transition_reason[t] \in Reasons /\ evidence[r] \in BOOLEAN
      BY <1>0, ReasonsKnown DEF States, TypeOK
    <2>2. CloseRequest(r, t, k, transition_reason[t], NoCredential, evidence[r])
      BY <1>2 DEF TransitionTerminal
    <2>3. /\ state' \in [Requests -> States \cup {"absent"}]
          /\ events' \in [Requests -> Seq(Events)]
          /\ receipts' \in [Requests -> Receipts \cup {NoReceipt}]
      BY <1>0, <2>1, <2>2, CloseTyped, Zenon
    <2> QED
      BY <1>0, <1>2, <2>3
      DEF TransitionTerminal, TypeInv, TypeOK, credentialTable, clocks
  <1>3. ASSUME NEW k \in SigningKeys, NEW x \in Lifetimes, NEW y \in Lifetimes,
               PrepareForDecision(c, k, r, x, y)
        PROVE TypeInv'
    <2>1. "pending" \in States /\ "planner_pending" \in Reasons
      BY ReasonsKnown DEF States, Active
    <2>2. [boot |-> boots, expires |-> utc + x, deadline |-> mono + y] \in Bindings
      BY <1>0, BoundsAssumption DEF TypeOK, Bindings
    <2>3. binding' \in [Requests -> Bindings \cup {NoBinding}]
      BY <1>0, <1>3, <2>2 DEF PrepareForDecision, freeze_request, TypeOK
    <2> QED
      BY <1>0, <1>3, <2>1, <2>3, AppendTyped
      DEF PrepareForDecision, TypeInv, TypeOK, credentialTable, clocks
  <1>4. ASSUME NEW k \in SigningKeys, NEW t \in {"succeeded", "failed"},
               ReconcileRecovery(c, k, r, t)
        PROVE TypeInv'
    <2>1. t \in Terminal /\ reconcile_reason[t] \in Reasons
      BY ReasonsKnown DEF Terminal
    <2> QED
      BY <1>0, <1>4, <2>1, CloseTyped
      DEF ReconcileRecovery, TypeInv, TypeOK, credentialTable, clocks
  <1> QED
    BY <1>1, <1>2, <1>3, <1>4

\* start_boot keeps the types, however many rows it expires.
LEMMA StartBootTyped ==
  ASSUME TypeInv, NEW c \in Connections, NEW k \in SigningKeys, NEW epoch \in Epochs,
         StartBoot(c, k, epoch)
  PROVE  TypeInv'
PROOF
  <1>0. TypeOK
    BY DEF TypeInv
  <1>1. state' \in [Requests -> States \cup {"absent"}]
    BY <1>0 DEF StartBoot, TypeOK, States, Terminal
  <1>2. events' \in [Requests -> Seq(Events)]
    <2>1. [state |-> "expired", reason |-> "expired"] \in Events
      BY ReasonsKnown DEF Events, States, Terminal
    <2>2. \A r \in Requests :
            Append(events[r], [state |-> "expired", reason |-> "expired"]) \in Seq(Events)
      BY <1>0, <2>1 DEF TypeOK
    <2> QED
      BY <1>0, <2>2 DEF StartBoot, TypeOK
  <1>3. receipts' \in [Requests -> Receipts \cup {NoReceipt}]
    <2>1. \A r \in Requests :
            Receipt(r, "expired", k, NoCredential, evidence[r]) \in Receipts
      <3>1. "expired" \in Terminal
        BY DEF Terminal
      <3>2. \A r \in Requests : evidence[r] \in BOOLEAN
        BY <1>0 DEF TypeOK
      <3> QED
        BY <1>0, <3>1, <3>2, ReceiptTyped, Zenon
    <2> QED
      BY <1>0, <2>1 DEF StartBoot, TypeOK
  <1> QED
    BY <1>0, <1>1, <1>2, <1>3
    DEF StartBoot, TypeInv, TypeOK, credentialTable, clocks

\* A decision that closes its request before or instead of being committed.
LEMMA CloseInCallTyped ==
  ASSUME TypeInv, NEW c \in Connections, CloseUndecided(c) \/ CommitStale(c)
  PROVE  TypeInv'
PROOF
  <1> DEFINE r == call[c].request
             k == call[c].signer
  <1>0. TypeOK /\ call[c] # NoCall
    BY DEF TypeInv, CloseUndecided, CommitStale, InPhase
  <1>1. r \in Requests /\ k \in SigningKeys /\ evidence[r] \in BOOLEAN
    BY <1>0, CallTyped DEF TypeOK
  <1>2. PICK t \in Terminal, reason \in Reasons :
          CloseRequest(r, t, k, reason, NoCredential, evidence[r])
    <2>1. {"expired", "stale"} \subseteq Terminal
      BY DEF Terminal
    <2>2. CASE CloseUndecided(c)
      <3>1. call[c].phase \in Terminal /\ transition_reason[call[c].phase] \in Reasons
        BY <2>1, <2>2, ReasonsKnown DEF CloseUndecided, States
      <3>2. CloseRequest(r, call[c].phase, k, transition_reason[call[c].phase],
                         NoCredential, evidence[r])
        BY <2>2 DEF CloseUndecided
      <3> QED
        BY <3>1, <3>2, Zenon
    <2>3. CASE CommitStale(c)
      <3>1. CloseRequest(r, "stale", k, "generation_stale", NoCredential, evidence[r])
        BY <2>3 DEF CommitStale
      <3>2. "stale" \in Terminal /\ "generation_stale" \in Reasons
        BY <2>1, ReasonsKnown
      <3> QED
        BY <3>1, <3>2, Zenon
    <2> QED
      BY <2>2, <2>3
  <1>3. /\ state' \in [Requests -> States \cup {"absent"}]
        /\ events' \in [Requests -> Seq(Events)]
        /\ receipts' \in [Requests -> Receipts \cup {NoReceipt}]
    BY <1>0, <1>1, <1>2, CloseTyped, Zenon
  <1>4. call' = [call EXCEPT ![c] = NoCall]
    BY DEF CloseUndecided, CommitStale
  <1>5. UNCHANGED <<identity, bootEpoch, credentialTable, device, input, binding, evidence,
                    cached, acks, clocks>>
    BY DEF CloseUndecided, CommitStale
  <1> QED
    BY <1>0, <1>3, <1>4, <1>5 DEF TypeInv, TypeOK, credentialTable, clocks

\* The committed decision keeps the types.
LEMMA CommitTyped ==
  ASSUME TypeInv, NEW c \in Connections, CommitDecision(c)
  PROVE  TypeInv'
PROOF
  <1> DEFINE r == call[c].request
             d == call[c].decision
  <1>0. TypeOK /\ call[c] # NoCall
    BY DEF TypeInv, CommitDecision, InPhase
  <1>1. /\ r \in Requests /\ call[c].signer \in SigningKeys /\ evidence[r] \in BOOLEAN
        /\ d \in {"approved", "denied"} /\ call[c].credential \in Credentials
        /\ call[c].count \in Nat
    BY <1>0, CallTyped, BoundsAssumption DEF TypeOK
  <1>2. d \in States /\ transition_reason[d] \in Reasons
    BY <1>1, ReasonsKnown DEF States, Active, Terminal
  <1>3. append_transition(r, d, transition_reason[d])
    BY DEF CommitDecision
  <1>4. /\ state' \in [Requests -> States \cup {"absent"}]
        /\ events' \in [Requests -> Seq(Events)]
    BY <1>0, <1>1, <1>2, <1>3, AppendTyped
  <1>5. receipts' \in [Requests -> Receipts \cup {NoReceipt}]
    <2>1. CASE UNCHANGED receipts
      BY <1>0, <2>1 DEF TypeOK
    <2>2. CASE create_receipt(r, "denied", call[c].signer, call[c].credential, evidence[r])
      <3>1. "denied" \in Terminal /\ call[c].credential \in Credentials \cup {NoCredential}
        BY <1>1 DEF Terminal
      <3>2. Receipt(r, "denied", call[c].signer, call[c].credential, evidence[r])
              \in Receipts
        BY <1>0, <1>1, <3>1, ReceiptTyped, Zenon
      <3> QED
        BY <1>0, <2>2, <3>2 DEF TypeOK, create_receipt
    <2> QED
      BY <2>1, <2>2 DEF CommitDecision, decision_receipt
  <1>6. signCount' \in [Credentials -> Nat]
    BY <1>0, <1>1 DEF CommitDecision, raise_sign_count, TypeOK
  <1>7. call' \in [Connections -> Calls \cup {NoCall}]
    BY <1>0 DEF CommitDecision, TypeOK
  <1> QED
    BY <1>0, <1>4, <1>5, <1>6, <1>7 DEF CommitDecision, TypeInv, TypeOK, clocks

\* Beginning, reading for and abandoning a decision keep the types.
LEMMA ReadTyped ==
  ASSUME TypeInv, NEW c \in Connections,
         \/ ReadGeneration(c) \/ ReadCredentials(c) \/ AbandonDecision(c)
         \/ ReturnError(c)
         \/ \E k \in SigningKeys, r \in Requests, d \in {"approved", "denied"},
               w \in Credentials, n \in SignCounts : BeginDecision(c, k, r, d, w, n)
  PROVE  TypeInv'
PROOF
  <1> USE DEF TypeInv, TypeOK
  <1>0. ASSUME NEW ph \in Phases, call[c] # NoCall
        PROVE [call EXCEPT ![c].phase = ph] \in [Connections -> Calls \cup {NoCall}]
    <2>1. call[c] \in Calls
      BY <1>0
    <2>2. [call[c] EXCEPT !.phase = ph] \in Calls
      BY <2>1 DEF Calls
    <2> QED
      BY <2>2
  <1>1. call' \in [Connections -> Calls \cup {NoCall}]
    <2>1. CASE ReadGeneration(c)
      BY <1>0, <2>1 DEF ReadGeneration, InPhase, Phases
    <2>2. CASE ReadCredentials(c)
      BY <1>0, <2>2 DEF ReadCredentials, InPhase, Phases
    <2>3. CASE AbandonDecision(c)
      BY <1>0, <2>3 DEF AbandonDecision, Phases
    <2>5. CASE ReturnError(c)
      BY <2>5 DEF ReturnError
    <2>4. ASSUME NEW k \in SigningKeys, NEW r \in Requests,
                 NEW d \in {"approved", "denied"}, NEW w \in Credentials,
                 NEW n \in SignCounts, BeginDecision(c, k, r, d, w, n)
          PROVE call' \in [Connections -> Calls \cup {NoCall}]
      <3>1. \A ph \in Phases :
              [phase |-> ph, request |-> r, signer |-> k, decision |-> d,
               credential |-> w, count |-> n, utc |-> utc, mono |-> mono] \in Calls
        BY DEF Calls
      <3> QED
        BY <2>4, <3>1 DEF BeginDecision, Phases
    <2> QED
      BY <2>1, <2>2, <2>3, <2>4, <2>5
  <1>2. UNCHANGED <<durable, cached, acks, clocks>>
    BY DEF ReadGeneration, ReadCredentials, AbandonDecision, ReturnError, BeginDecision
  <1> QED
    BY <1>1, <1>2 DEF durable, clocks

\* Every step of the specification keeps the types.
LEMMA StepTyped == TypeInv /\ [Next]_vars => TypeInv'
PROOF
  <1> SUFFICES ASSUME TypeInv, [Next]_vars PROVE TypeInv'
    OBVIOUS
  <1>1. CASE UNCHANGED vars
    BY <1>1 DEF TypeInv, TypeOK, vars, durable, clocks
  <1>2. CASE Tick \/ Reboot
    BY <1>2, EnvironmentTyped
  <1>3. ASSUME NEW c \in Connections, Open(c) \/ Crash(c) PROVE TypeInv'
    BY <1>3, EnvironmentTyped
  <1>4. ASSUME NEW c \in Connections, Operation(c) PROVE TypeInv'
    BY <1>4, EnvironmentTyped, SubmitTyped, TransitionTyped, StartBootTyped, ReadTyped
    DEF Operation
  <1>5. ASSUME NEW c \in Connections, Decision(c) PROVE TypeInv'
    BY <1>5, ReadTyped, CloseInCallTyped, CommitTyped DEF Decision
  <1> QED
    BY <1>1, <1>2, <1>3, <1>4, <1>5 DEF Next

\* Type correctness of the durable broker, for all callers and any number of
\* connections: whatever calls interleave, every row, receipt and call in
\* progress stays well formed.
THEOREM TypeCorrect == Spec => []TypeOK
PROOF
  <1>1. TypeInv => TypeOK
    BY DEF TypeInv
  <1> QED
    BY <1>1, InitTyped, StepTyped, PTL DEF Spec

------------------------------------------------------------------------------
(***************************************************************************)
(* The four things a step can do to one row.  Every action is shown to do  *)
(* one of them to each row, once; the invariants follow from the shapes.   *)
(***************************************************************************)

Untouched(r) ==
  /\ state'[r] = state[r] /\ device'[r] = device[r] /\ events'[r] = events[r]
  /\ receipts'[r] = receipts[r] /\ evidence'[r] = evidence[r]

Created(r) ==
  /\ state[r] = "absent" /\ state'[r] = "planning"
  /\ events'[r] = <<[state |-> "planning", reason |-> "created"]>>
  /\ receipts'[r] = receipts[r] /\ evidence'[r] = evidence[r]

Extended(r, t) ==
  \E reason \in Reasons : events'[r] = Append(events[r], [state |-> t, reason |-> reason])

Moved(r, t) ==
  /\ permits(state[r], t) /\ state'[r] = t /\ Extended(r, t)
  /\ device'[r] = device[r] /\ receipts'[r] = receipts[r]

Closed(r, t) ==
  /\ LifecycleStep(state[r], t) /\ state'[r] = t /\ Extended(r, t)
  /\ device'[r] = device[r]
  /\ receipts[r] = NoReceipt
  /\ receipts'[r] # NoReceipt
  /\ receipts'[r].state = t /\ receipts'[r].signer = identity.key
  /\ identity' = identity

OpenRowStep(r) ==
  \/ Untouched(r)
  \/ \E t \in Active : Moved(r, t)
  \/ \E t \in Terminal : Closed(r, t)

RowStep(r) == OpenRowStep(r) \/ Created(r)

SubmitStep ==
  \E c \in Connections, r \in Requests, uid \in Uids, key \in OperationKeys,
     p \in Packages, g \in Generations : SubmitNew(c, r, uid, key, p, g)

\* Only open requests move, and the two halves of States are disjoint.
LEMMA EdgesLeaveActive ==
  /\ \A s, t : LifecycleStep(s, t) => s \in Active
  /\ Active \cap Terminal = {} /\ "absent" \notin States
PROOF
  <1>1. \A s, t : <<s, t>> \in Edges => s \in Active
    BY DEF Edges, Active
  <1>2. BootExpired \subseteq Active
    BY DEF BootExpired, Active
  <1>3. Active \cap Terminal = {} /\ "absent" \notin States
    BY DEF Active, Terminal, States
  <1> QED
    BY <1>1, <1>2, <1>3 DEF LifecycleStep, permits

\* append_transition touches one row.
LEMMA AppendShape ==
  ASSUME TypeOK, NEW r \in Requests, NEW t \in States, NEW reason \in Reasons,
         append_transition(r, t, reason)
  PROVE  /\ state'[r] = t /\ Extended(r, t)
         /\ \A q \in Requests \ {r} : state'[q] = state[q] /\ events'[q] = events[q]
PROOF
  BY DEF TypeOK, append_transition, Extended

\* A closing transaction closes one row and leaves the others untouched.
LEMMA CloseShape ==
  ASSUME TypeOK, NEW r \in Requests, NEW t \in Terminal, NEW k \in SigningKeys,
         NEW reason \in Reasons, NEW w, NEW b,
         LifecycleStep(state[r], t), CloseRequest(r, t, k, reason, w, b),
         UNCHANGED <<identity, device>>,
         \A q \in Requests \ {r} : evidence'[q] = evidence[q],
         Receipt(r, t, k, w, b) \in Receipts
  PROVE  Closed(r, t) /\ \A q \in Requests \ {r} : Untouched(q)
PROOF
  <1>1. t \in States
    BY DEF States
  <1>2. /\ append_transition(r, t, reason) /\ identity.key = k
        /\ receipts[r] = NoReceipt
        /\ receipts' = [receipts EXCEPT ![r] = Receipt(r, t, k, w, b)]
    BY DEF CloseRequest, create_receipt, ensure_identity
  <1>3. /\ state'[r] = t /\ Extended(r, t)
        /\ \A q \in Requests \ {r} : state'[q] = state[q] /\ events'[q] = events[q]
    BY <1>1, <1>2, AppendShape
  <1>4. /\ receipts'[r] = Receipt(r, t, k, w, b)
        /\ \A q \in Requests \ {r} : receipts'[q] = receipts[q]
    BY <1>2 DEF TypeOK
  <1>5. Receipt(r, t, k, w, b).state = t /\ Receipt(r, t, k, w, b).signer = k
    BY DEF Receipt
  <1>6. receipts'[r] # NoReceipt
    BY <1>4, NullAssumption
  <1> QED
    BY <1>2, <1>3, <1>4, <1>5, <1>6 DEF Closed, Untouched

\* Steps that write no row at all.
LEMMA RowsUnchanged ==
  ASSUME UNCHANGED rows
  PROVE  \A r \in Requests : OpenRowStep(r)
PROOF
  BY DEF rows, OpenRowStep, Untouched

\* Steps outside the request table.
LEMMA QuietSteps ==
  ASSUME NEW c \in Connections,
         \/ Tick \/ Reboot \/ Open(c) \/ Crash(c) \/ UNCHANGED vars
         \/ ReadGeneration(c) \/ ReadCredentials(c) \/ AbandonDecision(c)
         \/ ReturnError(c)
         \/ \E k \in SigningKeys : InitializeIdentity(c, k)
         \/ \E g \in Generations, set \in SUBSET Credentials : ReplaceCredentials(c, g, set)
         \/ \E k \in SigningKeys, r \in Requests, d \in {"approved", "denied"},
               w \in Credentials, n \in SignCounts : BeginDecision(c, k, r, d, w, n)
         \/ \E uid \in Uids, key \in OperationKeys, p \in Packages :
               SubmitRetry(c, uid, key, p)
  PROVE  UNCHANGED rows
PROOF
  BY DEF Tick, Reboot, Open, Crash, vars, ReadGeneration, ReadCredentials,
         AbandonDecision, ReturnError, InitializeIdentity, ReplaceCredentials, BeginDecision,
         SubmitRetry, durable, rows

\* submit creates one row.
LEMMA SubmitShape ==
  ASSUME TypeOK, NEW c \in Connections, NEW r \in Requests, NEW uid \in Uids,
         NEW key \in OperationKeys, NEW p \in Packages, NEW g \in Generations,
         SubmitNew(c, r, uid, key, p, g)
  PROVE  Created(r) /\ \A q \in Requests \ {r} : Untouched(q)
PROOF
  BY DEF TypeOK, SubmitNew, Created, Untouched

\* The transactions that move a row without closing it.
LEMMA MoveShape ==
  ASSUME TypeOK, NEW c \in Connections, NEW r \in Requests, NEW t \in Active,
         \/ TransitionNonterminal(c, r, t)
         \/ /\ t = "pending"
            /\ \E k \in SigningKeys, x, y \in Lifetimes : PrepareForDecision(c, k, r, x, y)
         \/ /\ t = "approved" /\ CommitDecision(c)
            /\ call[c].request = r /\ call[c].decision = t
  PROVE  Moved(r, t) /\ \A q \in Requests \ {r} : Untouched(q)
PROOF
  <1>1. t \in States
    BY DEF States
  <1>2. permits(state[r], t)
    <2>1. permits("planning", "pending") /\ permits("pending", "approved")
      BY DEF permits, Edges
    <2> QED
      BY <2>1 DEF TransitionNonterminal, PrepareForDecision, CommitDecision, StillDecidable
  <1>3. PICK reason \in Reasons : append_transition(r, t, reason)
    BY <1>1, ReasonsKnown DEF TransitionNonterminal, PrepareForDecision, CommitDecision
  <1>4. UNCHANGED <<device, receipts, evidence>>
    BY DEF TransitionNonterminal, PrepareForDecision, CommitDecision, decision_receipt
  <1> QED
    BY <1>1, <1>2, <1>3, <1>4, AppendShape DEF Moved, Untouched

\* transition_terminal and reconcile_recovery close one row.
LEMMA TerminalShape ==
  ASSUME TypeOK, NEW c \in Connections, NEW r \in Requests, NEW k \in SigningKeys,
         NEW t \in Terminal,
         TransitionTerminal(c, k, r, t) \/ (t \in {"succeeded", "failed"}
                                             /\ ReconcileRecovery(c, k, r, t))
  PROVE  Closed(r, t) /\ \A q \in Requests \ {r} : Untouched(q)
PROOF
  <1>1. CASE TransitionTerminal(c, k, r, t)
    <2>1. LifecycleStep(state[r], t)
      BY <1>1 DEF TransitionTerminal, LifecycleStep
    <2>2. CloseRequest(r, t, k, transition_reason[t], NoCredential, evidence[r])
      BY <1>1 DEF TransitionTerminal
    <2>3. transition_reason[t] \in Reasons /\ evidence[r] \in BOOLEAN
      BY ReasonsKnown DEF States, TypeOK
    <2>4. Receipt(r, t, k, NoCredential, evidence[r]) \in Receipts
      BY <2>3, ReceiptTyped, Zenon
    <2>5. /\ UNCHANGED <<identity, device>>
          /\ \A q \in Requests \ {r} : evidence'[q] = evidence[q]
      BY <1>1 DEF TransitionTerminal
    <2> QED
      BY <2>1, <2>2, <2>3, <2>4, <2>5, CloseShape, Zenon
  <1>2. CASE t \in {"succeeded", "failed"} /\ ReconcileRecovery(c, k, r, t)
    <2>1. LifecycleStep(state[r], t)
      BY <1>2 DEF ReconcileRecovery, LifecycleStep, permits, Edges
    <2>2. CloseRequest(r, t, k, reconcile_reason[t], NoCredential, TRUE)
      BY <1>2 DEF ReconcileRecovery
    <2>3. reconcile_reason[t] \in Reasons
      BY <1>2, ReasonsKnown
    <2>4. Receipt(r, t, k, NoCredential, TRUE) \in Receipts
      BY ReceiptTyped
    <2>5. /\ UNCHANGED <<identity, device>>
          /\ \A q \in Requests \ {r} : evidence'[q] = evidence[q]
      BY <1>2 DEF ReconcileRecovery, TypeOK
    <2> QED
      BY <2>1, <2>2, <2>3, <2>4, <2>5, CloseShape, Zenon
  <1> QED
    BY <1>1, <1>2

\* A call closes the row it is about: undecided, stale or denied.
LEMMA CallShape ==
  ASSUME TypeOK, NEW c \in Connections,
         CloseUndecided(c) \/ CommitStale(c)
           \/ (CommitDecision(c) /\ call[c].decision = "denied")
  PROVE  /\ \E t \in Terminal : Closed(call[c].request, t)
         /\ \A q \in Requests \ {call[c].request} : Untouched(q)
PROOF
  <1> DEFINE r == call[c].request
             k == call[c].signer
  <1>1. call[c] # NoCall
    BY DEF CloseUndecided, CommitStale, CommitDecision, InPhase
  <1>2. /\ r \in Requests /\ k \in SigningKeys /\ call[c].credential \in Credentials
        /\ evidence[r] \in BOOLEAN
    BY <1>1, CallTyped DEF TypeOK
  <1>3. state[r] = "pending"
    BY DEF CloseUndecided, CommitStale, CommitDecision, StillDecidable
  <1>4. {"expired", "stale", "denied"} \subseteq Terminal
    BY DEF Terminal
  <1>5. \A t \in {"expired", "stale", "denied"} : LifecycleStep(state[r], t)
    BY <1>3 DEF LifecycleStep, permits, Edges
  <1>6. PICK t \in {"expired", "stale", "denied"}, reason \in Reasons,
             w \in Credentials \cup {NoCredential} :
          CloseRequest(r, t, k, reason, w, evidence[r])
    <2>1. CASE CloseUndecided(c)
      <3>1. call[c].phase \in {"expired", "stale"}
        BY <2>1 DEF CloseUndecided
      <3>2. transition_reason[call[c].phase] \in Reasons
        BY <1>4, <3>1, ReasonsKnown DEF States
      <3>3. CloseRequest(r, call[c].phase, k, transition_reason[call[c].phase],
                         NoCredential, evidence[r])
        BY <2>1 DEF CloseUndecided
      <3> QED
        BY <3>1, <3>2, <3>3, Zenon
    <2>2. CASE CommitStale(c)
      <3>1. CloseRequest(r, "stale", k, "generation_stale", NoCredential, evidence[r])
        BY <2>2 DEF CommitStale
      <3>2. "generation_stale" \in Reasons
        BY ReasonsKnown
      <3> QED
        BY <3>1, <3>2, Zenon
    <2>3. CASE CommitDecision(c) /\ call[c].decision = "denied"
      <3>1. CloseRequest(r, "denied", k, transition_reason["denied"], call[c].credential,
                         evidence[r])
        BY <2>3 DEF CommitDecision, CloseRequest, decision_receipt
      <3>2. transition_reason["denied"] \in Reasons
        BY <1>4, ReasonsKnown DEF States
      <3> QED
        BY <1>2, <3>1, <3>2, Zenon
    <2> QED
      BY <2>1, <2>2, <2>3
  <1>7. Receipt(r, t, k, w, evidence[r]) \in Receipts
    BY <1>2, <1>4, <1>6, ReceiptTyped, Zenon
  <1>8. /\ UNCHANGED <<identity, device>>
        /\ \A q \in Requests \ {r} : evidence'[q] = evidence[q]
    BY DEF CloseUndecided, CommitStale, CommitDecision
  <1>9. t \in Terminal /\ LifecycleStep(state[r], t)
    BY <1>4, <1>5, <1>6
  <1> QED
    BY <1>2, <1>6, <1>7, <1>8, <1>9, CloseShape, Zenon

\* start_boot closes the rows it selects and leaves the others untouched.
LEMMA BootShape ==
  ASSUME TypeOK, NEW c \in Connections, NEW k \in SigningKeys, NEW epoch \in Epochs,
         StartBoot(c, k, epoch), NEW r \in Requests
  PROVE  IF r \in BootWork(epoch) THEN Closed(r, "expired") ELSE Untouched(r)
PROOF
  <1>1. /\ identity.key = k /\ UNCHANGED <<identity, device, evidence>>
        /\ r \in BootWork(epoch) => receipts[r] = NoReceipt
    BY DEF StartBoot, ensure_identity
  <1>2. CASE r \in BootWork(epoch)
    <2>1. /\ state'[r] = "expired"
          /\ events'[r] = Append(events[r], [state |-> "expired", reason |-> "expired"])
          /\ receipts'[r] = Receipt(r, "expired", k, NoCredential, evidence[r])
      BY <1>2 DEF StartBoot
    <2>2. Receipt(r, "expired", k, NoCredential, evidence[r]) \in Receipts
      <3>1. "expired" \in Terminal /\ evidence[r] \in BOOLEAN
        BY DEF Terminal, TypeOK
      <3> QED
        BY <3>1, ReceiptTyped, Zenon
    <2>3. /\ Receipt(r, "expired", k, NoCredential, evidence[r]).state = "expired"
          /\ Receipt(r, "expired", k, NoCredential, evidence[r]).signer = k
      BY DEF Receipt
    <2>4. LifecycleStep(state[r], "expired")
      BY <1>2 DEF BootWork, LifecycleStep
    <2>5. Extended(r, "expired")
      BY <2>1, ReasonsKnown DEF Extended
    <2> QED
      BY <1>1, <1>2, <2>1, <2>2, <2>3, <2>4, <2>5, NullAssumption DEF Closed
  <1>3. CASE r \notin BootWork(epoch)
    BY <1>1, <1>3 DEF StartBoot, Untouched
  <1> QED
    BY <1>2, <1>3

\* Every step but submit's insert leaves each row untouched, moves it or closes it.
LEMMA OpenRowSteps ==
  TypeInv /\ [Next]_vars => SubmitStep \/ \A r \in Requests : OpenRowStep(r)
PROOF
  <1> SUFFICES ASSUME TypeInv, [Next]_vars, ~SubmitStep
               PROVE \A r \in Requests : OpenRowStep(r)
    OBVIOUS
  <1>0. TypeOK
    BY DEF TypeInv
  <1>1. CASE UNCHANGED vars \/ Tick \/ Reboot
    BY <1>1, RowsUnchanged DEF vars, durable, rows, Tick, Reboot
  <1>2. ASSUME NEW c \in Connections, Open(c) \/ Crash(c)
        PROVE \A r \in Requests : OpenRowStep(r)
    BY <1>2, QuietSteps, RowsUnchanged
  <1>3. ASSUME NEW c \in Connections, Operation(c)
        PROVE \A r \in Requests : OpenRowStep(r)
    <2>1. CASE \/ \E k \in SigningKeys : InitializeIdentity(c, k)
               \/ \E g \in Generations, set \in SUBSET Credentials :
                    ReplaceCredentials(c, g, set)
               \/ \E k \in SigningKeys, r \in Requests, d \in {"approved", "denied"},
                     w \in Credentials, n \in SignCounts : BeginDecision(c, k, r, d, w, n)
               \/ \E uid \in Uids, key \in OperationKeys, p \in Packages :
                     SubmitRetry(c, uid, key, p)
      BY <2>1, QuietSteps, RowsUnchanged
    <2>2. ASSUME NEW r \in Requests, NEW uid \in Uids, NEW key \in OperationKeys,
                 NEW p \in Packages, NEW g \in Generations, SubmitNew(c, r, uid, key, p, g)
          PROVE \A q \in Requests : OpenRowStep(q)
      BY <2>2 DEF SubmitStep
    <2>3. ASSUME NEW r \in Requests, NEW t \in Active, TransitionNonterminal(c, r, t)
          PROVE \A q \in Requests : OpenRowStep(q)
      BY <1>0, <2>3, MoveShape DEF OpenRowStep
    <2>4. ASSUME NEW k \in SigningKeys, NEW r \in Requests, NEW x \in Lifetimes,
                 NEW y \in Lifetimes, PrepareForDecision(c, k, r, x, y)
          PROVE \A q \in Requests : OpenRowStep(q)
      <3>1. "pending" \in Active
        BY DEF Active
      <3> QED
        BY <1>0, <2>4, <3>1, MoveShape DEF OpenRowStep
    <2>5. ASSUME NEW k \in SigningKeys, NEW r \in Requests, NEW t \in Terminal,
                 TransitionTerminal(c, k, r, t)
          PROVE \A q \in Requests : OpenRowStep(q)
      BY <1>0, <2>5, TerminalShape DEF OpenRowStep
    <2>6. ASSUME NEW k \in SigningKeys, NEW r \in Requests,
                 NEW t \in {"succeeded", "failed"}, ReconcileRecovery(c, k, r, t)
          PROVE \A q \in Requests : OpenRowStep(q)
      <3>1. t \in Terminal
        BY DEF Terminal
      <3> QED
        BY <1>0, <2>6, <3>1, TerminalShape DEF OpenRowStep
    <2>7. ASSUME NEW k \in SigningKeys, NEW epoch \in Epochs, StartBoot(c, k, epoch)
          PROVE \A q \in Requests : OpenRowStep(q)
      <3>1. "expired" \in Terminal
        BY DEF Terminal
      <3> QED
        BY <1>0, <2>7, <3>1, BootShape DEF OpenRowStep
    <2> QED
      BY <1>3, <2>1, <2>2, <2>3, <2>4, <2>5, <2>6, <2>7 DEF Operation
  <1>4. ASSUME NEW c \in Connections, Decision(c)
        PROVE \A r \in Requests : OpenRowStep(r)
    <2>1. CASE \/ ReadGeneration(c) \/ ReadCredentials(c) \/ AbandonDecision(c)
               \/ ReturnError(c)
      BY <2>1, QuietSteps, RowsUnchanged
    <2>2. CASE CloseUndecided(c) \/ CommitStale(c)
                 \/ (CommitDecision(c) /\ call[c].decision = "denied")
      BY <1>0, <2>2, CallShape DEF OpenRowStep
    <2>3. CASE CommitDecision(c) /\ call[c].decision = "approved"
      <3>1. call[c].request \in Requests
        BY <1>0, <2>3, CallTyped DEF CommitDecision, InPhase
      <3>2. "approved" \in Active
        BY DEF Active
      <3> QED
        BY <1>0, <2>3, <3>1, <3>2, MoveShape DEF OpenRowStep
    <2>4. CommitDecision(c) => call[c].decision \in {"approved", "denied"}
      BY <1>0, CallTyped DEF CommitDecision, InPhase
    <2> QED
      BY <1>4, <2>1, <2>2, <2>3, <2>4 DEF Decision
  <1> QED
    BY <1>1, <1>2, <1>3, <1>4 DEF Next

\* Every step does one of the four things to every row.
LEMMA RowSteps == TypeInv /\ [Next]_vars => \A r \in Requests : RowStep(r)
PROOF
  <1> SUFFICES ASSUME TypeInv, [Next]_vars PROVE \A r \in Requests : RowStep(r)
    OBVIOUS
  <1>1. CASE SubmitStep
    BY <1>1, SubmitShape DEF SubmitStep, RowStep, OpenRowStep, TypeInv
  <1> QED
    BY <1>1, OpenRowSteps DEF RowStep

\* initialize_identity never replaces a pinned key.
LEMMA KeyPinnedOnce ==
  TypeInv /\ [Next]_vars => identity.key = NoKey \/ identity'.key = identity.key
PROOF
  <1> SUFFICES ASSUME TypeInv, [Next]_vars
               PROVE  identity.key = NoKey \/ identity'.key = identity.key
    OBVIOUS
  <1>1. CASE UNCHANGED vars \/ Tick \/ Reboot
    BY <1>1 DEF vars, Tick, Reboot, durable
  <1>2. ASSUME NEW c \in Connections, Open(c) \/ Crash(c) \/ Decision(c)
        PROVE UNCHANGED identity
    BY <1>2 DEF Open, Crash, Decision, ReadGeneration, ReadCredentials, CloseUndecided,
                CommitStale, CommitDecision, AbandonDecision, ReturnError, durable
  <1>3. ASSUME NEW c \in Connections, Operation(c)
        PROVE identity.key = NoKey \/ identity'.key = identity.key
    <2>1. ASSUME NEW k \in SigningKeys, InitializeIdentity(c, k)
          PROVE identity.key = NoKey \/ identity'.key = identity.key
      BY <2>1 DEF InitializeIdentity
    <2>2. ASSUME NEW k \in SigningKeys, NEW epoch \in Epochs, StartBoot(c, k, epoch)
          PROVE UNCHANGED identity
      BY <2>2 DEF StartBoot
    <2>3. ASSUME NEW r \in Requests, NEW uid \in Uids, NEW key \in OperationKeys,
                 NEW p \in Packages, NEW g \in Generations, SubmitNew(c, r, uid, key, p, g)
          PROVE UNCHANGED identity
      BY <2>3 DEF SubmitNew
    <2>4. ASSUME NEW uid \in Uids, NEW key \in OperationKeys, NEW p \in Packages,
                 SubmitRetry(c, uid, key, p)
          PROVE UNCHANGED identity
      BY <2>4 DEF SubmitRetry, durable
    <2>5. ASSUME NEW g \in Generations, NEW set \in SUBSET Credentials,
                 ReplaceCredentials(c, g, set)
          PROVE UNCHANGED identity
      BY <2>5 DEF ReplaceCredentials
    <2>6. ASSUME NEW r \in Requests, NEW t \in Active, TransitionNonterminal(c, r, t)
          PROVE UNCHANGED identity
      BY <2>6 DEF TransitionNonterminal
    <2>7. ASSUME NEW k \in SigningKeys, NEW r \in Requests,
                 \/ \E t \in Terminal : TransitionTerminal(c, k, r, t)
                 \/ \E x, y \in Lifetimes : PrepareForDecision(c, k, r, x, y)
                 \/ \E t \in {"succeeded", "failed"} : ReconcileRecovery(c, k, r, t)
                 \/ \E d \in {"approved", "denied"}, w \in Credentials, n \in SignCounts :
                      BeginDecision(c, k, r, d, w, n)
          PROVE UNCHANGED identity
      BY <2>7 DEF TransitionTerminal, PrepareForDecision, ReconcileRecovery, BeginDecision,
                  durable
    <2> QED
      BY <1>3, <2>1, <2>2, <2>3, <2>4, <2>5, <2>6, <2>7 DEF Operation
  <1> QED
    BY <1>1, <1>2, <1>3 DEF Next

\* Every request is closed exactly when it has its one receipt, the receipt names
\* the state the row is in, and the pinned key signed it: for all callers, with
\* or without obligations.
THEOREM ReceiptsCertify == Spec => []ReceiptIffTerminal
PROOF
  <1>1. Init => ReceiptIffTerminal
    BY EdgesLeaveActive DEF Init, ReceiptIffTerminal, States
  <1>2. TypeInv /\ ReceiptIffTerminal /\ [Next]_vars => ReceiptIffTerminal'
    <2> SUFFICES ASSUME TypeInv, ReceiptIffTerminal, [Next]_vars, NEW r \in Requests
                 PROVE /\ state'[r] \in Terminal <=> receipts'[r] # NoReceipt
                       /\ receipts'[r] # NoReceipt =>
                            /\ receipts'[r].state = state'[r]
                            /\ receipts'[r].signer = identity'.key
      BY DEF ReceiptIffTerminal
    <2>1. /\ state[r] \in Terminal <=> receipts[r] # NoReceipt
          /\ receipts[r] # NoReceipt => /\ receipts[r].state = state[r]
                                        /\ receipts[r].signer = identity.key
      BY DEF ReceiptIffTerminal
    <2>2. receipts[r] # NoReceipt => identity'.key = identity.key
      BY <2>1, KeyPinnedOnce, NullAssumption DEF TypeInv, TypeOK, Receipts
    <2>3. CASE Untouched(r)
      BY <2>1, <2>2, <2>3 DEF Untouched
    <2>4. CASE Created(r)
      BY <2>1, <2>4, EdgesLeaveActive DEF Created, States, Active, Terminal
    <2>5. ASSUME NEW t \in Active, Moved(r, t)
          PROVE state'[r] \notin Terminal /\ receipts'[r] = NoReceipt
      BY <2>1, <2>5, EdgesLeaveActive DEF Moved, LifecycleStep
    <2>6. ASSUME NEW t \in Terminal, Closed(r, t)
          PROVE /\ state'[r] \in Terminal /\ receipts'[r] # NoReceipt
                /\ receipts'[r].state = state'[r] /\ receipts'[r].signer = identity'.key
      BY <2>6 DEF Closed
    <2> QED
      BY <2>3, <2>4, <2>5, <2>6, RowSteps DEF RowStep, OpenRowStep
  <1> QED
    BY <1>1, <1>2, InitTyped, StepTyped, PTL DEF Spec

\* The event log of one row, as EventsFollowLifecycle states it for all.
LogFollows(log, s) ==
  /\ s = "absent" <=> log = <<>>
  /\ log # <<>> => log[1].state = "planning" /\ log[Len(log)].state = s
  /\ \A i \in 1 .. Len(log) - 1 : LifecycleStep(log[i].state, log[i + 1].state)

\* Appending the event of a lifecycle step to a log keeps it a lifecycle.
LEMMA LogExtends ==
  ASSUME NEW log \in Seq(Events), NEW s \in States, NEW t \in States, NEW reason \in Reasons,
         LogFollows(log, s), LifecycleStep(s, t)
  PROVE  LogFollows(Append(log, [state |-> t, reason |-> reason]), t)
PROOF
  <1> DEFINE e == [state |-> t, reason |-> reason]
             new == Append(log, e)
  <1>1. s # "absent" /\ t # "absent"
    BY EdgesLeaveActive
  <1>2. log # <<>> /\ Len(log) \in Nat \ {0}
    BY <1>1 DEF LogFollows
  <1>3. /\ Len(new) = Len(log) + 1 /\ new # <<>> /\ new[Len(new)] = e
        /\ \A i \in 1 .. Len(log) : new[i] = log[i]
    BY <1>2 DEF Events
  <1>4. new[1].state = "planning" /\ new[Len(new)].state = t
    BY <1>2, <1>3 DEF LogFollows
  <1>5. ASSUME NEW i \in 1 .. Len(new) - 1
        PROVE LifecycleStep(new[i].state, new[i + 1].state)
    <2>1. CASE i = Len(log)
      BY <1>2, <1>3, <2>1 DEF LogFollows
    <2>2. CASE i # Len(log)
      <3>1. i \in 1 .. Len(log) - 1 /\ i \in 1 .. Len(log) /\ i + 1 \in 1 .. Len(log)
        BY <1>2, <1>3, <2>2
      <3> QED
        BY <1>3, <3>1 DEF LogFollows
    <2> QED
      BY <2>1, <2>2
  <1> HIDE DEF new
  <1> QED
    BY <1>1, <1>3, <1>4, <1>5 DEF LogFollows

\* A step on a row keeps its log a lifecycle that ends in its state.
LEMMA LogKept ==
  ASSUME TypeInv, [Next]_vars, NEW r \in Requests, LogFollows(events[r], state[r])
  PROVE  LogFollows(events'[r], state'[r])
PROOF
  <1>0. events[r] \in Seq(Events) /\ state[r] \in States \cup {"absent"}
    BY DEF TypeInv, TypeOK
  <1>1. CASE Untouched(r)
    BY <1>1 DEF Untouched
  <1>2. CASE Created(r)
    <2> DEFINE one == <<[state |-> "planning", reason |-> "created"]>>
    <2>1. one # <<>> /\ Len(one) = 1 /\ one[1].state = "planning"
      OBVIOUS
    <2> QED
      BY <1>2, <2>1 DEF Created, LogFollows
  <1>3. ASSUME NEW t \in States, LifecycleStep(state[r], t), Extended(r, t), state'[r] = t
        PROVE LogFollows(events'[r], state'[r])
    <2>1. state[r] \in States
      BY <1>3, EdgesLeaveActive DEF States
    <2> QED
      BY <1>0, <1>3, <2>1, LogExtends DEF Extended
  <1> QED
    BY <1>1, <1>2, <1>3, RowSteps DEF RowStep, OpenRowStep, Moved, Closed, LifecycleStep, States

\* EventsFollowLifecycle says LogFollows of every row.
LEMMA LogsAreLifecycles ==
  EventsFollowLifecycle <=> \A r \in Requests : LogFollows(events[r], state[r])
PROOF
  BY DEF EventsFollowLifecycle, LogFollows

\* The durable event chain of every request starts at planning, takes only
\* permitted edges (or the reboot expiry) and ends in the state of the row, for
\* all callers.
THEOREM EventChain == Spec => []EventsFollowLifecycle
PROOF
  <1>1. Init => EventsFollowLifecycle
    BY DEF Init, EventsFollowLifecycle
  <1>2. TypeInv /\ EventsFollowLifecycle /\ [Next]_vars => EventsFollowLifecycle'
    <2> SUFFICES ASSUME TypeInv, EventsFollowLifecycle, [Next]_vars, NEW r \in Requests
                 PROVE  LogFollows(events'[r], state'[r])
      BY DEF EventsFollowLifecycle, LogFollows
    <2> QED
      BY LogKept, LogsAreLifecycles
  <1> QED
    BY <1>1, <1>2, InitTyped, StepTyped, PTL DEF Spec

\* A closed request, its receipt, its evidence and its events never change again,
\* and no event is ever rewritten: for all callers.
THEOREM ClosedForever == Spec => ClosedIsFinal
PROOF
  <1>1. TypeInv /\ EventsFollowLifecycle /\ [Next]_vars =>
          [\A r \in Requests :
             /\ state[r] \in Terminal =>
                  /\ state'[r] = state[r] /\ receipts'[r] = receipts[r]
                  /\ events'[r] = events[r] /\ evidence'[r] = evidence[r]
             /\ SubSeq(events'[r], 1, Len(events[r])) = events[r]]_vars
    <2> SUFFICES ASSUME TypeInv, EventsFollowLifecycle, [Next]_vars, NEW r \in Requests
                 PROVE /\ state[r] \in Terminal =>
                            /\ state'[r] = state[r] /\ receipts'[r] = receipts[r]
                            /\ events'[r] = events[r] /\ evidence'[r] = evidence[r]
                       /\ SubSeq(events'[r], 1, Len(events[r])) = events[r]
      OBVIOUS
    <2>1. events[r] \in Seq(Events)
      BY DEF TypeInv, TypeOK
    <2>2. SubSeq(events[r], 1, Len(events[r])) = events[r]
      BY <2>1
    <2>3. ASSUME NEW t \in States, Extended(r, t)
          PROVE SubSeq(events'[r], 1, Len(events[r])) = events[r]
      BY <2>1, <2>3 DEF Extended, Events
    <2>4. CASE Untouched(r)
      BY <2>2, <2>4 DEF Untouched
    <2>5. CASE Created(r)
      <3>1. events[r] = <<>> /\ state[r] \notin Terminal
        BY <2>5, EdgesLeaveActive DEF Created, EventsFollowLifecycle, States
      <3>2. SubSeq(events'[r], 1, 0) = <<>>
        BY <2>5 DEF Created
      <3> QED
        BY <3>1, <3>2
    <2>6. ASSUME NEW t \in States, LifecycleStep(state[r], t), Extended(r, t)
          PROVE /\ state[r] \notin Terminal
                /\ SubSeq(events'[r], 1, Len(events[r])) = events[r]
      BY <2>3, <2>6, EdgesLeaveActive
    <2> QED
      BY <2>4, <2>5, <2>6, RowSteps DEF RowStep, OpenRowStep, Moved, Closed, LifecycleStep, States
  <1> QED
    BY <1>1, InitTyped, StepTyped, EventChain, PTL DEF Spec, ClosedIsFinal

------------------------------------------------------------------------------
(***************************************************************************)
(* The device slot.  Uniqueness is guarded per cached device id, so the    *)
(* invariant also says under which id an active row was inserted.          *)
(***************************************************************************)

SlotInv ==
  /\ \A r \in Requests : state[r] \in Active => device[r] = "pinned"
  /\ OneActive

\* Every step but submit leaves the set of active rows alone or shrinks it.
LEMMA SlotOnlyShrinks ==
  ASSUME TypeInv, SlotInv,
         \A r \in Requests : OpenRowStep(r)
  PROVE  SlotInv'
PROOF
  <1>1. \A r \in Requests : state'[r] \in Active =>
          state[r] \in Active /\ device'[r] = device[r]
    BY EdgesLeaveActive DEF OpenRowStep, Untouched, Moved, Closed, LifecycleStep
  <1> QED
    BY <1>1 DEF SlotInv, OneActive

\* submit on a connection that knows the pinned device id takes a free slot.
LEMMA SlotTaken ==
  ASSUME TypeInv, SlotInv, Obliged("pin_first"), NEW c \in Connections,
         NEW r \in Requests, NEW uid \in Uids, NEW key \in OperationKeys,
         NEW p \in Packages, NEW g \in Generations, SubmitNew(c, r, uid, key, p, g)
  PROVE  SlotInv'
PROOF
  <1>0. TypeOK
    BY DEF TypeInv
  <1>1. \A q \in Requests : state[q] \notin Active
    BY DEF SubmitNew, ActiveOn, SlotInv
  <1>2. \A q \in Requests \ {r} : state'[q] = state[q]
    BY <1>0, SubmitShape DEF Untouched
  <1>3. device'[r] = "pinned"
    BY DEF SubmitNew, TypeInv, TypeOK
  <1> QED
    BY <1>1, <1>2, <1>3 DEF SlotInv, OneActive

\* When callers submit only through connections that know the pinned device id,
\* the broker has at most one active request, however connections and processes
\* interleave: the per-connection cache and the per-id index together make the
\* one device slot.
THEOREM OneSlot == ASSUME Obliged("pin_first") PROVE Spec => []OneActive
PROOF
  <1>1. Init => SlotInv
    BY EdgesLeaveActive DEF Init, SlotInv, OneActive, States
  <1>2. TypeInv /\ SlotInv /\ [Next]_vars => SlotInv'
    BY OpenRowSteps, SlotOnlyShrinks, SlotTaken DEF SubmitStep
  <1>3. SlotInv => OneActive
    BY DEF SlotInv
  <1> QED
    BY <1>1, <1>2, <1>3, InitTyped, StepTyped, PTL DEF Spec

------------------------------------------------------------------------------
(***************************************************************************)
(* Refinement of RequestLifecycle.                                         *)
(***************************************************************************)

\* The refinement mapping of the receipt table.
Certified == [r \in Requests |-> IF receipts[r] = NoReceipt THEN "none"
                                                            ELSE receipts[r].state]

\* The vocabulary of the abstract module is the one of this module.
LEMMA SameVocabulary ==
  /\ Abstract!Active = Active /\ Abstract!Terminal = Terminal
  /\ Abstract!BootExpired = BootExpired
  /\ \A s, t : Abstract!permits(s, t) <=> permits(s, t)
PROOF
  BY DEF Abstract!Active, Active, Abstract!Terminal, Terminal, Abstract!BootExpired,
         BootExpired, Abstract!permits, permits, Abstract!Edges, Edges

\* A step that changes no row but r's is an EXCEPT on the abstract variables.
LEMMA OneRowChanged ==
  ASSUME TypeInv, TypeInv', NEW r \in Requests,
         \A q \in Requests \ {r} : Untouched(q)
  PROVE  /\ state' = [state EXCEPT ![r] = state'[r]]
         /\ Certified' = [Certified EXCEPT ![r] = Certified'[r]]
PROOF
  <1>1. state' = [state EXCEPT ![r] = state'[r]]
    BY DEF TypeInv, TypeOK, Untouched
  <1>2. \A q \in Requests \ {r} : Certified'[q] = Certified[q]
    BY DEF Certified, Untouched
  <1> QED
    BY <1>1, <1>2 DEF Certified

\* Each shape of a row step is an abstract action, because no other row can be
\* active in the same state.
LEMMA StepRefines ==
  ASSUME Obliged("pin_first"), TypeInv, TypeInv', SlotInv, [Next]_vars
  PROVE  [Abstract!Next]_<<state, Certified>>
PROOF
  <1>1. CASE SubmitStep
    <2>1. PICK r \in Requests : /\ Created(r) /\ \A q \in Requests \ {r} : Untouched(q)
                                /\ \A q \in Requests : state[q] \notin Active
      <3>1. PICK c \in Connections, r \in Requests, uid \in Uids, key \in OperationKeys,
                 p \in Packages, g \in Generations : SubmitNew(c, r, uid, key, p, g)
        BY <1>1 DEF SubmitStep
      <3>2. Created(r) /\ \A q \in Requests \ {r} : Untouched(q)
        BY <3>1, SubmitShape DEF TypeInv
      <3>3. \A q \in Requests : state[q] \notin Active
        BY <3>1 DEF SubmitNew, ActiveOn, SlotInv
      <3> QED
        BY <3>2, <3>3
    <2>2. /\ state' = [state EXCEPT ![r] = "planning"]
          /\ Certified' = Certified
      BY <2>1, OneRowChanged DEF Created, Certified
    <2>3. Abstract!Create(r)
      BY <2>1, <2>2, SameVocabulary DEF Abstract!Create, Created, Certified
    <2> QED
      BY <2>3 DEF Abstract!Next
  <1>2. CASE \A r \in Requests : Untouched(r)
    <2>1. state' = state /\ Certified' = Certified
      BY <1>2 DEF Untouched, Certified, TypeInv, TypeOK
    <2> QED
      BY <2>1
  <1>3. ASSUME NEW r \in Requests, ~Untouched(r), \A q \in Requests : OpenRowStep(q)
        PROVE Abstract!Next
    <2>1. \A q \in Requests : ~Untouched(q) => state[q] \in Active
      BY <1>3, EdgesLeaveActive DEF OpenRowStep, Moved, Closed, LifecycleStep
    <2>2. \A q \in Requests \ {r} : Untouched(q)
      BY <1>3, <2>1 DEF SlotInv, OneActive
    <2>3. ASSUME NEW t \in Active, Moved(r, t) PROVE Abstract!Next
      <3>1. state' = [state EXCEPT ![r] = t] /\ Certified' = Certified
        BY <2>2, <2>3, OneRowChanged DEF Moved, Certified
      <3>2. Abstract!Advance(r, t)
        BY <2>3, <3>1, SameVocabulary DEF Abstract!Advance, Moved, Certified
      <3> QED
        BY <3>2, SameVocabulary DEF Abstract!Next
    <2>4. ASSUME NEW t \in Terminal, Closed(r, t) PROVE Abstract!Next
      <3>1. /\ state' = [state EXCEPT ![r] = t]
            /\ Certified' = [Certified EXCEPT ![r] = t]
        BY <2>2, <2>4, OneRowChanged DEF Closed, Certified
      <3>2. Abstract!Close(r, t)
        BY <2>4, <3>1, SameVocabulary
        DEF Abstract!Close, Closed, LifecycleStep, Certified
      <3> QED
        BY <3>2, SameVocabulary DEF Abstract!Next
    <2> QED
      BY <1>3, <2>3, <2>4 DEF OpenRowStep
  <1> QED
    BY <1>1, <1>2, <1>3, OpenRowSteps

\* Under the same rule the durable broker implements the abstract lifecycle: one
\* slot, permitted edges only, and a receipt written by the closing step.
THEOREM Refinement == ASSUME Obliged("pin_first") PROVE Spec => ImplementsLifecycle
PROOF
  <1>1. Init => Abstract!Init
    BY DEF Init, Abstract!Init
  <1>2. Init => SlotInv
    BY EdgesLeaveActive DEF Init, SlotInv, OneActive, States
  <1>3. TypeInv /\ SlotInv /\ [Next]_vars => SlotInv'
    BY OpenRowSteps, SlotOnlyShrinks, SlotTaken DEF SubmitStep
  <1>4. TypeInv /\ TypeInv' /\ SlotInv /\ [Next]_vars => [Abstract!Next]_(Abstract!vars)
    BY StepRefines DEF Abstract!vars, Certified
  <1> QED
    BY <1>1, <1>2, <1>3, <1>4, InitTyped, StepTyped, PTL
    DEF Spec, ImplementsLifecycle, Abstract!Spec
=============================================================================
