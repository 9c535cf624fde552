------------------------ MODULE BrokerDecisionProofs ------------------------
(***************************************************************************)
(* Every decision the durable broker records was authorised: proved from   *)
(* what a call in progress knows, for any number of racing connections.    *)
(* Then what the broker remembers: the answers submit gave, the plan a     *)
(* pending request is bound to, the boot it belongs to, and a receipt that *)
(* tells how its request was closed.                                       *)
(***************************************************************************)
EXTENDS BrokerStoreProofs

\* What holds of a call between its reads.  The row it read is past planning, so
\* its binding and input are frozen; a call past the expiry check began in time;
\* a verified call's credential is pinned unless the generation moved on.
CallKnows(c) ==
  LET r == call[c].request IN
  /\ state[r] \notin {"absent", "planning"}
  /\ call[c].phase \in {"generation", "credentials", "commit"} =>
       call[c].utc < binding[r].expires /\ call[c].mono < binding[r].deadline
  /\ call[c].phase = "commit" =>
       /\ input[r].generation <= generation
       /\ generation = input[r].generation => call[c].credential \in pinned

CallInv ==
  /\ \A r \in Requests : state[r] # "absent" => input[r] # NoInput
  /\ \A c \in Connections : call[c] # NoCall => CallKnows(c)

\* Operations that leave the call of every connection and the credentials alone.
RowOperation(c) ==
  \/ \E r \in Requests, uid \in Uids, key \in OperationKeys, p \in Packages,
        g \in Generations : SubmitNew(c, r, uid, key, p, g)
  \/ \E uid \in Uids, key \in OperationKeys, p \in Packages : SubmitRetry(c, uid, key, p)
  \/ \E r \in Requests, t \in Active : TransitionNonterminal(c, r, t)
  \/ \E k \in SigningKeys :
       \/ InitializeIdentity(c, k)
       \/ \E epoch \in Epochs : StartBoot(c, k, epoch)
       \/ \E r \in Requests :
            \/ \E t \in Terminal : TransitionTerminal(c, k, r, t)
            \/ \E x, y \in Lifetimes : PrepareForDecision(c, k, r, x, y)
            \/ \E t \in {"succeeded", "failed"} : ReconcileRecovery(c, k, r, t)

\* Those operations write neither calls nor credentials.
LEMMA RowOperationFrame ==
  ASSUME NEW c \in Connections, RowOperation(c)
  PROVE  UNCHANGED <<call, generation, pinned>>
PROOF
  <1> USE DEF credentialTable, durable
  <1>1. ASSUME NEW r \in Requests, NEW uid \in Uids, NEW key \in OperationKeys,
               NEW p \in Packages, NEW g \in Generations, SubmitNew(c, r, uid, key, p, g)
        PROVE UNCHANGED <<call, generation, pinned>>
    BY <1>1 DEF SubmitNew
  <1>2. ASSUME NEW uid \in Uids, NEW key \in OperationKeys, NEW p \in Packages,
               SubmitRetry(c, uid, key, p)
        PROVE UNCHANGED <<call, generation, pinned>>
    BY <1>2 DEF SubmitRetry
  <1>3. ASSUME NEW r \in Requests, NEW t \in Active, TransitionNonterminal(c, r, t)
        PROVE UNCHANGED <<call, generation, pinned>>
    BY <1>3 DEF TransitionNonterminal
  <1>4. ASSUME NEW k \in SigningKeys,
               InitializeIdentity(c, k) \/ \E epoch \in Epochs : StartBoot(c, k, epoch)
        PROVE UNCHANGED <<call, generation, pinned>>
    BY <1>4 DEF InitializeIdentity, StartBoot
  <1>5. ASSUME NEW k \in SigningKeys, NEW r \in Requests,
               \/ \E t \in Terminal : TransitionTerminal(c, k, r, t)
               \/ \E x, y \in Lifetimes : PrepareForDecision(c, k, r, x, y)
               \/ \E t \in {"succeeded", "failed"} : ReconcileRecovery(c, k, r, t)
        PROVE UNCHANGED <<call, generation, pinned>>
    BY <1>5 DEF TransitionTerminal, PrepareForDecision, ReconcileRecovery
  <1> QED
    BY <1>1, <1>2, <1>3, <1>4, <1>5 DEF RowOperation

\* A row keeps its input; past planning it keeps its binding and never goes back.
FrozenRow(r) ==
  /\ state[r] # "absent" => input'[r] = input[r]
  /\ state[r] \notin {"absent", "planning"} =>
       /\ state'[r] \notin {"absent", "planning"}
       /\ binding'[r] = binding[r]

\* submit inserts absent rows and prepare_for_decision binds planning rows; nothing
\* else writes input or binding.
LEMMA RowsFreeze ==
  ASSUME TypeInv, [Next]_vars, NEW r \in Requests
  PROVE  FrozenRow(r)
PROOF
  <1>0. TypeOK
    BY DEF TypeInv
  <1>1. state[r] \notin {"absent", "planning"} => state'[r] \notin {"absent", "planning"}
    <2>1. \A s, t : permits(s, t) => t \notin {"absent", "planning"}
      BY DEF permits, Edges
    <2>2. "absent" \notin Terminal /\ "planning" \notin Terminal
      BY DEF Terminal
    <2> QED
      BY <2>1, <2>2, RowSteps DEF RowStep, OpenRowStep, Untouched, Created, Moved, Closed
  <1>2. CASE UNCHANGED <<input, binding>>
    BY <1>1, <1>2 DEF FrozenRow
  <1>3. CASE UNCHANGED vars \/ Tick \/ Reboot
    BY <1>2, <1>3 DEF vars, durable, Tick, Reboot
  <1>4. ASSUME NEW c \in Connections, Open(c) \/ Crash(c) \/ Decision(c)
        PROVE FrozenRow(r)
    BY <1>2, <1>4
    DEF Open, Crash, Decision, ReadGeneration, ReadCredentials, CloseUndecided,
        CommitStale, CommitDecision, AbandonDecision, ReturnError, durable
  <1>5. ASSUME NEW c \in Connections, Operation(c) PROVE FrozenRow(r)
    <2>1. ASSUME NEW q \in Requests, NEW uid \in Uids, NEW key \in OperationKeys,
                 NEW p \in Packages, NEW g \in Generations, SubmitNew(c, q, uid, key, p, g)
          PROVE FrozenRow(r)
      BY <1>0, <1>1, <2>1 DEF SubmitNew, FrozenRow, TypeOK
    <2>2. ASSUME NEW k \in SigningKeys, NEW q \in Requests, NEW x \in Lifetimes,
                 NEW y \in Lifetimes, PrepareForDecision(c, k, q, x, y)
          PROVE FrozenRow(r)
      BY <1>0, <1>1, <2>2 DEF PrepareForDecision, freeze_request, FrozenRow, TypeOK
    <2>3. CASE \/ \E uid \in Uids, key \in OperationKeys, p \in Packages :
                    SubmitRetry(c, uid, key, p)
               \/ \E q \in Requests, t \in Active : TransitionNonterminal(c, q, t)
               \/ \E g \in Generations, set \in SUBSET Credentials :
                    ReplaceCredentials(c, g, set)
      BY <1>2, <2>3 DEF SubmitRetry, TransitionNonterminal, ReplaceCredentials, durable, rows
    <2>4. ASSUME NEW k \in SigningKeys,
                 \/ InitializeIdentity(c, k)
                 \/ \E epoch \in Epochs : StartBoot(c, k, epoch)
                 \/ \E q \in Requests, t \in Terminal : TransitionTerminal(c, k, q, t)
                 \/ \E q \in Requests, t \in {"succeeded", "failed"} :
                      ReconcileRecovery(c, k, q, t)
                 \/ \E q \in Requests, d \in {"approved", "denied"}, w \in Credentials,
                       n \in SignCounts : BeginDecision(c, k, q, d, w, n)
          PROVE FrozenRow(r)
      BY <1>2, <2>4 DEF InitializeIdentity, StartBoot, TransitionTerminal,
                        ReconcileRecovery, BeginDecision, durable, rows
    <2> QED
      BY <1>5, <2>1, <2>2, <2>3, <2>4 DEF Operation
  <1> QED
    BY <1>3, <1>4, <1>5 DEF Next

\* What the credential table may do in a step when generations advance.
CredentialStep ==
  \/ UNCHANGED <<generation, pinned>>
  \/ generation' > generation

\* A step of call c that is not its beginning, one of its reads or its failure
\* either ends it or leaves it as it was.
LEMMA CallSteps ==
  ASSUME TypeInv, [Next]_vars, Obliged("advance_generation"), NEW c \in Connections,
         call'[c] # NoCall
  PROVE  \/ call'[c] = call[c] /\ CredentialStep
         \/ ReadGeneration(c) \/ ReadCredentials(c) \/ AbandonDecision(c)
         \/ \E k \in SigningKeys, r \in Requests, d \in {"approved", "denied"},
              w \in Credentials, n \in SignCounts : BeginDecision(c, k, r, d, w, n)
PROOF
  <1>0. call \in [Connections -> Calls \cup {NoCall}]
    BY DEF TypeInv, TypeOK
  <1> USE DEF CredentialStep
  <1>1. CASE UNCHANGED vars \/ Tick \/ Reboot
    BY <1>1 DEF vars, durable, Tick, Reboot
  <1>2. ASSUME NEW b \in Connections, Open(b) \/ Crash(b)
        PROVE call'[c] = call[c] /\ CredentialStep
    BY <1>0, <1>2 DEF Open, Crash, durable
  <1>3. ASSUME NEW b \in Connections, Operation(b)
        PROVE \/ call'[c] = call[c] /\ CredentialStep
              \/ \E k \in SigningKeys, r \in Requests, d \in {"approved", "denied"},
                    w \in Credentials, n \in SignCounts : BeginDecision(c, k, r, d, w, n)
    <2>1. CASE RowOperation(b)
      BY <2>1, RowOperationFrame
    <2>2. ASSUME NEW g \in Generations, NEW set \in SUBSET Credentials,
                 ReplaceCredentials(b, g, set)
          PROVE call'[c] = call[c] /\ CredentialStep
      BY <2>2 DEF ReplaceCredentials
    <2>3. ASSUME NEW k \in SigningKeys, NEW r \in Requests,
                 NEW d \in {"approved", "denied"}, NEW w \in Credentials,
                 NEW n \in SignCounts, BeginDecision(b, k, r, d, w, n), b # c
          PROVE call'[c] = call[c] /\ CredentialStep
      BY <1>0, <2>3 DEF BeginDecision, durable
    <2> QED
      BY <1>3, <2>1, <2>2, <2>3 DEF Operation, RowOperation
  <1>4. ASSUME NEW b \in Connections, Decision(b)
        PROVE \/ call'[c] = call[c] /\ CredentialStep
              \/ ReadGeneration(c) \/ ReadCredentials(c) \/ AbandonDecision(c)
    <2>1. UNCHANGED <<generation, pinned>>
      BY <1>4 DEF Decision, ReadGeneration, ReadCredentials, CloseUndecided, CommitStale,
                  CommitDecision, AbandonDecision, ReturnError, durable, credentialTable
    <2>2. CASE b # c
      BY <1>0, <1>4, <2>1, <2>2
      DEF Decision, ReadGeneration, ReadCredentials, CloseUndecided, CommitStale,
          CommitDecision, AbandonDecision, ReturnError
    <2>3. CASE b = c
      BY <1>0, <1>4, <2>3 DEF Decision, CloseUndecided, CommitStale, CommitDecision,
                              ReturnError
    <2> QED
      BY <2>2, <2>3
  <1> QED
    BY <1>1, <1>2, <1>3, <1>4 DEF Next

\* What a call knows stays true while others run.
LEMMA KnowledgeKept ==
  ASSUME TypeInv, TypeInv', CallInv, NEW c \in Connections, call[c] # NoCall,
         call'[c] = call[c], CredentialStep, \A r \in Requests : FrozenRow(r)
  PROVE  CallKnows(c)'
PROOF
  <1> DEFINE r == call[c].request
  <1>1. r \in Requests /\ CallKnows(c)
    BY CallTyped DEF CallInv, TypeInv
  <1>2. /\ state'[r] \notin {"absent", "planning"}
        /\ input'[r] = input[r] /\ binding'[r] = binding[r]
    BY <1>1 DEF CallKnows, FrozenRow
  <1>3. input[r] \in Inputs
    BY <1>1 DEF CallKnows, CallInv, TypeInv, TypeOK
  <1>4. input[r].generation \in Int /\ generation \in Int /\ generation' \in Int
    BY <1>3, BoundsAssumption DEF Inputs, Generations, TypeInv, TypeOK
  <1> QED
    BY <1>1, <1>2, <1>4 DEF CallKnows, CredentialStep

\* Each read adds what it has checked; a call that failed claims nothing more.
LEMMA ReadLearns ==
  ASSUME TypeInv, CallInv, NEW c \in Connections, call'[c] # NoCall,
         ReadGeneration(c) \/ ReadCredentials(c) \/ AbandonDecision(c)
  PROVE  CallKnows(c)'
PROOF
  <1> DEFINE r == call[c].request
  <1>0. call[c] # NoCall /\ call \in [Connections -> Calls \cup {NoCall}]
    BY DEF ReadGeneration, ReadCredentials, AbandonDecision, InPhase, TypeInv, TypeOK
  <1>1. call[c] \in Calls /\ r \in Requests /\ CallKnows(c)
    BY <1>0, CallTyped DEF CallInv, TypeInv
  <1>2. UNCHANGED <<state, input, binding, generation, pinned>>
    BY DEF ReadGeneration, ReadCredentials, AbandonDecision, durable
  <1>3. input[r].generation \in Int /\ generation \in Int
    <2>1. input[r] \in Inputs
      BY <1>1 DEF CallKnows, CallInv, TypeInv, TypeOK
    <2> QED
      BY <2>1, BoundsAssumption DEF Inputs, Generations, TypeInv, TypeOK
  <1>4. CASE ReadGeneration(c)
    <2>1. PICK ph \in {"credentials", "stale"} : call' = [call EXCEPT ![c].phase = ph]
      BY <1>4 DEF ReadGeneration
    <2>2. call'[c] = [call[c] EXCEPT !.phase = ph]
      BY <1>0, <2>1
    <2>3. /\ call'[c].phase = ph /\ call'[c].request = r
          /\ call'[c].utc = call[c].utc /\ call'[c].mono = call[c].mono
          /\ call[c].phase = "generation"
      BY <1>1, <1>4, <2>2 DEF Calls, ReadGeneration, InPhase
    <2> QED
      BY <1>1, <1>2, <2>3 DEF CallKnows
  <1>5. CASE ReadCredentials(c) /\ AssertionVerified(c)
    <2>1. call' = [call EXCEPT ![c].phase = "commit"]
      BY <1>5 DEF ReadCredentials
    <2>2. call'[c] = [call[c] EXCEPT !.phase = "commit"]
      BY <1>0, <2>1
    <2>3. /\ call'[c].phase = "commit" /\ call'[c].request = r
          /\ call'[c].utc = call[c].utc /\ call'[c].mono = call[c].mono
          /\ call'[c].credential = call[c].credential /\ call[c].phase = "credentials"
      BY <1>1, <1>5, <2>2 DEF Calls, ReadCredentials, InPhase
    <2> QED
      BY <1>1, <1>2, <1>3, <1>5, <2>3 DEF CallKnows, AssertionVerified
  <1>6. CASE (ReadCredentials(c) /\ ~AssertionVerified(c)) \/ AbandonDecision(c)
    <2>1. call' = [call EXCEPT ![c].phase = "failed"]
      BY <1>6 DEF ReadCredentials, AbandonDecision
    <2>2. call'[c] = [call[c] EXCEPT !.phase = "failed"]
      BY <1>0, <2>1
    <2>3. call'[c].phase = "failed" /\ call'[c].request = r
      BY <1>1, <2>2 DEF Calls
    <2> QED
      BY <1>1, <1>2, <2>3 DEF CallKnows
  <1> QED
    BY <1>4, <1>5, <1>6

\* A call that gets past the expiry check began before both deadlines.
LEMMA BeginLearns ==
  ASSUME TypeInv, NEW c \in Connections, NEW k \in SigningKeys, NEW r \in Requests,
         NEW d \in {"approved", "denied"}, NEW w \in Credentials, NEW n \in SignCounts,
         BeginDecision(c, k, r, d, w, n)
  PROVE  CallKnows(c)'
PROOF
  <1>0. call \in [Connections -> Calls \cup {NoCall}]
    BY DEF TypeInv, TypeOK
  <1>1. binding[r] \in Bindings /\ state[r] = "pending"
    BY DEF BeginDecision, TypeInv, TypeOK
  <1>2. /\ binding[r].expires \in Int /\ binding[r].deadline \in Int
        /\ utc \in Int /\ mono \in Int
    BY <1>1, BoundsAssumption DEF Bindings, TypeInv, TypeOK
  <1>3. UNCHANGED <<state, input, binding, generation, pinned>>
    BY DEF BeginDecision, durable
  <1>4. PICK ph \in {"expired", "generation"} :
          /\ call'[c] = [phase |-> ph, request |-> r, signer |-> k, decision |-> d,
                         credential |-> w, count |-> n, utc |-> utc, mono |-> mono]
          /\ ph = "generation" => utc < binding[r].expires /\ mono < binding[r].deadline
    BY <1>0, <1>2 DEF BeginDecision
  <1> QED
    BY <1>1, <1>3, <1>4 DEF CallKnows

\* CallInv is inductive when generations advance.
LEMMA CallInvKept ==
  ASSUME Obliged("advance_generation"), TypeInv, TypeInv', CallInv, [Next]_vars
  PROVE  CallInv'
PROOF
  <1>1. \A r \in Requests : FrozenRow(r)
    BY RowsFreeze
  <1>2. ASSUME NEW r \in Requests, state'[r] # "absent" PROVE input'[r] # NoInput
    <2>1. CASE state[r] # "absent"
      BY <1>1, <2>1 DEF FrozenRow, CallInv
    <2>2. CASE state[r] = "absent"
      <3>1. Created(r)
        BY <1>2, <2>2, RowSteps, EdgesLeaveActive
        DEF RowStep, OpenRowStep, Untouched, Moved, Closed, LifecycleStep, States
      <3>2. ~OpenRowStep(r)
        BY <2>2, <3>1, EdgesLeaveActive
        DEF OpenRowStep, Untouched, Moved, Closed, LifecycleStep, States, Created
      <3>3. PICK c \in Connections, q \in Requests, uid \in Uids, key \in OperationKeys,
                 p \in Packages, g \in Generations : SubmitNew(c, q, uid, key, p, g)
        BY <3>2, OpenRowSteps DEF SubmitStep
      <3>4. q = r
        BY <3>1, <3>3, SubmitShape DEF Untouched, Created, TypeInv
      <3>5. input'[r] = [uid |-> uid, key |-> key, package |-> p, generation |-> g]
        BY <3>3, <3>4 DEF SubmitNew, TypeInv, TypeOK
      <3>6. input'[r] \in Inputs
        BY <3>5 DEF Inputs
      <3> QED
        BY <3>6, NullAssumption
    <2> QED
      BY <2>1, <2>2
  <1>3. ASSUME NEW c \in Connections, call'[c] # NoCall PROVE CallKnows(c)'
    <2>1. CASE call'[c] = call[c] /\ CredentialStep
      BY <1>1, <1>3, <2>1, KnowledgeKept
    <2>2. CASE ReadGeneration(c) \/ ReadCredentials(c) \/ AbandonDecision(c)
      BY <1>3, <2>2, ReadLearns
    <2>3. CASE \E k \in SigningKeys, r \in Requests, d \in {"approved", "denied"},
                 w \in Credentials, n \in SignCounts : BeginDecision(c, k, r, d, w, n)
      BY <2>3, BeginLearns
    <2> QED
      BY <1>3, <2>1, <2>2, <2>3, CallSteps
  <1> QED
    BY <1>2, <1>3 DEF CallInv

\* Only CommitDecision takes a request from pending to a decision when callers do
\* not pass decisions to the generic transition functions.
LEMMA DecidedByCommit ==
  ASSUME Obliged("decide"), TypeInv, [Next]_vars, NEW r \in Requests,
         NEW d \in {"approved", "denied"}, Decided(r, d)
  PROVE  \E c \in Connections : CommitDecision(c) /\ call[c].request = r
                                  /\ call[c].decision = d
PROOF
  <1>0. /\ TypeOK /\ state[r] = "pending" /\ state'[r] = d /\ ~Untouched(r)
        /\ ~UNCHANGED rows
    BY DEF TypeInv, Decided, Untouched, rows
  <1>1. CASE UNCHANGED vars \/ Tick \/ Reboot
    BY <1>0, <1>1 DEF vars, durable, rows, Tick, Reboot
  <1>2. ASSUME NEW c \in Connections, Open(c) \/ Crash(c) PROVE FALSE
    BY <1>0, <1>2, QuietSteps
  <1>3. ASSUME NEW c \in Connections, Operation(c) PROVE FALSE
    <2>1. CASE \/ \E k \in SigningKeys : InitializeIdentity(c, k)
               \/ \E g \in Generations, set \in SUBSET Credentials :
                    ReplaceCredentials(c, g, set)
               \/ \E k \in SigningKeys, q \in Requests, e \in {"approved", "denied"},
                     w \in Credentials, n \in SignCounts : BeginDecision(c, k, q, e, w, n)
               \/ \E uid \in Uids, key \in OperationKeys, p \in Packages :
                     SubmitRetry(c, uid, key, p)
      BY <1>0, <2>1, QuietSteps
    <2>2. ASSUME NEW q \in Requests, NEW uid \in Uids, NEW key \in OperationKeys,
                 NEW p \in Packages, NEW g \in Generations, SubmitNew(c, q, uid, key, p, g)
          PROVE FALSE
      BY <1>0, <2>2, SubmitShape DEF Created
    <2>3. ASSUME NEW q \in Requests, NEW t \in Active, TransitionNonterminal(c, q, t)
          PROVE FALSE
      BY <1>0, <2>3, MoveShape DEF Moved, TransitionNonterminal, CallerMayPass
    <2>4. ASSUME NEW k \in SigningKeys, NEW q \in Requests, NEW x \in Lifetimes,
                 NEW y \in Lifetimes, PrepareForDecision(c, k, q, x, y)
          PROVE FALSE
      <3>1. "pending" \in Active
        BY DEF Active
      <3> QED
        BY <1>0, <2>4, <3>1, MoveShape DEF Moved
    <2>5. ASSUME NEW k \in SigningKeys, NEW q \in Requests, NEW t \in Terminal,
                 TransitionTerminal(c, k, q, t)
          PROVE FALSE
      BY <1>0, <2>5, TerminalShape DEF Closed, TransitionTerminal, CallerMayPass
    <2>6. ASSUME NEW k \in SigningKeys, NEW q \in Requests,
                 NEW t \in {"succeeded", "failed"}, ReconcileRecovery(c, k, q, t)
          PROVE FALSE
      <3>1. t \in Terminal
        BY DEF Terminal
      <3> QED
        BY <1>0, <2>6, <3>1, TerminalShape DEF Closed
    <2>7. ASSUME NEW k \in SigningKeys, NEW epoch \in Epochs, StartBoot(c, k, epoch)
          PROVE FALSE
      BY <1>0, <2>7, BootShape DEF Closed
    <2> QED
      BY <1>3, <2>1, <2>2, <2>3, <2>4, <2>5, <2>6, <2>7 DEF Operation
  <1>4. ASSUME NEW c \in Connections, Decision(c)
        PROVE CommitDecision(c) /\ call[c].request = r /\ call[c].decision = d
    <2>1. CASE \/ ReadGeneration(c) \/ ReadCredentials(c) \/ AbandonDecision(c)
               \/ ReturnError(c)
      BY <1>0, <2>1, QuietSteps
    <2>2. CASE CloseUndecided(c) \/ CommitStale(c)
      <3>1. call[c].request = r
        BY <1>0, <2>2, CallShape
      <3>2. call[c] # NoCall
        BY <2>2 DEF CloseUndecided, CommitStale, InPhase
      <3>3. state'[r] \in {"expired", "stale"}
        BY <1>0, <2>2, <3>1
        DEF CloseUndecided, CommitStale, CloseRequest, append_transition, TypeOK
      <3> QED
        BY <1>0, <3>3
    <2>3. CASE CommitDecision(c)
      <3>1. /\ call[c].request \in Requests /\ call[c].decision \in {"approved", "denied"}
        BY <1>0, <2>3, CallTyped DEF CommitDecision, InPhase
      <3>2. /\ state'[call[c].request] = call[c].decision
            /\ \A q \in Requests \ {call[c].request} : state'[q] = state[q]
        BY <1>0, <2>3, <3>1 DEF CommitDecision, append_transition, TypeOK
      <3> QED
        BY <1>0, <2>3, <3>1, <3>2
    <2> QED
      BY <1>4, <2>1, <2>2, <2>3 DEF Decision
  <1> QED
    BY <1>1, <1>2, <1>3, <1>4 DEF Next

\* Every approval and denial the broker records was committed by a call that made
\* exactly that decision, by a credential pinned at that instant under the
\* request's generation, in a call begun before both deadlines; provided root
\* advances generations and decisions go through apply_webauthn_submission.
THEOREM DecisionsAuthorised ==
  ASSUME Obliged("advance_generation"), Obliged("decide")
  PROVE  Spec => DecisionAuthorised
PROOF
  <1>1. Init => CallInv
    BY DEF Init, CallInv
  <1>2. TypeInv /\ TypeInv' /\ CallInv /\ [Next]_vars => CallInv'
    BY CallInvKept
  <1>3. TypeInv /\ CallInv /\ [Next]_vars =>
          [\A r \in Requests, d \in {"approved", "denied"} : Decided(r, d) =>
             \E c \in Connections :
               /\ InPhase(c, "commit")
               /\ call[c].request = r /\ call[c].decision = d
               /\ call[c].credential \in pinned /\ generation = input[r].generation
               /\ call[c].utc < binding[r].expires /\ call[c].mono < binding[r].deadline]_vars
    <2> SUFFICES ASSUME TypeInv, CallInv, [Next]_vars, NEW r \in Requests,
                        NEW d \in {"approved", "denied"}, Decided(r, d)
                 PROVE \E c \in Connections :
                         /\ InPhase(c, "commit")
                         /\ call[c].request = r /\ call[c].decision = d
                         /\ call[c].credential \in pinned /\ generation = input[r].generation
                         /\ call[c].utc < binding[r].expires
                         /\ call[c].mono < binding[r].deadline
      OBVIOUS
    <2>1. PICK c \in Connections : CommitDecision(c) /\ call[c].request = r
                                     /\ call[c].decision = d
      BY DecidedByCommit
    <2>2. InPhase(c, "commit") /\ generation = input[r].generation
      BY <2>1 DEF CommitDecision, StillDecidable
    <2>3. CallKnows(c) /\ call[c].phase = "commit"
      BY <2>2 DEF CallInv, InPhase
    <2> QED
      BY <2>1, <2>2, <2>3 DEF CallKnows
  <1> QED
    BY <1>1, <1>2, <1>3, InitTyped, StepTyped, PTL DEF Spec, DecisionAuthorised

-----------------------------------------------------------------------------

SubmitRetryStep ==
  \E c \in Connections, uid \in Uids, key \in OperationKeys, p \in Packages :
    SubmitRetry(c, uid, key, p)

ReplaceStep ==
  \E c \in Connections, g \in Generations, set \in SUBSET Credentials :
    ReplaceCredentials(c, g, set)

PrepareStep(r) ==
  \E c \in Connections, k \in SigningKeys, x, y \in Lifetimes :
    PrepareForDecision(c, k, r, x, y)

TerminalStep(r) ==
  \E c \in Connections, k \in SigningKeys, t \in Terminal : TransitionTerminal(c, k, r, t)

ReconcileStep(r) ==
  \E c \in Connections, k \in SigningKeys, t \in {"succeeded", "failed"} :
    ReconcileRecovery(c, k, r, t)

BootStep ==
  \E c \in Connections, k \in SigningKeys, epoch \in Epochs : StartBoot(c, k, epoch)

\* The transactions that write the request table or the boot epoch, one by one.
LEMMA RowWriters ==
  ASSUME [Next]_vars
  PROVE  \/ UNCHANGED <<rows, bootEpoch>>
         \/ SubmitStep \/ BootStep
         \/ \E r \in Requests : \/ \E c \in Connections, t \in Active :
                                     TransitionNonterminal(c, r, t)
                                \/ PrepareStep(r) \/ TerminalStep(r) \/ ReconcileStep(r)
         \/ \E c \in Connections : CloseUndecided(c) \/ CommitStale(c) \/ CommitDecision(c)
PROOF
  <1>1. CASE UNCHANGED vars \/ Tick \/ Reboot
    BY <1>1 DEF vars, durable, rows, Tick, Reboot
  <1>2. ASSUME NEW c \in Connections, Open(c) \/ Crash(c)
        PROVE UNCHANGED <<rows, bootEpoch>>
    BY <1>2 DEF Open, Crash, durable, rows
  <1>3. ASSUME NEW c \in Connections, Decision(c)
        PROVE \/ UNCHANGED <<rows, bootEpoch>>
              \/ CloseUndecided(c) \/ CommitStale(c) \/ CommitDecision(c)
    BY <1>3 DEF Decision, ReadGeneration, ReadCredentials, AbandonDecision, ReturnError,
                durable, rows
  <1>4. ASSUME NEW c \in Connections,
               \/ \E k \in SigningKeys : InitializeIdentity(c, k)
               \/ \E g \in Generations, set \in SUBSET Credentials :
                    ReplaceCredentials(c, g, set)
               \/ \E k \in SigningKeys, r \in Requests, d \in {"approved", "denied"},
                     w \in Credentials, n \in SignCounts : BeginDecision(c, k, r, d, w, n)
               \/ \E uid \in Uids, key \in OperationKeys, p \in Packages :
                     SubmitRetry(c, uid, key, p)
        PROVE UNCHANGED <<rows, bootEpoch>>
    BY <1>4 DEF InitializeIdentity, ReplaceCredentials, BeginDecision, SubmitRetry,
                durable, rows
  <1>5. ASSUME NEW c \in Connections, Operation(c)
        PROVE \/ UNCHANGED <<rows, bootEpoch>>
              \/ SubmitStep \/ BootStep
              \/ \E r \in Requests : \/ \E t \in Active : TransitionNonterminal(c, r, t)
                                     \/ PrepareStep(r) \/ TerminalStep(r) \/ ReconcileStep(r)
    BY <1>4, <1>5
    DEF Operation, SubmitStep, BootStep, PrepareStep, TerminalStep, ReconcileStep
  <1> QED
    BY <1>1, <1>2, <1>3, <1>5 DEF Next

------------------------------------------------------------------------------
(***************************************************************************)
(* Idempotency.                                                            *)
(***************************************************************************)

\* What an answer of submit says stays written in the row it names, and the rows
\* of one requester and operation key are one row.
AckInv ==
  /\ \A r \in Requests : state[r] # "absent" => input[r] # NoInput
  /\ \A r, q \in Requests :
       /\ state[r] # "absent" /\ state[q] # "absent"
       /\ input[r].uid = input[q].uid /\ input[r].key = input[q].key
       => r = q
  /\ \A a \in acks : /\ state[a.request] # "absent"
                     /\ input[a.request].uid = a.uid /\ input[a.request].key = a.key
                     /\ input[a.request].package = a.package

\* submit's insert is the only way out of "absent", and rows never go back.
LEMMA RowsStay ==
  ASSUME TypeInv, [Next]_vars, NEW r \in Requests
  PROVE  /\ state[r] # "absent" => state'[r] # "absent" /\ input'[r] = input[r]
         /\ state[r] = "absent" /\ ~SubmitStep => state'[r] = "absent"
PROOF
  <1>1. state[r] # "absent" => input'[r] = input[r]
    BY RowsFreeze DEF FrozenRow
  <1>2. \A s, t : LifecycleStep(s, t) => s # "absent"
    BY EdgesLeaveActive DEF States
  <1>3. "absent" \notin Active /\ "absent" \notin Terminal
    BY EdgesLeaveActive DEF States
  <1>4. OpenRowStep(r) => (state[r] = "absent" <=> state'[r] = "absent")
    BY <1>2, <1>3 DEF OpenRowStep, Untouched, Moved, Closed, LifecycleStep
  <1>5. state[r] # "absent" => state'[r] # "absent"
    BY <1>4, RowSteps DEF RowStep, Created
  <1> QED
    BY <1>1, <1>4, <1>5, OpenRowSteps

\* The steps that answer a submission.
LEMMA AckSteps ==
  ASSUME [Next]_vars
  PROVE  acks' = acks \/ SubmitStep \/ SubmitRetryStep
PROOF
  <1>1. CASE UNCHANGED vars \/ Tick \/ Reboot
    BY <1>1 DEF vars, Tick, Reboot
  <1>2. ASSUME NEW c \in Connections, Open(c) \/ Crash(c) \/ Decision(c)
        PROVE acks' = acks
    BY <1>2 DEF Open, Crash, Decision, ReadGeneration, ReadCredentials, CloseUndecided,
                CommitStale, CommitDecision, AbandonDecision, ReturnError
  <1>3. ASSUME NEW c \in Connections, Operation(c)
        PROVE acks' = acks \/ SubmitStep \/ SubmitRetryStep
    <2>1. CASE \/ \E r \in Requests, t \in Active : TransitionNonterminal(c, r, t)
               \/ \E g \in Generations, set \in SUBSET Credentials :
                    ReplaceCredentials(c, g, set)
               \/ \E k \in SigningKeys :
                    \/ InitializeIdentity(c, k)
                    \/ \E epoch \in Epochs : StartBoot(c, k, epoch)
      BY <2>1 DEF TransitionNonterminal, ReplaceCredentials, InitializeIdentity, StartBoot
    <2>2. ASSUME NEW k \in SigningKeys, NEW r \in Requests,
                 \/ \E t \in Terminal : TransitionTerminal(c, k, r, t)
                 \/ \E x, y \in Lifetimes : PrepareForDecision(c, k, r, x, y)
                 \/ \E t \in {"succeeded", "failed"} : ReconcileRecovery(c, k, r, t)
                 \/ \E d \in {"approved", "denied"}, w \in Credentials, n \in SignCounts :
                      BeginDecision(c, k, r, d, w, n)
          PROVE acks' = acks
      BY <2>2 DEF TransitionTerminal, PrepareForDecision, ReconcileRecovery, BeginDecision
    <2> QED
      BY <1>3, <2>1, <2>2 DEF Operation, SubmitStep, SubmitRetryStep
  <1> QED
    BY <1>1, <1>2, <1>3 DEF Next

\* A first submission: its key had no row, and the answer is what it inserts.
LEMMA FirstAnswer ==
  ASSUME TypeInv, AckInv, [Next]_vars, SubmitStep
  PROVE  AckInv'
PROOF
  <1>1. PICK c \in Connections, r \in Requests, uid \in Uids, key \in OperationKeys,
             p \in Packages, g \in Generations : SubmitNew(c, r, uid, key, p, g)
    BY DEF SubmitStep
  <1> DEFINE new == [uid |-> uid, key |-> key, package |-> p, generation |-> g]
             ack == [uid |-> uid, key |-> key, package |-> p, request |-> r]
  <1>2. /\ state[r] = "absent" /\ state'[r] = "planning"
        /\ input'[r] = new /\ acks' = acks \cup {ack}
        /\ \A q \in Requests \ {r} : state'[q] = state[q] /\ input'[q] = input[q]
    BY <1>1 DEF SubmitNew, TypeInv, TypeOK
  <1>3. \A q \in Requests : state[q] # "absent" => ~(input[q].uid = uid /\ input[q].key = key)
    BY <1>1 DEF SubmitNew, lookup_idempotency
  <1>4. new \in Inputs /\ new.uid = uid /\ new.key = key /\ new.package = p
    BY DEF Inputs
  <1>5. \A a \in acks : a.request \in Requests
    BY DEF TypeInv, TypeOK, Acks
  <1>6. \A q \in Requests : state'[q] # "absent" => input'[q] # NoInput
    BY <1>2, <1>4, NullAssumption DEF AckInv
  <1>7. \A q, s \in Requests :
          /\ state'[q] # "absent" /\ state'[s] # "absent"
          /\ input'[q].uid = input'[s].uid /\ input'[q].key = input'[s].key
          => q = s
    BY <1>2, <1>3, <1>4 DEF AckInv
  <1>8. ASSUME NEW a \in acks'
        PROVE /\ state'[a.request] # "absent"
              /\ input'[a.request].uid = a.uid /\ input'[a.request].key = a.key
              /\ input'[a.request].package = a.package
    <2>1. CASE a = ack
      BY <1>2, <1>4, <2>1
    <2>2. CASE a \in acks
      BY <1>2, <1>5, <2>2 DEF AckInv
    <2> QED
      BY <1>2, <2>1, <2>2
  <1> QED
    BY <1>6, <1>7, <1>8 DEF AckInv

\* Every step keeps the rows behind the answers.
LEMMA AckInvKept ==
  ASSUME TypeInv, AckInv, [Next]_vars
  PROVE  AckInv'
PROOF
  <1>1. CASE SubmitStep
    BY <1>1, FirstAnswer
  <1>2. CASE ~SubmitStep
    <2>1. \A r \in Requests : /\ state'[r] # "absent" <=> state[r] # "absent"
                              /\ state[r] # "absent" => input'[r] = input[r]
      BY <1>2, RowsStay
    <2>2. \A a \in acks : a.request \in Requests
      BY DEF TypeInv, TypeOK, Acks
    <2>3. ASSUME NEW a \in acks'
          PROVE /\ a.request \in Requests /\ state[a.request] # "absent"
                /\ input[a.request].uid = a.uid /\ input[a.request].key = a.key
                /\ input[a.request].package = a.package
      <3>1. CASE a \in acks
        BY <2>2, <3>1 DEF AckInv
      <3>2. CASE a \notin acks
        <4>1. PICK c \in Connections, uid \in Uids, key \in OperationKeys, p \in Packages :
                SubmitRetry(c, uid, key, p)
          BY <1>2, <3>2, AckSteps DEF SubmitRetryStep
        <4>2. PICK q \in lookup_idempotency(uid, key) :
                SameInput(q, p)
                  /\ acks' = acks \cup {[uid |-> uid, key |-> key, package |-> p,
                                         request |-> q]}
          BY <4>1 DEF SubmitRetry
        <4>3. a = [uid |-> uid, key |-> key, package |-> p, request |-> q]
          BY <3>2, <4>2
        <4>4. /\ q \in Requests /\ state[q] # "absent"
              /\ input[q].uid = uid /\ input[q].key = key /\ input[q].package = p
          BY <4>2 DEF lookup_idempotency, SameInput
        <4> QED
          BY <4>3, <4>4
      <3> QED
        BY <3>1, <3>2
    <2> QED
      BY <2>1, <2>3 DEF AckInv
  <1> QED
    BY <1>1, <1>2

\* All the answers submit ever gave for one requester and operation key name the
\* same request and the same package: for all callers, across connections, crashes
\* and reboots (lookup_idempotency before the insert, the stored input digest).
THEOREM IdempotentSubmission == Spec => []RetriesAgree
PROOF
  <1>1. Init => AckInv
    BY DEF Init, AckInv
  <1>2. TypeInv /\ AckInv /\ [Next]_vars => AckInv'
    BY AckInvKept
  <1>3. TypeInv /\ AckInv => RetriesAgree
    <2> SUFFICES ASSUME TypeInv, AckInv, NEW a \in acks, NEW b \in acks,
                        a.uid = b.uid, a.key = b.key
                 PROVE a = b
      BY DEF RetriesAgree
    <2>1. a \in Acks /\ b \in Acks
      BY DEF TypeInv, TypeOK
    <2>2. a.request \in Requests /\ b.request \in Requests
      BY <2>1 DEF Acks
    <2>3. a.request = b.request
      BY <2>2 DEF AckInv
    <2>4. a.package = b.package
      BY <2>3 DEF AckInv
    <2> QED
      BY <2>1, <2>3, <2>4 DEF Acks
  <1> QED
    BY <1>1, <1>2, <1>3, InitTyped, StepTyped, PTL DEF Spec

\* The steps that write a counter.
LEMMA CounterSteps ==
  ASSUME [Next]_vars
  PROVE  \/ signCount' = signCount \/ ReplaceStep
         \/ \E c \in Connections : CommitDecision(c)
PROOF
  <1> USE DEF durable, credentialTable
  <1>1. CASE UNCHANGED vars \/ Tick \/ Reboot
    BY <1>1 DEF vars, Tick, Reboot
  <1>2. ASSUME NEW c \in Connections, Open(c) \/ Crash(c)
        PROVE signCount' = signCount
    BY <1>2 DEF Open, Crash
  <1>3. ASSUME NEW c \in Connections, Decision(c)
        PROVE signCount' = signCount \/ CommitDecision(c)
    BY <1>3 DEF Decision, ReadGeneration, ReadCredentials, CloseUndecided, CommitStale,
                AbandonDecision, ReturnError
  <1>4. ASSUME NEW c \in Connections, Operation(c)
        PROVE signCount' = signCount \/ ReplaceStep
    <2>1. CASE \/ \E r \in Requests, t \in Active : TransitionNonterminal(c, r, t)
               \/ \E uid \in Uids, key \in OperationKeys, p \in Packages :
                    SubmitRetry(c, uid, key, p)
               \/ \E k \in SigningKeys :
                    \/ InitializeIdentity(c, k)
                    \/ \E epoch \in Epochs : StartBoot(c, k, epoch)
      BY <2>1 DEF TransitionNonterminal, SubmitRetry, InitializeIdentity, StartBoot
    <2>2. ASSUME NEW r \in Requests, NEW uid \in Uids, NEW key \in OperationKeys,
                 NEW p \in Packages, NEW g \in Generations, SubmitNew(c, r, uid, key, p, g)
          PROVE signCount' = signCount
      BY <2>2 DEF SubmitNew
    <2>3. ASSUME NEW k \in SigningKeys, NEW r \in Requests,
                 \/ \E t \in Terminal : TransitionTerminal(c, k, r, t)
                 \/ \E x, y \in Lifetimes : PrepareForDecision(c, k, r, x, y)
                 \/ \E t \in {"succeeded", "failed"} : ReconcileRecovery(c, k, r, t)
                 \/ \E d \in {"approved", "denied"}, w \in Credentials, n \in SignCounts :
                      BeginDecision(c, k, r, d, w, n)
          PROVE signCount' = signCount
      BY <2>3 DEF TransitionTerminal, PrepareForDecision, ReconcileRecovery, BeginDecision
    <2> QED
      BY <1>4, <2>1, <2>2, <2>3 DEF Operation, ReplaceStep
  <1> QED
    BY <1>1, <1>2, <1>3, <1>4 DEF Next

\* While a generation of credentials stays in force no counter goes down, whatever
\* order assertions commit in; provided root advances the generation whenever it
\* replaces the credentials (sign_count = MAX(sign_count, ?)).
THEOREM CountersRise ==
  ASSUME Obliged("advance_generation")
  PROVE  Spec => CountersOnlyRise
PROOF
  <1>1. TypeInv /\ [Next]_vars =>
          [generation' = generation =>
             \A w \in Credentials : signCount'[w] >= signCount[w]]_vars
    <2> SUFFICES ASSUME TypeInv, [Next]_vars, generation' = generation,
                        NEW w \in Credentials
                 PROVE signCount'[w] >= signCount[w]
      OBVIOUS
    <2>1. /\ signCount \in [Credentials -> Nat] /\ signCount[w] \in Nat
          /\ generation \in Int
      BY BoundsAssumption DEF TypeInv, TypeOK, Generations
    <2>2. CASE signCount' = signCount
      BY <2>1, <2>2
    <2>3. CASE ReplaceStep
      BY <2>1, <2>3, BoundsAssumption DEF ReplaceStep, ReplaceCredentials, Generations
    <2>4. ASSUME NEW c \in Connections, CommitDecision(c)
          PROVE signCount'[w] >= signCount[w]
      <3>1. call[c].count \in Nat /\ call[c].credential \in Credentials
        BY <2>4, CallTyped, BoundsAssumption DEF CommitDecision, InPhase, TypeInv
      <3> QED
        BY <2>1, <2>4, <3>1 DEF CommitDecision, raise_sign_count
    <2> QED
      BY <2>2, <2>3, <2>4, CounterSteps
  <1> QED
    BY <1>1, InitTyped, StepTyped, PTL DEF Spec, CountersOnlyRise

------------------------------------------------------------------------------
(***************************************************************************)
(* The frozen plan and its boot.                                           *)
(***************************************************************************)

\* Only prepare_for_decision writes a binding, and only of a planning row.
LEMMA BindingSteps ==
  ASSUME TypeInv, [Next]_vars, NEW r \in Requests
  PROVE  binding'[r] = binding[r] \/ PrepareStep(r)
PROOF
  <1>1. CASE UNCHANGED <<rows, bootEpoch>>
    BY <1>1 DEF rows
  <1>2. CASE SubmitStep
    BY <1>2 DEF SubmitStep, SubmitNew
  <1>3. CASE BootStep
    BY <1>3 DEF BootStep, StartBoot
  <1>4. ASSUME NEW q \in Requests,
               \/ \E c \in Connections, t \in Active : TransitionNonterminal(c, q, t)
               \/ TerminalStep(q) \/ ReconcileStep(q)
        PROVE binding' = binding
    BY <1>4 DEF TransitionNonterminal, TerminalStep, TransitionTerminal, ReconcileStep,
                ReconcileRecovery
  <1>5. ASSUME NEW q \in Requests, PrepareStep(q), q # r PROVE binding'[r] = binding[r]
    BY <1>5 DEF PrepareStep, PrepareForDecision, freeze_request, TypeInv, TypeOK
  <1>6. ASSUME NEW c \in Connections,
               CloseUndecided(c) \/ CommitStale(c) \/ CommitDecision(c)
        PROVE binding' = binding
    BY <1>6 DEF CloseUndecided, CommitStale, CommitDecision
  <1> QED
    BY <1>1, <1>2, <1>3, <1>4, <1>5, <1>6, RowWriters

\* What prepare_for_decision leaves in the row.
LEMMA PrepareBinds ==
  ASSUME TypeInv, NEW r \in Requests, PrepareStep(r)
  PROVE  /\ state[r] = "planning" /\ state'[r] = "pending"
         /\ binding'[r] # NoBinding /\ binding'[r].boot = boots
         /\ bootEpoch' = bootEpoch /\ boots' = boots
         /\ Obliged("boot_first") => bootEpoch = boots
         /\ evidence' = evidence /\ receipts' = receipts
         /\ \A q \in Requests \ {r} : Untouched(q)
         /\ Moved(r, "pending")
PROOF
  <1>1. PICK c \in Connections, k \in SigningKeys, x \in Lifetimes, y \in Lifetimes :
          PrepareForDecision(c, k, r, x, y)
    BY DEF PrepareStep
  <1> DEFINE b == [boot |-> boots, expires |-> utc + x, deadline |-> mono + y]
  <1>2. b \in Bindings /\ b.boot = boots
    BY BoundsAssumption DEF TypeInv, TypeOK, Bindings
  <1>3. binding'[r] = b
    BY <1>1 DEF PrepareForDecision, freeze_request, TypeInv, TypeOK
  <1>4. "pending" \in Active
    BY DEF Active
  <1>5. Moved(r, "pending") /\ \A q \in Requests \ {r} : Untouched(q)
    BY <1>1, <1>4, MoveShape DEF TypeInv
  <1>6. /\ state[r] = "planning" /\ UNCHANGED <<bootEpoch, boots, evidence, receipts>>
        /\ Obliged("boot_first") => bootEpoch = boots
    BY <1>1 DEF PrepareForDecision, clocks, Ready
  <1> QED
    BY <1>2, <1>3, <1>5, <1>6, NullAssumption DEF Moved

\* When callers keep "prepare", pending is entered by prepare_for_decision alone.
LEMMA PendingSteps ==
  ASSUME Obliged("prepare"), TypeInv, [Next]_vars, NEW r \in Requests,
         state'[r] = "pending", state[r] # "pending"
  PROVE  PrepareStep(r)
PROOF
  <1>0. TypeOK /\ ~Untouched(r) /\ state' # state
    BY DEF TypeInv, Untouched
  <1>1. "pending" \notin Terminal
    BY DEF Terminal
  <1>2. CASE UNCHANGED <<rows, bootEpoch>>
    BY <1>0, <1>2 DEF rows
  <1>3. CASE SubmitStep
    BY <1>0, <1>3, SubmitShape DEF SubmitStep, Created
  <1>4. CASE BootStep
    BY <1>0, <1>4, BootShape DEF BootStep, Closed
  <1>5. ASSUME NEW q \in Requests, NEW c \in Connections, NEW t \in Active,
               TransitionNonterminal(c, q, t)
        PROVE FALSE
    <2>1. t # "pending" /\ Moved(q, t) /\ \A s \in Requests \ {q} : Untouched(s)
      BY <1>0, <1>5, MoveShape DEF TransitionNonterminal, CallerMayPass
    <2> QED
      BY <1>0, <2>1 DEF Moved
  <1>6. ASSUME NEW q \in Requests, TerminalStep(q) PROVE FALSE
    BY <1>0, <1>1, <1>6, TerminalShape DEF TerminalStep, Closed
  <1>7. ASSUME NEW q \in Requests, ReconcileStep(q) PROVE FALSE
    <2>1. {"succeeded", "failed"} \subseteq Terminal
      BY DEF Terminal
    <2> QED
      BY <1>0, <1>1, <1>7, <2>1, TerminalShape DEF ReconcileStep, Closed
  <1>8. ASSUME NEW q \in Requests, PrepareStep(q) PROVE q = r
    BY <1>0, <1>8, PrepareBinds
  <1>9. ASSUME NEW c \in Connections, CloseUndecided(c) \/ CommitStale(c)
        PROVE FALSE
    BY <1>0, <1>1, <1>9, CallShape DEF Closed
  <1>10. ASSUME NEW c \in Connections, CommitDecision(c) PROVE FALSE
    <2>1. call[c].request \in Requests /\ call[c].decision \in {"approved", "denied"}
      BY <1>0, <1>10, CallTyped DEF CommitDecision, InPhase
    <2> QED
      BY <1>0, <1>10, <2>1 DEF CommitDecision, append_transition, TypeOK
  <1> QED
    BY <1>2, <1>3, <1>4, <1>5, <1>6, <1>7, <1>8, <1>9, <1>10, RowWriters

\* From pending until it closes a request is bound to a signed plan, a nonce and
\* two deadlines, provided callers enter pending through prepare_for_decision: no
\* interleaving, crash or reboot takes the binding away.
THEOREM PendingBound == ASSUME Obliged("prepare") PROVE Spec => []PendingIsBound
PROOF
  <1>1. Init => PendingIsBound
    BY DEF Init, PendingIsBound
  <1>2. TypeInv /\ PendingIsBound /\ [Next]_vars => PendingIsBound'
    <2> DEFINE Open4 == {"pending", "approved", "executing", "recovery_required"}
    <2> SUFFICES ASSUME TypeInv, PendingIsBound, [Next]_vars, NEW r \in Requests,
                        state'[r] \in Open4
                 PROVE binding'[r] # NoBinding
      BY DEF PendingIsBound
    <2>1. CASE PrepareStep(r)
      BY <2>1, PrepareBinds
    <2>2. CASE ~PrepareStep(r)
      <3>1. state[r] \in Open4
        <4>1. CASE state'[r] = "pending"
          BY <2>2, <4>1, PendingSteps
        <4>2. CASE state'[r] # "pending"
          <5>1. \A s, t : permits(s, t) /\ t \in Open4 \ {"pending"} => s \in Open4
            BY DEF permits, Edges
          <5>2. Open4 \cap Terminal = {}
            BY DEF Terminal
          <5> QED
            BY <4>2, <5>1, <5>2, RowSteps
            DEF RowStep, OpenRowStep, Untouched, Moved, Closed, Created
        <4> QED
          BY <4>1, <4>2
      <3> QED
        BY <2>2, <3>1, BindingSteps DEF PendingIsBound
    <2> QED
      BY <2>1, <2>2
  <1> QED
    BY <1>1, <1>2, InitTyped, StepTyped, PTL DEF Spec

\* A bound request that start_boot would expire was prepared in the epoch recorded.
BootInv ==
  \A r \in Requests : binding[r] # NoBinding =>
    /\ state[r] # "absent"
    /\ state[r] \in BootExpired => binding[r].boot = bootEpoch

\* Only start_boot writes the epoch.
LEMMA EpochSteps ==
  ASSUME [Next]_vars
  PROVE  bootEpoch' = bootEpoch \/ BootStep
PROOF
  <1>1. CASE SubmitStep
    BY <1>1 DEF SubmitStep, SubmitNew
  <1>2. ASSUME NEW q \in Requests,
               \/ \E c \in Connections, t \in Active : TransitionNonterminal(c, q, t)
               \/ PrepareStep(q) \/ TerminalStep(q) \/ ReconcileStep(q)
        PROVE bootEpoch' = bootEpoch
    BY <1>2 DEF TransitionNonterminal, PrepareStep, PrepareForDecision, TerminalStep,
                TransitionTerminal, ReconcileStep, ReconcileRecovery
  <1>3. ASSUME NEW c \in Connections,
               CloseUndecided(c) \/ CommitStale(c) \/ CommitDecision(c)
        PROVE bootEpoch' = bootEpoch
    BY <1>3 DEF CloseUndecided, CommitStale, CommitDecision
  <1> QED
    BY <1>1, <1>2, <1>3, RowWriters

\* start_boot with the epoch of the host closes everything that waits.
LEMMA BootClears ==
  ASSUME Obliged("boot_first"), TypeInv, BootStep, NEW r \in Requests
  PROVE  state'[r] \notin BootExpired
PROOF
  <1>1. PICK c \in Connections, k \in SigningKeys, epoch \in Epochs : StartBoot(c, k, epoch)
    BY DEF BootStep
  <1>2. epoch # 0
    BY <1>1, BoundsAssumption DEF StartBoot, TypeInv, TypeOK
  <1>3. "expired" \notin BootExpired
    BY DEF BootExpired
  <1> QED
    BY <1>1, <1>2, <1>3 DEF StartBoot, BootWork

\* While the broker serves a boot, the work that awaits a decision or execution was
\* prepared in that boot, so its monotonic deadline is measured on this boot's
\* clock; provided nothing runs between a reboot and start_boot.
THEOREM WorkOfThisBoot ==
  ASSUME Obliged("boot_first")
  PROVE  Spec => []LiveWorkIsOfThisBoot
PROOF
  <1>1. Init => BootInv
    BY DEF Init, BootInv
  <1>2. TypeInv /\ BootInv /\ [Next]_vars => BootInv'
    <2> SUFFICES ASSUME TypeInv, BootInv, [Next]_vars, NEW r \in Requests,
                        binding'[r] # NoBinding
                 PROVE /\ state'[r] # "absent"
                       /\ state'[r] \in BootExpired => binding'[r].boot = bootEpoch'
      BY DEF BootInv
    <2>1. CASE PrepareStep(r)
      BY <2>1, PrepareBinds
    <2>2. CASE ~PrepareStep(r)
      <3>1. /\ binding'[r] = binding[r] /\ state[r] # "absent"
            /\ state[r] \in BootExpired => binding[r].boot = bootEpoch
        BY <2>2, BindingSteps DEF BootInv
      <3>2. state'[r] # "absent"
        BY <3>1, RowsStay
      <3>3. ASSUME state'[r] \in BootExpired PROVE state[r] \in BootExpired
        <4>1. \A s, t : permits(s, t) /\ t \in BootExpired => s \in BootExpired
          BY DEF permits, Edges, BootExpired
        <4>2. BootExpired \cap Terminal = {}
          BY DEF BootExpired, Terminal
        <4> QED
          BY <3>1, <3>3, <4>1, <4>2, RowSteps
          DEF RowStep, OpenRowStep, Untouched, Moved, Closed, Created
      <3> QED
        BY <3>1, <3>2, <3>3, BootClears, EpochSteps
    <2> QED
      BY <2>1, <2>2
  <1>3. BootInv => LiveWorkIsOfThisBoot
    BY DEF BootInv, LiveWorkIsOfThisBoot
  <1> QED
    BY <1>1, <1>2, <1>3, InitTyped, StepTyped, PTL DEF Spec

------------------------------------------------------------------------------
(***************************************************************************)
(* Receipts and the history they tell.                                     *)
(***************************************************************************)

\* What the durable row says about the path its request took.  The binding tells
\* whether it was pending, and an open request was neither denied nor recovered.
PathKnown(r) ==
  /\ binding[r] # NoBinding <=> PassedThrough(r, "pending")
  /\ state[r] \notin Terminal =>
       /\ ~evidence[r] /\ ~PassedThrough(r, "denied")
       /\ PassedThrough(r, "recovery_required") <=> state[r] = "recovery_required"

\* ReceiptMatchesHistory of one row.
ReceiptTells(r) ==
  receipts[r] # NoReceipt =>
    /\ receipts[r].digest = "request" <=> PassedThrough(r, "pending")
    /\ receipts[r].authorization # NoCredential <=> PassedThrough(r, "denied")
    /\ receipts[r].recovered <=> PassedThrough(r, "recovery_required")

HistoryInv == \A r \in Requests : PathKnown(r) /\ ReceiptTells(r)

\* A step that leaves the row alone, binding included.
Kept(r) == Untouched(r) /\ binding'[r] = binding[r]

\* A row moves, and is bound exactly when it becomes pending.
MovedOn(r, t) ==
  /\ Moved(r, t) /\ evidence'[r] = evidence[r]
  /\ IF t = "pending" THEN binding'[r] # NoBinding ELSE binding'[r] = binding[r]

\* A row is closed with a receipt that names the deciding credential of a denial
\* and the evidence of a reconciliation.
ClosedWith(r, t, w) ==
  LET b == evidence[r] \/ state[r] = "recovery_required" IN
  /\ Closed(r, t) /\ binding'[r] = binding[r] /\ evidence'[r] = b
  /\ receipts'[r] = Receipt(r, t, identity.key, w, b)
  /\ t = "denied" <=> w # NoCredential

\* PassedThrough after an event is appended to a log.
LEMMA PassedExtends ==
  ASSUME TypeInv, NEW r \in Requests, NEW t \in States, Extended(r, t), NEW s
  PROVE  PassedThrough(r, s)' <=> PassedThrough(r, s) \/ s = t
PROOF
  <1>1. events[r] \in Seq(Events)
    BY DEF TypeInv, TypeOK
  <1>2. PICK reason \in Reasons : events'[r] = Append(events[r], [state |-> t, reason |-> reason])
    BY DEF Extended
  <1> DEFINE e == [state |-> t, reason |-> reason]
             log == events[r]
             new == Append(log, e)
  <1>3. /\ Len(log) \in Nat /\ Len(new) = Len(log) + 1 /\ new[Len(log) + 1] = e
        /\ \A i \in 1 .. Len(log) : new[i] = log[i]
    BY <1>1 DEF Events
  <1>4. PassedThrough(r, s)' <=> \E i \in 1 .. Len(new) : new[i].state = s
    BY <1>2 DEF PassedThrough
  <1>5. PassedThrough(r, s) <=> \E i \in 1 .. Len(log) : log[i].state = s
    BY DEF PassedThrough
  <1>6. (\E i \in 1 .. Len(new) : new[i].state = s)
          <=> (\E i \in 1 .. Len(log) : new[i].state = s) \/ e.state = s
    <2> HIDE DEF new, log
    <2> QED
      BY <1>3
  <1>7. (\E i \in 1 .. Len(log) : new[i].state = s)
          <=> (\E i \in 1 .. Len(log) : log[i].state = s)
    <2> HIDE DEF new, log
    <2> QED
      BY <1>3
  <1> QED
    BY <1>4, <1>5, <1>6, <1>7

\* A row that is left alone keeps its path.
LEMMA PassedStays ==
  ASSUME NEW r \in Requests, events'[r] = events[r], NEW s
  PROVE  PassedThrough(r, s)' <=> PassedThrough(r, s)
PROOF
  BY DEF PassedThrough

\* transition_terminal closes a row that is neither decided nor recovered here.
LEMMA TerminalCloses ==
  ASSUME Obliged("decide"), Obliged("reconcile"), TypeInv, NEW r \in Requests,
         TerminalStep(r)
  PROVE  /\ \E t \in Terminal, w \in Credentials \cup {NoCredential} : ClosedWith(r, t, w)
         /\ \A q \in Requests \ {r} : Kept(q)
PROOF
  <1>1. PICK c \in Connections, k \in SigningKeys, t \in Terminal :
          TransitionTerminal(c, k, r, t)
    BY DEF TerminalStep
  <1>2. Closed(r, t) /\ \A q \in Requests \ {r} : Untouched(q)
    BY <1>1, TerminalShape DEF TypeInv
  <1>3. /\ CallerMayPass(state[r], t) /\ permits(state[r], t)
        /\ UNCHANGED <<binding, evidence>> /\ identity.key = k
        /\ receipts' = [receipts EXCEPT ![r] = Receipt(r, t, k, NoCredential, evidence[r])]
    BY <1>1 DEF TransitionTerminal, CloseRequest, create_receipt, ensure_identity
  <1>4. t # "denied" /\ state[r] # "recovery_required"
    <2>1. permits(state[r], "denied") => state[r] = "pending"
      BY DEF permits, Edges
    <2> QED
      BY <1>3, <2>1 DEF CallerMayPass
  <1>5. receipts'[r] = Receipt(r, t, identity.key, NoCredential, evidence[r])
    BY <1>3 DEF TypeInv, TypeOK
  <1>6. evidence[r] \in BOOLEAN
    BY DEF TypeInv, TypeOK
  <1>7. (evidence[r] \/ state[r] = "recovery_required") = evidence[r]
    BY <1>4, <1>6
  <1>8. ClosedWith(r, t, NoCredential)
    BY <1>2, <1>3, <1>4, <1>5, <1>7, Zenon DEF ClosedWith
  <1> QED
    BY <1>2, <1>3, <1>8 DEF Kept

\* reconcile_recovery closes with operator evidence.
LEMMA ReconcileCloses ==
  ASSUME TypeInv, NEW r \in Requests, ReconcileStep(r)
  PROVE  /\ \E t \in Terminal, w \in Credentials \cup {NoCredential} : ClosedWith(r, t, w)
         /\ \A q \in Requests \ {r} : Kept(q)
PROOF
  <1>1. PICK c \in Connections, k \in SigningKeys, t \in {"succeeded", "failed"} :
          ReconcileRecovery(c, k, r, t)
    BY DEF ReconcileStep
  <1>2. t \in Terminal /\ t # "denied"
    BY DEF Terminal
  <1>3. Closed(r, t) /\ \A q \in Requests \ {r} : Untouched(q)
    BY <1>1, <1>2, TerminalShape DEF TypeInv
  <1>4. /\ state[r] = "recovery_required" /\ UNCHANGED binding /\ identity.key = k
        /\ evidence' = [evidence EXCEPT ![r] = TRUE]
        /\ receipts' = [receipts EXCEPT ![r] = Receipt(r, t, k, NoCredential, TRUE)]
    BY <1>1 DEF ReconcileRecovery, CloseRequest, create_receipt, ensure_identity
  <1>5. /\ receipts'[r] = Receipt(r, t, identity.key, NoCredential, TRUE)
        /\ evidence'[r] = TRUE
    BY <1>4 DEF TypeInv, TypeOK
  <1>6. (evidence[r] \/ state[r] = "recovery_required") = TRUE
    BY <1>4
  <1>7. ClosedWith(r, t, NoCredential)
    BY <1>2, <1>3, <1>4, <1>5, <1>6, Zenon DEF ClosedWith
  <1> QED
    BY <1>2, <1>3, <1>4, <1>7 DEF Kept

\* A call closes its request undecided, stale, or denied by its credential.
LEMMA CallCloses ==
  ASSUME TypeInv, NEW c \in Connections,
         CloseUndecided(c) \/ CommitStale(c)
           \/ (CommitDecision(c) /\ call[c].decision = "denied")
  PROVE  /\ \E t \in Terminal, w \in Credentials \cup {NoCredential} :
              ClosedWith(call[c].request, t, w)
         /\ \A q \in Requests \ {call[c].request} : Kept(q)
PROOF
  <1> DEFINE r == call[c].request
             k == call[c].signer
  <1>1. call[c] # NoCall /\ TypeOK
    BY DEF CloseUndecided, CommitStale, CommitDecision, InPhase, TypeInv
  <1>2. /\ r \in Requests /\ call[c].credential \in Credentials
        /\ evidence[r] \in BOOLEAN /\ NoCredential \notin Credentials
    BY <1>1, CallTyped, NullAssumption DEF TypeOK
  <1>3. (\E t \in Terminal : Closed(r, t)) /\ \A q \in Requests \ {r} : Untouched(q)
    BY <1>1, CallShape
  <1>4. state[r] = "pending" /\ UNCHANGED <<binding, evidence>> /\ identity.key = k
    BY DEF CloseUndecided, CommitStale, CommitDecision, StillDecidable, CloseRequest,
           ensure_identity
  <1>5. {"expired", "stale", "denied"} \subseteq Terminal
    BY DEF Terminal
  <1>6. PICK t \in {"expired", "stale", "denied"}, w \in Credentials \cup {NoCredential} :
          /\ t = "denied" <=> w # NoCredential
          /\ state' = [state EXCEPT ![r] = t]
          /\ receipts' = [receipts EXCEPT ![r] = Receipt(r, t, k, w, evidence[r])]
    <2>1. CASE CloseUndecided(c)
      <3>1. /\ call[c].phase \in {"expired", "stale"}
            /\ state' = [state EXCEPT ![r] = call[c].phase]
            /\ receipts' = [receipts EXCEPT ![r] =
                              Receipt(r, call[c].phase, k, NoCredential, evidence[r])]
        BY <2>1 DEF CloseUndecided, CloseRequest, append_transition, create_receipt
      <3> QED
        BY <3>1, Zenon
    <2>2. CASE CommitStale(c)
      <3>1. /\ state' = [state EXCEPT ![r] = "stale"]
            /\ receipts' = [receipts EXCEPT ![r] =
                              Receipt(r, "stale", k, NoCredential, evidence[r])]
        BY <2>2 DEF CommitStale, CloseRequest, append_transition, create_receipt
      <3> QED
        BY <3>1, Zenon
    <2>3. CASE CommitDecision(c) /\ call[c].decision = "denied"
      <3>1. /\ state' = [state EXCEPT ![r] = "denied"]
            /\ receipts' = [receipts EXCEPT ![r] =
                              Receipt(r, "denied", k, call[c].credential, evidence[r])]
        BY <2>3 DEF CommitDecision, append_transition, decision_receipt, create_receipt
      <3>2. call[c].credential # NoCredential
        BY <1>2
      <3> QED
        BY <1>2, <3>1, <3>2, Zenon
    <2> QED
      BY <2>1, <2>2, <2>3
  <1>7. state'[r] = t /\ receipts'[r] = Receipt(r, t, identity.key, w, evidence[r])
    BY <1>1, <1>2, <1>4, <1>6 DEF TypeOK
  <1>8. Closed(r, t)
    BY <1>3, <1>7 DEF Closed
  <1>9. (evidence[r] \/ state[r] = "recovery_required") = evidence[r]
    BY <1>2, <1>4
  <1>10. ClosedWith(r, t, w)
    BY <1>4, <1>6, <1>7, <1>8, <1>9, Zenon DEF ClosedWith
  <1>11. t \in Terminal
    BY <1>5, <1>6
  <1>12. \A q \in Requests \ {r} : Kept(q)
    BY <1>3, <1>4 DEF Kept
  <1> QED
    BY <1>6, <1>10, <1>11, <1>12, Zenon

\* start_boot closes the rows it selects as expired.
LEMMA BootCloses ==
  ASSUME TypeInv, BootStep, NEW r \in Requests
  PROVE  Kept(r) \/ ClosedWith(r, "expired", NoCredential)
PROOF
  <1>1. PICK c \in Connections, k \in SigningKeys, epoch \in Epochs : StartBoot(c, k, epoch)
    BY DEF BootStep
  <1>2. IF r \in BootWork(epoch) THEN Closed(r, "expired") ELSE Untouched(r)
    BY <1>1, BootShape DEF TypeInv
  <1>3. UNCHANGED <<binding, evidence>> /\ identity.key = k
    BY <1>1 DEF StartBoot, ensure_identity
  <1>4. CASE r \notin BootWork(epoch)
    BY <1>2, <1>3, <1>4 DEF Kept
  <1>5. CASE r \in BootWork(epoch)
    <2>1. receipts'[r] = Receipt(r, "expired", identity.key, NoCredential, evidence[r])
      BY <1>1, <1>3, <1>5 DEF StartBoot
    <2>2. state[r] # "recovery_required" /\ evidence[r] \in BOOLEAN
      BY <1>5 DEF BootWork, BootExpired, TypeInv, TypeOK
    <2>3. (evidence[r] \/ state[r] = "recovery_required") = evidence[r]
      BY <2>2
    <2> QED
      BY <1>2, <1>3, <1>5, <2>1, <2>3, Zenon DEF ClosedWith
  <1> QED
    BY <1>4, <1>5

\* What a step does to a row, with the binding and the contents of its receipt.
HistoryStep(r) ==
  \/ Kept(r)
  \/ Created(r) /\ binding'[r] = binding[r]
  \/ \E t \in Active : MovedOn(r, t)
  \/ \E t \in Terminal, w \in Credentials \cup {NoCredential} : ClosedWith(r, t, w)

\* Every step does one of these to every row when callers keep the three rules.
LEMMA HistorySteps ==
  ASSUME Obliged("prepare"), Obliged("decide"), Obliged("reconcile"),
         TypeInv, [Next]_vars, NEW r \in Requests
  PROVE  HistoryStep(r)
PROOF
  <1>0. TypeOK
    BY DEF TypeInv
  <1>1. CASE UNCHANGED <<rows, bootEpoch>>
    BY <1>1 DEF rows, HistoryStep, Kept, Untouched
  <1>2. CASE SubmitStep
    <2>1. binding' = binding
      BY <1>2 DEF SubmitStep, SubmitNew
    <2> QED
      BY <1>0, <1>2, <2>1, SubmitShape DEF SubmitStep, HistoryStep, Kept
  <1>3. CASE BootStep
    <2>1. "expired" \in Terminal
      BY DEF Terminal
    <2> QED
      BY <1>3, <2>1, BootCloses DEF HistoryStep
  <1>4. ASSUME NEW q \in Requests, NEW c \in Connections, NEW t \in Active,
               TransitionNonterminal(c, q, t)
        PROVE HistoryStep(r)
    <2>1. Moved(q, t) /\ \A s \in Requests \ {q} : Untouched(s)
      BY <1>0, <1>4, MoveShape
    <2>2. t # "pending" /\ UNCHANGED <<binding, evidence>>
      BY <1>4 DEF TransitionNonterminal, CallerMayPass
    <2>3. CASE q = r
      BY <2>1, <2>2, <2>3 DEF HistoryStep, MovedOn
    <2>4. CASE q # r
      BY <2>1, <2>2, <2>4 DEF HistoryStep, Kept
    <2> QED
      BY <2>3, <2>4
  <1>5. ASSUME NEW q \in Requests, PrepareStep(q) PROVE HistoryStep(r)
    <2>1. "pending" \in Active
      BY DEF Active
    <2>2. CASE q = r
      BY <1>5, <2>1, <2>2, PrepareBinds DEF HistoryStep, MovedOn
    <2>3. CASE q # r
      <3>1. Untouched(r)
        BY <1>5, <2>3, PrepareBinds
      <3>2. binding'[r] = binding[r]
        BY <1>0, <1>5, <2>3 DEF PrepareStep, PrepareForDecision, freeze_request, TypeOK
      <3> QED
        BY <3>1, <3>2 DEF HistoryStep, Kept
    <2> QED
      BY <2>2, <2>3
  <1>6. ASSUME NEW q \in Requests, TerminalStep(q) \/ ReconcileStep(q) PROVE HistoryStep(r)
    BY <1>6, TerminalCloses, ReconcileCloses DEF HistoryStep
  <1>7. ASSUME NEW c \in Connections, CloseUndecided(c) \/ CommitStale(c)
                 \/ (CommitDecision(c) /\ call[c].decision = "denied")
        PROVE HistoryStep(r)
    BY <1>7, CallCloses DEF HistoryStep
  <1>8. ASSUME NEW c \in Connections, CommitDecision(c), call[c].decision # "denied"
        PROVE HistoryStep(r)
    <2>1. call[c].request \in Requests /\ call[c].decision = "approved"
      BY <1>0, <1>8, CallTyped DEF CommitDecision, InPhase
    <2>2. "approved" \in Active
      BY DEF Active
    <2>3. /\ Moved(call[c].request, "approved")
          /\ \A s \in Requests \ {call[c].request} : Untouched(s)
      BY <1>0, <1>8, <2>1, <2>2, MoveShape
    <2>4. UNCHANGED <<binding, evidence>>
      BY <1>8 DEF CommitDecision
    <2>5. CASE r = call[c].request
      BY <2>2, <2>3, <2>4, <2>5 DEF HistoryStep, MovedOn
    <2>6. CASE r # call[c].request
      BY <2>3, <2>4, <2>6 DEF HistoryStep, Kept
    <2> QED
      BY <2>5, <2>6
  <1> QED
    BY <1>1, <1>2, <1>3, <1>4, <1>5, <1>6, <1>7, <1>8, RowWriters

\* The path of one row stays known, and a receipt tells it when it is written.
LEMMA HistoryKept ==
  ASSUME TypeInv, ReceiptIffTerminal, EventsFollowLifecycle, NEW r \in Requests,
         PathKnown(r), ReceiptTells(r), HistoryStep(r)
  PROVE  PathKnown(r)' /\ ReceiptTells(r)'
PROOF
  <1>0. /\ state[r] \notin Terminal => receipts[r] = NoReceipt
        /\ evidence[r] \in BOOLEAN
    BY DEF ReceiptIffTerminal, TypeInv, TypeOK
  <1>1. CASE Kept(r)
    <2>1. \A s : PassedThrough(r, s)' <=> PassedThrough(r, s)
      BY <1>1, PassedStays DEF Kept, Untouched
    <2> QED
      BY <1>1, <2>1 DEF Kept, Untouched, PathKnown, ReceiptTells
  <1>2. CASE Created(r) /\ binding'[r] = binding[r]
    <2>1. events[r] = <<>> /\ state[r] \notin Terminal
      BY <1>2, EdgesLeaveActive DEF Created, EventsFollowLifecycle, States
    <2>2. \A s : ~PassedThrough(r, s)
      BY <2>1 DEF PassedThrough
    <2>3. \A s : PassedThrough(r, s)' <=> s = "planning"
      BY <1>2 DEF Created, PassedThrough
    <2>4. receipts'[r] = NoReceipt /\ evidence'[r] = evidence[r] /\ ~evidence[r]
      BY <1>0, <1>2, <2>1 DEF Created, PathKnown
    <2> QED
      BY <1>2, <2>2, <2>3, <2>4 DEF Created, PathKnown, ReceiptTells
  <1>3. ASSUME NEW t \in Active, MovedOn(r, t) PROVE PathKnown(r)' /\ ReceiptTells(r)'
    <2>1. t \in States /\ t \notin Terminal /\ t # "denied"
      BY EdgesLeaveActive DEF States, Terminal
    <2>2. permits(state[r], t) /\ Extended(r, t) /\ state'[r] = t
      BY <1>3 DEF MovedOn, Moved
    <2>3. \A s : PassedThrough(r, s)' <=> PassedThrough(r, s) \/ s = t
      BY <2>1, <2>2, PassedExtends
    <2>4. state[r] \notin Terminal /\ state[r] # "recovery_required"
      <3>1. state[r] \in Active
        BY <2>2, EdgesLeaveActive DEF LifecycleStep
      <3>2. permits("recovery_required", t) => t \in Terminal
        BY DEF permits, Edges, Terminal
      <3> QED
        BY <2>1, <2>2, <3>1, <3>2, EdgesLeaveActive
    <2>5. receipts'[r] = NoReceipt
      BY <1>0, <1>3, <2>4 DEF MovedOn, Moved
    <2> QED
      BY <1>3, <2>1, <2>2, <2>3, <2>4, <2>5 DEF MovedOn, PathKnown, ReceiptTells
  <1>4. ASSUME NEW t \in Terminal, NEW w \in Credentials \cup {NoCredential},
               ClosedWith(r, t, w)
        PROVE PathKnown(r)' /\ ReceiptTells(r)'
    <2> DEFINE b == evidence[r] \/ state[r] = "recovery_required"
    <2>1. /\ t \in States /\ t # "pending" /\ t # "recovery_required"
      BY DEF States, Terminal
    <2>2. LifecycleStep(state[r], t) /\ Extended(r, t) /\ state'[r] = t
      BY <1>4 DEF ClosedWith, Closed
    <2>3. \A s : PassedThrough(r, s)' <=> PassedThrough(r, s) \/ s = t
      BY <2>1, <2>2, PassedExtends
    <2>4. state[r] \notin Terminal
      BY <2>2, EdgesLeaveActive
    <2>5. /\ receipts'[r] = Receipt(r, t, identity.key, w, b)
          /\ binding'[r] = binding[r]
          /\ t = "denied" <=> w # NoCredential
      BY <1>4 DEF ClosedWith
    <2>6. /\ receipts'[r].digest = "request" <=> binding[r] # NoBinding
          /\ receipts'[r].authorization = w
          /\ receipts'[r].recovered = b
      BY <2>5 DEF Receipt
    <2>7. b <=> PassedThrough(r, "recovery_required")
      BY <2>4 DEF PathKnown
    <2>8. PathKnown(r)'
      BY <2>1, <2>2, <2>3, <2>5 DEF PathKnown
    <2>9. ReceiptTells(r)'
      BY <2>1, <2>3, <2>4, <2>5, <2>6, <2>7 DEF PathKnown, ReceiptTells
    <2> QED
      BY <2>8, <2>9
  <1> QED
    BY <1>1, <1>2, <1>3, <1>4 DEF HistoryStep

\* Every receipt tells how its request got where it is: the digest of the signed
\* request exactly when there was one, the deciding credential exactly of a denial,
\* and operator evidence exactly when recovery_required was reconciled; provided
\* callers prepare, decide and reconcile through the functions made for it.
THEOREM ReceiptsTellHistory ==
  ASSUME Obliged("prepare"), Obliged("decide"), Obliged("reconcile")
  PROVE  Spec => []ReceiptMatchesHistory
PROOF
  <1>1. Init => HistoryInv
    BY EdgesLeaveActive DEF Init, HistoryInv, PathKnown, ReceiptTells, PassedThrough, States
  <1>2. TypeInv /\ ReceiptIffTerminal /\ EventsFollowLifecycle /\ HistoryInv /\ [Next]_vars
          => HistoryInv'
    BY HistorySteps, HistoryKept DEF HistoryInv
  <1>3. HistoryInv => ReceiptMatchesHistory
    BY DEF HistoryInv, ReceiptTells, ReceiptMatchesHistory
  <1> QED
    BY <1>1, <1>2, <1>3, InitTyped, StepTyped, ReceiptsCertify, EventChain, PTL DEF Spec

------------------------------------------------------------------------------
\* Execution needs an approval, whoever calls.

\* A request that runs, ran or was reported to have run went through planning,
\* pending, approved and executing, in this order and as its first four events:
\* no caller of the store reaches execution past a decision, and a certified
\* outcome never stands for a request that was not approved.
RanApproved ==
  \A r \in Requests :
    \/ state[r] \in {"executing", "recovery_required", "succeeded", "failed"}
    \/ receipts[r] # NoReceipt /\ receipts[r].state \in {"succeeded", "failed"}
    => /\ Len(events[r]) >= 4
       /\ events[r][1].state = "planning" /\ events[r][2].state = "pending"
       /\ events[r][3].state = "approved" /\ events[r][4].state = "executing"

\* The lifecycle read backwards: what the states on the way to execution follow.
LEMMA StepsBackwards ==
  ASSUME NEW s, NEW t, LifecycleStep(s, t)
  PROVE  /\ t # "planning"
         /\ t = "pending" => s = "planning"
         /\ t = "approved" => s = "pending"
         /\ t = "executing" => s = "approved"
         /\ t = "recovery_required" => s = "executing"
         /\ t \in {"succeeded", "failed"} => s \in {"executing", "recovery_required"}
PROOF
  <1>1. CASE permits(s, t)
    BY <1>1 DEF permits, Edges
  <1>2. CASE s \in BootExpired /\ t = "expired"
    BY <1>2
  <1> QED
    BY <1>1, <1>2 DEF LifecycleStep

\* An event before the i-th, when the i-th is not the first of the lifecycle.
LEMMA EventBefore ==
  ASSUME NEW log \in Seq(Events), NEW s \in States, LogFollows(log, s),
         NEW i \in 1 .. Len(log), log[i].state # "planning"
  PROVE  i - 1 \in 1 .. Len(log) /\ LifecycleStep(log[i - 1].state, log[i].state)
PROOF
  <1>1. log # <<>> /\ log[1].state = "planning"
    BY DEF LogFollows
  <1>2. i # 1
    BY <1>1
  <1>3. i - 1 \in 1 .. Len(log) - 1 /\ (i - 1) + 1 = i
    BY <1>2
  <1> QED
    BY <1>3 DEF LogFollows

\* A log in which a request executes begins with the four states that lead there.
LEMMA ExecutionIsFourth ==
  ASSUME NEW log \in Seq(Events), NEW s \in States, LogFollows(log, s),
         NEW i \in 1 .. Len(log), log[i].state = "executing"
  PROVE  /\ i = 4 /\ Len(log) >= 4
         /\ log[1].state = "planning" /\ log[2].state = "pending"
         /\ log[3].state = "approved" /\ log[4].state = "executing"
PROOF
  <1>1. i - 1 \in 1 .. Len(log) /\ log[i - 1].state = "approved"
    BY EventBefore, StepsBackwards
  <1>2. i - 2 \in 1 .. Len(log) /\ log[i - 2].state = "pending"
    <2>1. (i - 1) - 1 = i - 2
      OBVIOUS
    <2>2. (i - 1) - 1 \in 1 .. Len(log)
            /\ LifecycleStep(log[(i - 1) - 1].state, log[i - 1].state)
      BY <1>1, EventBefore
    <2> QED
      BY <1>1, <2>1, <2>2, StepsBackwards
  <1>3. i - 3 \in 1 .. Len(log) /\ log[i - 3].state = "planning"
    <2>1. (i - 2) - 1 = i - 3
      OBVIOUS
    <2>2. (i - 2) - 1 \in 1 .. Len(log)
            /\ LifecycleStep(log[(i - 2) - 1].state, log[i - 2].state)
      BY <1>2, EventBefore
    <2> QED
      BY <1>2, <2>1, <2>2, StepsBackwards
  <1>4. i - 3 = 1
    <2> SUFFICES ASSUME i - 3 # 1 PROVE FALSE
      OBVIOUS
    <2>1. i - 4 \in 1 .. Len(log) - 1 /\ (i - 4) + 1 = i - 3
      BY <1>3
    <2>2. LifecycleStep(log[i - 4].state, log[i - 3].state)
      BY <2>1 DEF LogFollows
    <2> QED
      BY <1>3, <2>2, StepsBackwards
  <1>5. i = 4 /\ i - 1 = 3 /\ i - 2 = 2 /\ Len(log) >= 4
    BY <1>4
  <1> QED
    BY <1>1, <1>2, <1>3, <1>5

\* A log that ends in execution, in recovery or in an outcome holds its execution.
LEMMA OutcomeWasExecuted ==
  ASSUME NEW log \in Seq(Events), NEW s \in States, LogFollows(log, s),
         s \in {"executing", "recovery_required", "succeeded", "failed"}
  PROVE  \E i \in 1 .. Len(log) : log[i].state = "executing"
PROOF
  <1>1. log # <<>> /\ log[Len(log)].state = s
    <2>1. s # "absent"
      BY EdgesLeaveActive
    <2> QED
      BY <2>1 DEF LogFollows
  <1>2. Len(log) \in 1 .. Len(log)
    BY <1>1
  <1>3. ASSUME NEW i \in 1 .. Len(log), log[i].state = "recovery_required"
        PROVE  \E j \in 1 .. Len(log) : log[j].state = "executing"
    BY <1>3, EventBefore, StepsBackwards
  <1>4. CASE s \in {"succeeded", "failed"}
    <2>1. /\ Len(log) - 1 \in 1 .. Len(log)
          /\ log[Len(log) - 1].state \in {"executing", "recovery_required"}
      BY <1>1, <1>2, <1>4, EventBefore, StepsBackwards
    <2> QED
      BY <1>3, <2>1
  <1> QED
    BY <1>1, <1>2, <1>3, <1>4

\* No request executes, and no outcome of an execution is recorded or certified,
\* without the approval of the request in its log, for every caller of the store
\* (transition_nonterminal, transition_terminal and reconcile_recovery check
\* permits and nothing else).
THEOREM ExecutionWasApproved == Spec => []RanApproved
PROOF
  <1>1. TypeInv /\ ReceiptIffTerminal /\ EventsFollowLifecycle => RanApproved
    <2> SUFFICES ASSUME TypeInv, ReceiptIffTerminal, EventsFollowLifecycle,
                        NEW r \in Requests,
                        \/ state[r] \in {"executing", "recovery_required", "succeeded",
                                         "failed"}
                        \/ /\ receipts[r] # NoReceipt
                           /\ receipts[r].state \in {"succeeded", "failed"}
                 PROVE  /\ Len(events[r]) >= 4
                        /\ events[r][1].state = "planning"
                        /\ events[r][2].state = "pending"
                        /\ events[r][3].state = "approved"
                        /\ events[r][4].state = "executing"
      BY DEF RanApproved
    <2>1. state[r] \in {"executing", "recovery_required", "succeeded", "failed"}
      BY DEF ReceiptIffTerminal
    <2>2. state[r] \in States /\ events[r] \in Seq(Events)
      BY <2>1 DEF TypeInv, TypeOK, States, Active, Terminal
    <2>3. LogFollows(events[r], state[r])
      BY LogsAreLifecycles
    <2>4. PICK i \in 1 .. Len(events[r]) : events[r][i].state = "executing"
      BY <2>1, <2>2, <2>3, OutcomeWasExecuted
    <2> QED
      BY <2>2, <2>3, <2>4, ExecutionIsFourth
  <1> QED
    BY <1>1, InitTyped, StepTyped, ReceiptsCertify, EventChain, PTL DEF Spec

------------------------------------------------------------------------------
\* A verified decision is answered: the steps of VerifiedDecisionAnswered.

\* The call failed and its transaction left nothing behind.
FailsCleanly(c) == InPhase(c, "failed")' /\ UNCHANGED durable

\* Whatever step others take, a verified call stays verified, or its request is
\* settled, or its process dies; and its own next step settles the request or fails
\* with nothing written.
VerifiedStep(c, r) ==
  /\ ~Decision(c) => Verified(c, r)' \/ Settled(r)' \/ cached'[c] = "closed"
  /\ Decision(c) => Settled(r)' \/ FailsCleanly(c)

VerifiedDecisionHolds ==
  [][\A c \in Connections, r \in Requests : Verified(c, r) => VerifiedStep(c, r)]_vars

\* The transaction of a verified call takes the request out of pending or fails.
LEMMA TransactionSettles ==
  ASSUME TypeInv, NEW c \in Connections, NEW r \in Requests, Verified(c, r), Decision(c)
  PROVE  Settled(r)' \/ FailsCleanly(c)
PROOF
  <1>0. /\ TypeOK /\ call[c] # NoCall /\ call[c].phase = "commit" /\ call[c].request = r
        /\ call[c] \in Calls
    BY DEF TypeInv, TypeOK, Verified, InPhase
  <1>1. /\ ~ReadGeneration(c) /\ ~ReadCredentials(c) /\ ~CloseUndecided(c)
        /\ ~ReturnError(c)
    BY <1>0 DEF ReadGeneration, ReadCredentials, CloseUndecided, ReturnError, InPhase
  <1>2. CASE CommitStale(c)
    BY <1>0, <1>2 DEF CommitStale, CloseRequest, append_transition, TypeOK, Settled
  <1>3. CASE CommitDecision(c)
    <2>1. call[c].decision \in {"approved", "denied"}
      BY <1>0, CallTyped
    <2> QED
      BY <1>0, <1>3, <2>1 DEF CommitDecision, append_transition, TypeOK, Settled
  <1>4. CASE AbandonDecision(c)
    <2>1. call'[c] = [call[c] EXCEPT !.phase = "failed"]
      BY <1>0, <1>4 DEF AbandonDecision, TypeOK
    <2>2. call'[c] \in Calls /\ call'[c].phase = "failed"
      BY <1>0, <2>1 DEF Calls, Phases
    <2>3. UNCHANGED durable
      BY <1>4 DEF AbandonDecision
    <2> QED
      BY <2>2, <2>3, NullAssumption DEF FailsCleanly, InPhase
  <1> QED
    BY <1>1, <1>2, <1>3, <1>4 DEF Decision

\* The steps of others leave a verified call as it is.
LEMMA VerifiedStays ==
  ASSUME TypeInv, [Next]_vars, NEW c \in Connections, NEW r \in Requests,
         Verified(c, r), ~Decision(c)
  PROVE  call'[c] = call[c] \/ cached'[c] = "closed"
PROOF
  <1>0. /\ call \in [Connections -> Calls \cup {NoCall}] /\ call[c] # NoCall
        /\ cached \in [Connections -> DeviceIds \cup {"closed"}]
    BY DEF TypeInv, TypeOK, Verified, InPhase
  <1>1. CASE UNCHANGED vars \/ Tick \/ Reboot
    BY <1>1 DEF vars, Tick, Reboot
  <1>2. ASSUME NEW b \in Connections, Open(b) \/ Crash(b)
        PROVE  call'[c] = call[c] \/ cached'[c] = "closed"
    BY <1>0, <1>2 DEF Open, Crash
  <1>3. ASSUME NEW b \in Connections, Operation(b) PROVE call'[c] = call[c]
    <2>1. CASE RowOperation(b)
      BY <2>1, RowOperationFrame
    <2>2. ASSUME NEW g \in Generations, NEW set \in SUBSET Credentials,
                 ReplaceCredentials(b, g, set)
          PROVE call'[c] = call[c]
      BY <2>2 DEF ReplaceCredentials
    <2>3. ASSUME NEW k \in SigningKeys, NEW q \in Requests,
                 NEW d \in {"approved", "denied"}, NEW w \in Credentials,
                 NEW n \in SignCounts, BeginDecision(b, k, q, d, w, n)
          PROVE call'[c] = call[c]
      BY <1>0, <2>3 DEF BeginDecision, Ready, Idle
    <2> QED
      BY <1>3, <2>1, <2>2, <2>3 DEF Operation, RowOperation
  <1>4. ASSUME NEW b \in Connections, Decision(b), b # c PROVE call'[c] = call[c]
    BY <1>0, <1>4
    DEF Decision, ReadGeneration, ReadCredentials, CloseUndecided, CommitStale,
        CommitDecision, AbandonDecision, ReturnError
  <1> QED
    BY <1>1, <1>2, <1>3, <1>4 DEF Next

\* Once apply_webauthn_submission has verified a decision, no step of another
\* connection takes the call back, and the call's own step leaves the request
\* approved, denied or stale, finds it closed by somebody else, or returns an error
\* with every table as it was: no reordering makes it write half of a decision or
\* answer Ok for a request that stays pending.  With weak fairness of Decision(c)
\* these are the steps of VerifiedDecisionAnswered.
THEOREM VerifiedDecisionIsAnswered == Spec => VerifiedDecisionHolds
PROOF
  <1>1. TypeInv /\ [Next]_vars =>
          [\A c \in Connections, r \in Requests : Verified(c, r) => VerifiedStep(c, r)]_vars
    <2> SUFFICES ASSUME TypeInv, [Next]_vars, NEW c \in Connections, NEW r \in Requests,
                        Verified(c, r)
                 PROVE  VerifiedStep(c, r)
      OBVIOUS
    <2>1. CASE Decision(c)
      BY <2>1, TransactionSettles DEF VerifiedStep
    <2>2. CASE ~Decision(c)
      <3>1. call'[c] = call[c] \/ cached'[c] = "closed"
        BY <2>2, VerifiedStays
      <3>2. identity'.key = identity.key
        <4>1. identity.key = call[c].signer /\ call[c] # NoCall
          BY DEF Verified, InPhase, ensure_identity
        <4>2. call[c].signer \in SigningKeys
          BY <4>1, CallTyped DEF TypeInv
        <4>3. identity.key # NoKey
          BY <4>1, <4>2, NullAssumption
        <4> QED
          BY <4>3, KeyPinnedOnce
      <3> QED
        BY <2>2, <3>1, <3>2 DEF Verified, VerifiedStep, InPhase, ensure_identity
    <2> QED
      BY <2>1, <2>2
  <1> QED
    BY <1>1, InitTyped, StepTyped, PTL DEF Spec, VerifiedDecisionHolds
=============================================================================
