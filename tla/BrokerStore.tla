----------------------------- MODULE BrokerStore -----------------------------
(***************************************************************************)
(* The durable broker of rp-broker-core: one SQLite file, any number of    *)
(* Broker values (connections) open on it, and every public operation that *)
(* writes it.  An operation that runs in one BEGIN IMMEDIATE transaction   *)
(* is one action.  apply_webauthn_submission reads outside its transaction *)
(* and is one action per read, so that other connections run in between.   *)
(* An operation that returns an error rolls back and is a stuttering step, *)
(* so only its successful outcomes are written as actions.  Of             *)
(* apply_webauthn_submission, where the error's moment matters, the errors *)
(* are actions too.                                                        *)
(*                                                                         *)
(* The repository has no daemon: whoever calls these operations decides    *)
(* their order.  Obligations names the rules callers keep (section         *)
(* "Callers"); with the empty set every call the API accepts may happen.   *)
(***************************************************************************)
EXTENDS Integers, Sequences, FiniteSets, RequestState

CONSTANTS
  Connections,     \* Broker values, in one process or several
  Requests,        \* request ids
  Uids,            \* requester uids
  OperationKeys,   \* idempotency keys
  Packages,        \* package names
  Allowed,         \* the policy: the <<uid, package>> pairs it allows
  SigningKeys,     \* broker signing keys callers may present
  Credentials,     \* WebAuthn credential ids
  SignCounts,      \* counters an assertion may carry
  Lifetimes,       \* ticks from preparation to either deadline
  Obligations,     \* the caller rules in force
  MaxGeneration,   \* bound: credential generations
  MaxTime,         \* bound: the UTC clock
  MaxBoots,        \* bound: boots of the host
  NoKey, NoInput, NoBinding, NoReceipt, NoCredential, NoCall

CallerRules == {"pin_first", "boot_first", "advance_generation", "decide",
                "prepare", "reconcile"}

ASSUME BoundsAssumption ==
  /\ MaxGeneration \in Nat /\ MaxTime \in Nat /\ MaxBoots \in Nat \ {0}
  /\ SignCounts \subseteq Nat /\ Lifetimes \subseteq Nat
  /\ Obligations \subseteq CallerRules

VARIABLES
  \* Durable state: one SQLite database.
  identity,     \* broker_identity: the pinned key and its device id
  bootEpoch,    \* broker_metadata.boot_epoch
  generation,   \* broker_metadata.credential_generation
  pinned,       \* credentials: the pinned ids, all of the current generation
  signCount,    \* credentials.sign_count
  state,        \* requests.state, "absent" when there is no row
  device,       \* requests.device_id
  input,        \* requests: uid, operation key, package, generation
  binding,      \* requests: what prepare_for_decision froze and signed
  evidence,     \* requests.recovery_evidence is set
  events,       \* request_events by sequence number
  receipts,     \* receipts and requests.receipt_bytes
  \* Volatile state.
  cached,       \* the device id a connection cached, or "closed"
  call,         \* the apply_webauthn_submission a connection is inside
  acks,         \* what submit has answered so far
  utc, mono, boots   \* the host's clocks and how often it booted

durable == <<identity, bootEpoch, generation, pinned, signCount, state, device,
             input, binding, evidence, events, receipts>>
rows == <<state, device, input, binding, evidence, events, receipts>>
credentialTable == <<generation, pinned, signCount>>
clocks == <<utc, mono, boots>>
vars == <<durable, cached, call, acks, clocks>>

------------------------------------------------------------------------------
\* Shapes of the values.

DeviceIds == {"zero", "pinned"}
Generations == 0 .. MaxGeneration
Epochs == 0 .. MaxBoots

Inputs == [uid : Uids, key : OperationKeys, package : Packages,
           generation : Generations]
Bindings == [boot : 1 .. MaxBoots, expires : Nat, deadline : Nat]
Events == [state : States, reason : Reasons]
Receipts == [state : Terminal, signer : SigningKeys, epoch : Epochs,
             digest : {"request", "input"},
             authorization : Credentials \cup {NoCredential},
             recovered : BOOLEAN]
Phases == {"generation", "credentials", "commit", "expired", "stale", "failed"}
Calls == [phase : Phases, request : Requests, signer : SigningKeys,
          decision : {"approved", "denied"}, credential : Credentials,
          count : SignCounts, utc : 0 .. MaxTime, mono : 0 .. MaxTime]
Acks == [uid : Uids, key : OperationKeys, package : Packages, request : Requests]

\* The values that stand for SQL NULL, a missing row and no call are none of these.
ASSUME NullAssumption ==
  /\ NoKey \notin SigningKeys /\ NoCredential \notin Credentials
  /\ NoInput \notin Inputs /\ NoBinding \notin Bindings
  /\ NoReceipt \notin Receipts /\ NoCall \notin Calls

\* Every variable ranges over what the schema and the types admit.
TypeOK ==
  /\ identity \in [key : SigningKeys \cup {NoKey}, device : DeviceIds]
  /\ bootEpoch \in Epochs
  /\ generation \in Generations
  /\ pinned \subseteq Credentials
  /\ signCount \in [Credentials -> Nat]
  /\ state \in [Requests -> States \cup {"absent"}]
  /\ device \in [Requests -> DeviceIds]
  /\ input \in [Requests -> Inputs \cup {NoInput}]
  /\ binding \in [Requests -> Bindings \cup {NoBinding}]
  /\ evidence \in [Requests -> BOOLEAN]
  /\ events \in [Requests -> Seq(Events)]
  /\ receipts \in [Requests -> Receipts \cup {NoReceipt}]
  /\ cached \in [Connections -> DeviceIds \cup {"closed"}]
  /\ call \in [Connections -> Calls \cup {NoCall}]
  /\ acks \subseteq Acks
  /\ utc \in 0 .. MaxTime /\ mono \in 0 .. MaxTime /\ boots \in 1 .. MaxBoots

------------------------------------------------------------------------------
\* Callers.  A rule in Obligations restricts which calls are made, never what
\* a call does.

Obliged(rule) == rule \in Obligations

\* A connection that may start an operation.  "boot_first": after a reboot
\* nothing but start_boot and initialize_identity runs until the epoch is new.
Idle(c) == cached[c] # "closed" /\ call[c] = NoCall
Ready(c) == Idle(c) /\ (Obliged("boot_first") => bootEpoch = boots)

\* "decide": decisions are not passed to the generic transition functions.
\* "prepare": pending is entered through prepare_for_decision only.
\* "reconcile": recovery_required is left through reconcile_recovery only.
CallerMayPass(s, t) ==
  /\ Obliged("decide") => ~(s = "pending" /\ t \in {"approved", "denied"})
  /\ Obliged("prepare") => t # "pending"
  /\ Obliged("reconcile") => s # "recovery_required"

------------------------------------------------------------------------------
\* Parts of a transaction.

\* Fault: any signer is accepted.
ensure_identity_accepts_any(k) == TRUE

\* ensure_identity: the signer is the pinned one.
ensure_identity(k) == identity.key = k

\* Fault: the state is updated and the event insert is forgotten.
append_transition_without_event(r, t, reason) ==
  /\ state' = [state EXCEPT ![r] = t]
  /\ UNCHANGED events

\* append_transition: the state and its event change together.
append_transition(r, t, reason) ==
  /\ state' = [state EXCEPT ![r] = t]
  /\ events' = [events EXCEPT ![r] = Append(@, [state |-> t, reason |-> reason])]

\* Fault: the receipt names the input digest even when a request was signed.
ReceiptOfInput(r, t, k, credential, recovered) ==
  [state |-> t, signer |-> k, epoch |-> bootEpoch, digest |-> "input",
   authorization |-> credential, recovered |-> recovered]

\* create_receipt's payload; request_digest falls back to the input digest.
Receipt(r, t, k, credential, recovered) ==
  [state |-> t, signer |-> k, epoch |-> bootEpoch,
   digest |-> IF binding[r] = NoBinding THEN "input" ELSE "request",
   authorization |-> credential, recovered |-> recovered]

\* create_receipt: receipts.request_id is UNIQUE and receipt_bytes is write-once.
create_receipt(r, t, k, credential, recovered) ==
  /\ receipts[r] = NoReceipt
  /\ receipts' = [receipts EXCEPT ![r] = Receipt(r, t, k, credential, recovered)]

\* transition_terminal, as a whole transaction.
CloseRequest(r, t, k, reason, credential, recovered) ==
  /\ ensure_identity(k)
  /\ append_transition(r, t, reason)
  /\ create_receipt(r, t, k, credential, recovered)

\* The rows lookup_idempotency finds for a requester and an operation key.
lookup_idempotency(uid, key) ==
  {q \in Requests : /\ state[q] # "absent"
                    /\ input[q].uid = uid
                    /\ input[q].key = key}

\* The stored input digest equals the retry's.
SameInputIgnored(q, package) == TRUE  \* Fault: the digests are not compared.
SameInput(q, package) == input[q].package = package

\* Fault: a request that is executing no longer holds the slot.
ActiveBeforeExecution(d) ==
  {q \in Requests : state[q] \in BootExpired /\ device[q] = d}

\* The rows that hold the active slot of a device id.
ActiveOn(d) == {q \in Requests : state[q] \in Active /\ device[q] = d}

------------------------------------------------------------------------------
Init ==
  /\ identity \in {[key |-> k, device |-> "zero"] : k \in SigningKeys \cup {NoKey}}
  /\ bootEpoch = 0
  /\ generation = 0
  /\ pinned = {}
  /\ signCount = [k \in Credentials |-> 0]
  /\ state = [r \in Requests |-> "absent"]
  /\ device = [r \in Requests |-> "zero"]
  /\ input = [r \in Requests |-> NoInput]
  /\ binding = [r \in Requests |-> NoBinding]
  /\ evidence = [r \in Requests |-> FALSE]
  /\ events = [r \in Requests |-> <<>>]
  /\ receipts = [r \in Requests |-> NoReceipt]
  /\ cached = [c \in Connections |-> "closed"]
  /\ call = [c \in Connections |-> NoCall]
  /\ acks = {}
  /\ utc = 0 /\ mono = 0 /\ boots = 1

\* open and from_connection: the device id is read once, here.
Open(c) ==
  /\ cached[c] = "closed"
  /\ cached' = [cached EXCEPT ![c] = identity.device]
  /\ UNCHANGED <<durable, call, acks, clocks>>

\* The process holding the connection dies; an open call is never finished.
Crash(c) ==
  /\ cached[c] # "closed"
  /\ cached' = [cached EXCEPT ![c] = "closed"]
  /\ call' = [call EXCEPT ![c] = NoCall]
  /\ UNCHANGED <<durable, acks, clocks>>

\* The host restarts: every process dies and the monotonic clock starts over.
Reboot ==
  /\ boots < MaxBoots
  /\ boots' = boots + 1
  /\ mono' = 0
  /\ cached' = [c \in Connections |-> "closed"]
  /\ call' = [c \in Connections |-> NoCall]
  /\ UNCHANGED <<durable, acks, utc>>

Tick ==
  /\ utc < MaxTime
  /\ utc' = utc + 1
  /\ mono' = mono + 1
  /\ UNCHANGED <<durable, cached, call, acks, boots>>

\* initialize_identity: pins the key once, mints the device id once, and
\* refreshes this connection's copy of it.  Another key is UnsafeKey.
InitializeIdentity(c, k) ==
  /\ Idle(c)
  /\ identity.key \in {k, NoKey}
  /\ identity' = [key |-> k, device |-> "pinned"]
  /\ cached' = [cached EXCEPT ![c] = "pinned"]
  /\ UNCHANGED <<bootEpoch, credentialTable, rows, call, acks, clocks>>

\* Fault: approved work survives the reboot.
BootWorkBeforeApproval(epoch) ==
  {r \in Requests : state[r] \in {"planning", "pending"} /\ epoch # 0}

\* The rows start_boot selects: open before execution, of another epoch than the
\* new one.  requests.boot_epoch is never written and keeps its default 0.
BootWork(epoch) == {r \in Requests : state[r] \in BootExpired /\ epoch # 0}

\* start_boot: expires that work and then records the epoch, so the receipts carry
\* the previous one.
StartBoot(c, k, epoch) ==
  LET expired == BootWork(epoch)
      expiry == [state |-> "expired", reason |-> "expired"]
  IN
  /\ Idle(c)
  /\ Obliged("boot_first") => epoch = boots
  /\ epoch # bootEpoch
  /\ ensure_identity(k)
  /\ \A r \in expired : receipts[r] = NoReceipt
  /\ bootEpoch' = epoch
  /\ state' = [r \in Requests |-> IF r \in expired THEN "expired" ELSE state[r]]
  /\ events' = [r \in Requests |-> IF r \in expired THEN Append(events[r], expiry)
                                                    ELSE events[r]]
  /\ receipts' = [r \in Requests |->
                    IF r \in expired THEN Receipt(r, "expired", k, NoCredential, evidence[r])
                                     ELSE receipts[r]]
  /\ UNCHANGED <<identity, credentialTable, device, input, binding, evidence,
                 cached, call, acks, clocks>>

\* submit, no row for the key yet.  The slot is looked up under the device id
\* this connection cached.
SubmitNew(c, r, uid, key, package, g) ==
  /\ Ready(c)
  /\ Obliged("pin_first") => cached[c] = "pinned"
  /\ <<uid, package>> \in Allowed
  /\ lookup_idempotency(uid, key) = {}
  /\ ActiveOn(cached[c]) = {}
  /\ state[r] = "absent"
  /\ state' = [state EXCEPT ![r] = "planning"]
  /\ device' = [device EXCEPT ![r] = cached[c]]
  /\ input' = [input EXCEPT ![r] = [uid |-> uid, key |-> key, package |-> package,
                                    generation |-> g]]
  /\ events' = [events EXCEPT ![r] = <<[state |-> "planning", reason |-> "created"]>>]
  /\ acks' = acks \cup {[uid |-> uid, key |-> key, package |-> package, request |-> r]}
  /\ UNCHANGED <<identity, bootEpoch, credentialTable, binding, evidence, receipts,
                 cached, call, clocks>>

\* submit, an exact retry: the same package under the same key.
SubmitRetry(c, uid, key, package) ==
  /\ Ready(c)
  /\ <<uid, package>> \in Allowed
  /\ \E q \in lookup_idempotency(uid, key) :
       /\ SameInput(q, package)
       /\ acks' = acks \cup {[uid |-> uid, key |-> key, package |-> package, request |-> q]}
  /\ UNCHANGED <<durable, cached, call, clocks>>

\* transition_nonterminal: a compare-and-set on the state alone.
TransitionNonterminal(c, r, t) ==
  /\ Ready(c)
  /\ CallerMayPass(state[r], t)
  /\ t \notin Terminal /\ permits(state[r], t)
  /\ append_transition(r, t, transition_reason[t])
  /\ UNCHANGED <<identity, bootEpoch, credentialTable, device, input, binding, evidence,
                 receipts, cached, call, acks, clocks>>

\* transition_terminal: the compare-and-set, the event and the receipt.
TransitionTerminal(c, k, r, t) ==
  /\ Ready(c)
  /\ CallerMayPass(state[r], t)
  /\ t \in Terminal /\ permits(state[r], t)
  /\ CloseRequest(r, t, k, transition_reason[t], NoCredential, evidence[r])
  /\ UNCHANGED <<identity, bootEpoch, credentialTable, device, input, binding, evidence,
                 cached, call, acks, clocks>>

\* Fault: the signed request is returned and not stored.
freeze_nothing(r, expiresIn, deadlineIn) == UNCHANGED binding

\* What prepare_for_decision stores with the transition: the signed request, its
\* nonce and boot, and both deadlines as the trusted caller chose them.
freeze_request(r, expiresIn, deadlineIn) ==
  binding' = [binding EXCEPT ![r] = [boot |-> boots, expires |-> utc + expiresIn,
                                     deadline |-> mono + deadlineIn]]

\* prepare_for_decision: the pending state, its event and the frozen request.
PrepareForDecision(c, k, r, expiresIn, deadlineIn) ==
  /\ Ready(c)
  /\ ensure_identity(k)
  /\ state[r] = "planning"
  /\ append_transition(r, "pending", "planner_pending")
  /\ freeze_request(r, expiresIn, deadlineIn)
  /\ UNCHANGED <<identity, bootEpoch, credentialTable, device, input, evidence, receipts,
                 cached, call, acks, clocks>>

\* replace_credentials: the caller names the generation; nothing compares it with
\* the one in force.  Counters start over.
ReplaceCredentials(c, g, set) ==
  /\ Ready(c)
  /\ Obliged("advance_generation") => g > generation
  /\ set # {}
  /\ generation' = g
  /\ pinned' = set
  /\ signCount' = [k \in Credentials |-> 0]
  /\ UNCHANGED <<identity, bootEpoch, rows, cached, call, acks, clocks>>

\* reconcile_recovery: operator evidence is stored and its digest is in the receipt.
ReconcileRecovery(c, k, r, t) ==
  /\ Ready(c)
  /\ state[r] = "recovery_required"
  /\ CloseRequest(r, t, k, reconcile_reason[t], NoCredential, TRUE)
  /\ evidence' = [evidence EXCEPT ![r] = TRUE]
  /\ UNCHANGED <<identity, bootEpoch, credentialTable, device, input, binding,
                 cached, call, acks, clocks>>

------------------------------------------------------------------------------
\* apply_webauthn_submission, one action per access to the database.

\* approval_context and deadline_elapsed: the row is pending and bound, and the
\* instants the caller passed in decide about expiry.
BeginDecision(c, k, r, decision, credential, count) ==
  LET late == utc >= binding[r].expires \/ mono >= binding[r].deadline
  IN
  /\ Ready(c)
  /\ state[r] = "pending" /\ binding[r] # NoBinding
  /\ call' = [call EXCEPT ![c] =
                [phase |-> IF late THEN "expired" ELSE "generation", request |-> r,
                 signer |-> k, decision |-> decision, credential |-> credential,
                 count |-> count, utc |-> utc, mono |-> mono]]
  /\ UNCHANGED <<durable, cached, acks, clocks>>

InPhase(c, phase) == call[c] # NoCall /\ call[c].phase = phase

\* credential_generation.
ReadGeneration(c) ==
  /\ InPhase(c, "generation")
  /\ call' = [call EXCEPT ![c].phase =
                IF generation = input[call[c].request].generation THEN "credentials"
                                                                  ELSE "stale"]
  /\ UNCHANGED <<durable, cached, acks, clocks>>

\* The assertion passes verify_submission: its credential is pinned under the
\* generation just read.
AssertionVerified(c) ==
  /\ call[c].credential \in pinned
  /\ generation = input[call[c].request].generation

\* pinned_credentials and verify_submission; a rejected assertion is an error.
ReadCredentials(c) ==
  /\ InPhase(c, "credentials")
  /\ call' = [call EXCEPT ![c].phase = IF AssertionVerified(c) THEN "commit" ELSE "failed"]
  /\ UNCHANGED <<durable, cached, acks, clocks>>

\* The transition_terminal calls before verification, for expiry or a stale
\* generation.
CloseUndecided(c) ==
  LET r == call[c].request
      t == call[c].phase
  IN
  /\ call[c] # NoCall /\ t \in {"expired", "stale"}
  /\ state[r] = "pending"
  /\ CloseRequest(r, t, call[c].signer, transition_reason[t], NoCredential, evidence[r])
  /\ call' = [call EXCEPT ![c] = NoCall]
  /\ UNCHANGED <<identity, bootEpoch, credentialTable, device, input, binding, evidence,
                 cached, acks, clocks>>

\* Fault: the moved generation is reported and the request stays pending.
CommitStaleReported(c) ==
  /\ InPhase(c, "commit")
  /\ generation # input[call[c].request].generation
  /\ call' = [call EXCEPT ![c] = NoCall]
  /\ UNCHANGED <<durable, cached, acks, clocks>>

\* The transaction finds that the generation moved during verification.
CommitStale(c) ==
  LET r == call[c].request
  IN
  /\ InPhase(c, "commit")
  /\ state[r] = "pending"
  /\ generation # input[r].generation
  /\ CloseRequest(r, "stale", call[c].signer, "generation_stale", NoCredential, evidence[r])
  /\ call' = [call EXCEPT ![c] = NoCall]
  /\ UNCHANGED <<identity, bootEpoch, credentialTable, device, input, binding, evidence,
                 cached, acks, clocks>>

\* Faults: one half of the recheck inside the transaction is dropped.
StillPendingOnly(r) == state[r] = "pending"
StillOfGenerationOnly(r) == generation = input[r].generation

\* The transaction's recheck: still pending, still the request's generation.
StillDecidable(r) == state[r] = "pending" /\ generation = input[r].generation

\* Fault: the counter of the last assertion overwrites the maximum.
overwrite_sign_count(credential, count) ==
  signCount' = IF credential \in pinned THEN [signCount EXCEPT ![credential] = count]
                                        ELSE signCount

\* UPDATE credentials SET sign_count = MAX(sign_count, ?).
raise_sign_count(credential, count) ==
  signCount' = IF credential \in pinned /\ count > signCount[credential]
                 THEN [signCount EXCEPT ![credential] = count] ELSE signCount

\* Faults: a receipt for an approval; no receipt for a denial.
decision_receipt_always(c) ==
  create_receipt(call[c].request, call[c].decision, call[c].signer, call[c].credential,
                 evidence[call[c].request])
decision_receipt_never(c) == UNCHANGED receipts

\* The receipt of a decision, when it is terminal.
decision_receipt(c) ==
  \/ call[c].decision = "approved" /\ UNCHANGED receipts
  \/ /\ call[c].decision = "denied"
     /\ create_receipt(call[c].request, "denied", call[c].signer, call[c].credential,
                       evidence[call[c].request])

\* The transaction commits the decision; a denial is closed with its receipt.
CommitDecision(c) ==
  LET r == call[c].request
      d == call[c].decision
  IN
  /\ InPhase(c, "commit")
  /\ StillDecidable(r)
  /\ ensure_identity(call[c].signer)
  /\ append_transition(r, d, transition_reason[d])
  /\ raise_sign_count(call[c].credential, call[c].count)
  /\ decision_receipt(c)
  /\ call' = [call EXCEPT ![c] = NoCall]
  /\ UNCHANGED <<identity, bootEpoch, generation, pinned, device, input, binding,
                 evidence, cached, acks, clocks>>

\* Any access may end the call through its "?": the compare-and-set is lost, the
\* signer is not the pinned one, the write lock is not free within the busy timeout,
\* a read, a write or a signature fails.  The open transaction is rolled back.
AbandonDecision(c) ==
  /\ call[c] # NoCall /\ call[c].phase # "failed"
  /\ call' = [call EXCEPT ![c].phase = "failed"]
  /\ UNCHANGED <<durable, cached, acks, clocks>>

\* The caller is handed the error.
ReturnError(c) ==
  /\ InPhase(c, "failed")
  /\ call' = [call EXCEPT ![c] = NoCall]
  /\ UNCHANGED <<durable, cached, acks, clocks>>

------------------------------------------------------------------------------
Decision(c) ==
  \/ ReadGeneration(c) \/ ReadCredentials(c) \/ CloseUndecided(c)
  \/ CommitStale(c) \/ CommitDecision(c) \/ AbandonDecision(c)
  \/ ReturnError(c)

Operation(c) ==
  \/ \E r \in Requests, uid \in Uids, key \in OperationKeys, p \in Packages,
        g \in Generations : SubmitNew(c, r, uid, key, p, g)
  \/ \E uid \in Uids, key \in OperationKeys, p \in Packages : SubmitRetry(c, uid, key, p)
  \/ \E r \in Requests, t \in Active : TransitionNonterminal(c, r, t)
  \/ \E g \in Generations, set \in SUBSET Credentials : ReplaceCredentials(c, g, set)
  \/ \E k \in SigningKeys :
       \/ InitializeIdentity(c, k)
       \/ \E epoch \in Epochs : StartBoot(c, k, epoch)
       \/ \E r \in Requests :
            \/ \E t \in Terminal : TransitionTerminal(c, k, r, t)
            \/ \E x, y \in Lifetimes : PrepareForDecision(c, k, r, x, y)
            \/ \E t \in {"succeeded", "failed"} : ReconcileRecovery(c, k, r, t)
            \/ \E d \in {"approved", "denied"}, w \in Credentials, n \in SignCounts :
                 BeginDecision(c, k, r, d, w, n)

Next ==
  \/ Tick \/ Reboot
  \/ \E c \in Connections : Open(c) \/ Crash(c) \/ Operation(c) \/ Decision(c)

Spec == Init /\ [][Next]_vars

------------------------------------------------------------------------------
\* Properties.

\* A request is closed exactly when it has its receipt, and the receipt certifies
\* the state the row is in under the pinned key (create_receipt shares the
\* transaction of every closing transition; UNIQUE request_id never fires).
ReceiptIffTerminal ==
  \A r \in Requests :
    /\ state[r] \in Terminal <=> receipts[r] # NoReceipt
    /\ receipts[r] # NoReceipt => /\ receipts[r].state = state[r]
                                  /\ receipts[r].signer = identity.key

\* What a step of the recorded lifecycle may be: an edge of permits or the
\* expiry start_boot performs without consulting it.
LifecycleStep(s, t) == permits(s, t) \/ (s \in BootExpired /\ t = "expired")

\* The event chain of a request starts at planning, follows the lifecycle edge
\* by edge and ends in the state of the row, whatever connections raced
\* (append_transition, transition_nonterminal, submit).
EventsFollowLifecycle ==
  \A r \in Requests :
    LET log == events[r] IN
    /\ state[r] = "absent" <=> log = <<>>
    /\ log # <<>> => log[1].state = "planning" /\ log[Len(log)].state = state[r]
    /\ \A i \in 1 .. Len(log) - 1 : LifecycleStep(log[i].state, log[i + 1].state)

\* At most one request is active: the one device slot of BrokerError::Busy and
\* the partial unique index.
OneActive ==
  \A r, q \in Requests : state[r] \in Active /\ state[q] \in Active => r = q

\* Two answers submit gave for one requester and operation key name the same
\* request and the same package, across retries, crashes and connections.
RetriesAgree ==
  \A a, b \in acks : a.uid = b.uid /\ a.key = b.key => a = b

\* While the broker serves a boot, a request awaiting a decision or execution was
\* prepared in that boot, so its monotonic deadline is on this boot's clock.
LiveWorkIsOfThisBoot ==
  bootEpoch = boots =>
    \A r \in Requests :
      state[r] \in BootExpired /\ binding[r] # NoBinding => binding[r].boot = boots

\* From pending until it closes, a request has a signed plan, nonce and deadlines
\* ("A frozen signed plan awaits a decision", RequestState::Pending).
PendingIsBound ==
  \A r \in Requests :
    state[r] \in {"pending", "approved", "executing", "recovery_required"}
      => binding[r] # NoBinding

PassedThrough(r, s) == \E i \in 1 .. Len(events[r]) : events[r][i].state = s

\* A receipt tells how its request got there: the signed request's digest once
\* there is one, the deciding credential of a denial, and the operator evidence
\* exactly when recovery_required was reconciled (create_receipt,
\* reconcile_recovery).
ReceiptMatchesHistory ==
  \A r \in Requests :
    receipts[r] # NoReceipt =>
      /\ receipts[r].digest = "request" <=> PassedThrough(r, "pending")
      /\ receipts[r].authorization # NoCredential <=> PassedThrough(r, "denied")
      /\ receipts[r].recovered <=> PassedThrough(r, "recovery_required")

\* Nothing changes a closed request: not its state, its receipt, its evidence or
\* its events, and events are only ever appended.
ClosedIsFinal ==
  [][\A r \in Requests :
       /\ state[r] \in Terminal =>
            /\ state'[r] = state[r] /\ receipts'[r] = receipts[r]
            /\ events'[r] = events[r] /\ evidence'[r] = evidence[r]
       /\ SubSeq(events'[r], 1, Len(events[r])) = events[r]]_vars

Decided(r, d) == state[r] = "pending" /\ state'[r] = d

\* A request becomes approved or denied only when a call commits that very
\* decision, its credential is pinned at that instant under the generation the
\* request was created for, and the call began before both deadlines.
DecisionAuthorised ==
  [][\A r \in Requests, d \in {"approved", "denied"} : Decided(r, d) =>
       \E c \in Connections :
         /\ InPhase(c, "commit")
         /\ call[c].request = r /\ call[c].decision = d
         /\ call[c].credential \in pinned /\ generation = input[r].generation
         /\ call[c].utc < binding[r].expires /\ call[c].mono < binding[r].deadline]_vars

\* While a generation of credentials stays in place its counters never go down,
\* although a later request may be decided by an assertion with a lower counter
\* (sign_count = MAX(sign_count, ?)).
CountersOnlyRise ==
  [][generation' = generation => \A w \in Credentials : signCount'[w] >= signCount[w]]_vars

\* A call that is running is scheduled: between its reads and its transaction it
\* waits for nothing but SQLite's write lock, and for that at most the busy timeout,
\* after which it fails.
FairSpec == Spec /\ \A c \in Connections : WF_vars(Decision(c))

\* A call that passed verification for r under the pinned signer and waits for its
\* transaction.
Verified(c, r) ==
  InPhase(c, "commit") /\ call[c].request = r /\ ensure_identity(call[c].signer)

\* The request is out of pending, by this call or by another.
Settled(r) == state[r] # "pending"

\* A decision that passed verification is answered: its request is settled, also when
\* the generation moved meanwhile, or its caller gets an error, or its process dies.
\* apply_webauthn_submission never returns Ok and leaves the request pending.
VerifiedDecisionAnswered ==
  \A c \in Connections, r \in Requests :
    Verified(c, r) ~> (Settled(r) \/ InPhase(c, "failed") \/ cached[c] = "closed")

\* Seen request by request, the store is the abstract lifecycle.
Abstract == INSTANCE RequestLifecycle WITH
  receipt <- [r \in Requests |-> IF receipts[r] = NoReceipt THEN "none"
                                                            ELSE receipts[r].state]

\* The durable broker implements RequestLifecycle: the slot, the edges and the
\* receipt written by the closing step.
ImplementsLifecycle == Abstract!Spec
=============================================================================
