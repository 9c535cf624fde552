-------------------------- MODULE HostedProjection --------------------------
(***************************************************************************)
(* LifecycleProjectionRepository of the hosted service together with the   *)
(* outbox that carries its resync requests.  applyVerifiedEvent and        *)
(* replaceFromVerifiedResync are one transaction each and lock the row of  *)
(* their request, so each is one action.  The relay delivers verified      *)
(* events and resync replies late, twice and out of order.                 *)
(*                                                                         *)
(* The broker signs one chain of events for a request; a restored backup   *)
(* makes it sign other events under numbers it has used.  How the chain    *)
(* starts is a parameter, because the service expects another beginning    *)
(* than the broker signs.                                                  *)
(***************************************************************************)
EXTENDS OutboxLease, RequestState

CONSTANTS
  FirstSequence,   \* the number of a request's first event
  FirstState,      \* the state in it
  LaterStates,     \* the states in later events
  MaxEvents,       \* bound: events of one chain
  MaxDigest,       \* bound: events the broker signs, on all its chains
  MaxReplies,      \* bound: resync replies on their way at a time
  NoDigest

VARIABLES
  rows,      \* lifecycle_projections: broker_sequence -> event_digest
  frozen,    \* projection_sync_states.frozen_gap
  verified,  \* projection_sync_states.last_verified_sequence
  chain,     \* the events of the broker's database
  signed,    \* every event a broker signed
  asked,     \* a resync request is on its way to the broker
  replies,   \* resync replies on their way back
  answered   \* every resync reply the broker sent

projectionVars == <<rows, frozen, verified>>
brokerVars == <<chain, signed>>
transitVars == <<asked, replies, answered>>
vars == <<outboxVars, projectionVars, brokerVars, transitVars>>

Requests == Relations
Digests == 1 .. MaxDigest

ASSUME ProjectionAssumption ==
  /\ {FirstSequence, MaxEvents, MaxDigest, MaxReplies} \subseteq Nat
  /\ MaxDigest # 0
  /\ NoDigest \notin Digests
  /\ FirstState \in States /\ LaterStates \subseteq States

Events == [sequence : Nat, digest : Digests, previous : Digests \cup {NoDigest},
           state : States]

\* Every variable has the shape of its table or message.
TypeOK ==
  /\ OutboxTypeOK
  /\ \A r \in Requests : DOMAIN rows[r] \subseteq Nat
                         /\ \A s \in DOMAIN rows[r] : rows[r][s] \in Digests
  /\ frozen \in [Requests -> BOOLEAN]
  /\ verified \in [Requests -> Nat \cup {-1}]
  /\ \A r \in Requests : /\ chain[r] \in Seq(Events) /\ Len(chain[r]) \in 1 .. MaxEvents
                         /\ signed[r] \subseteq Events
                         /\ Cardinality(replies[r]) <= MaxReplies
  /\ asked \in [Requests -> BOOLEAN]

------------------------------------------------------------------------------
\* The broker, as far as its signed events show it.

\* The number of events signed so far names the next digest.
NextEvent(r, history, t) ==
  [sequence |-> FirstSequence + Len(history), digest |-> Cardinality(signed[r]) + 1,
   previous |-> history[Len(history)].digest, state |-> t]

Signs(r, history, t) ==
  LET e == NextEvent(r, history, t)
  IN
  /\ Len(history) < MaxEvents /\ e.digest \in Digests
  /\ permits(history[Len(history)].state, t)
  /\ chain' = [chain EXCEPT ![r] = Append(history, e)]
  /\ signed' = [signed EXCEPT ![r] = @ \cup {e}]
  /\ UNCHANGED <<outboxVars, projectionVars, transitVars>>

\* append_transition signs the next event of the request.
BrokerSigns(r) == \E t \in LaterStates : Signs(r, chain[r], t)

\* The broker runs on from a backup that lacks the last events.
BrokerRestored(r, n) ==
  /\ n \in 1 .. Len(chain[r]) - 1
  /\ \E t \in LaterStates : Signs(r, SubSeq(chain[r], 1, n), t)

\* A resync request reaches the broker and is answered with its whole chain.
BrokerAnswers(r) ==
  /\ asked[r]
  /\ Cardinality(replies[r] \cup {chain[r]}) <= MaxReplies
  /\ asked' = [asked EXCEPT ![r] = FALSE]
  /\ replies' = [replies EXCEPT ![r] = @ \cup {chain[r]}]
  /\ answered' = [answered EXCEPT ![r] = @ \cup {chain[r]}]
  /\ UNCHANGED <<outboxVars, projectionVars, brokerVars>>

------------------------------------------------------------------------------
FirstEvent == [sequence |-> FirstSequence, digest |-> 1, previous |-> NoDigest,
               state |-> FirstState]

Init ==
  /\ OutboxInit
  /\ rows = [r \in Requests |-> [s \in {} |-> NoDigest]]
  /\ frozen = [r \in Requests |-> FALSE]
  /\ verified = [r \in Requests |-> -1]
  /\ chain = [r \in Requests |-> <<FirstEvent>>]
  /\ signed = [r \in Requests |-> {FirstEvent}]
  /\ asked = [r \in Requests |-> FALSE]
  /\ replies = [r \in Requests |-> {}] /\ answered = [r \in Requests |-> {}]

\* The states the service takes for a broker's.
LIFECYCLE_STATES ==
  {"awaiting_event", "pending", "approved", "executing", "succeeded", "failed",
   "cancelled", "expired", "stale", "recovery_required"}

\* validateEvent of an event the broker signed: digests and numbers are well formed.
validateEvent(e) == e.state \in LIFECYCLE_STATES

\* The tail row; rows are only inserted behind it.
LastRow(r) == CHOOSE s \in DOMAIN rows[r] : \A t \in DOMAIN rows[r] : t <= s
NoRows(r) == DOMAIN rows[r] = {}

expectedSequence(r) == IF NoRows(r) THEN 0 ELSE LastRow(r) + 1

\* Fault: the digest of the previous event is not compared.
previousIgnored(r, e) == TRUE

previousMatches(r, e) ==
  e.previous = IF NoRows(r) THEN NoDigest ELSE rows[r][LastRow(r)]

Continues(r, e) == e.sequence = expectedSequence(r) /\ previousMatches(r, e)
IsDuplicate(r, e) == e.sequence \in DOMAIN rows[r] /\ rows[r][e.sequence] = e.digest

insertProjection(r, e) ==
  /\ rows' = [rows EXCEPT ![r] = [s \in DOMAIN @ \cup {e.sequence} |->
                                    IF s = e.sequence THEN e.digest ELSE @[s]]]
  /\ verified' = [verified EXCEPT ![r] = e.sequence]

\* applyVerifiedEvent, "applied": also what clears frozen_gap.  An event that
\* validateEvent refuses changes nothing.
ApplyNext(r, e) ==
  /\ validateEvent(e)
  /\ e.sequence \notin DOMAIN rows[r] /\ Continues(r, e)
  /\ insertProjection(r, e)
  /\ frozen' = [frozen EXCEPT ![r] = FALSE]
  /\ UNCHANGED <<outboxVars, brokerVars, transitVars>>

\* applyVerifiedEvent, "frozen_gap": freezeAndQueueResync.  The answer "duplicate"
\* changes nothing.
ApplyConflicting(r, e) ==
  /\ validateEvent(e)
  /\ ~IsDuplicate(r, e)
  /\ e.sequence \in DOMAIN rows[r] \/ ~Continues(r, e)
  /\ frozen' = [frozen EXCEPT ![r] = TRUE]
  /\ Arm(r)
  /\ UNCHANGED <<queue, phase, rows, verified, brokerVars, transitVars>>

\* validateContiguousChain, and at least one event.
validateContiguousChain(events) ==
  /\ events # <<>>
  /\ \A i \in 1 .. Len(events) :
       /\ events[i].sequence = i - 1
       /\ events[i].previous = IF i = 1 THEN NoDigest ELSE events[i - 1].digest

replaceRows(r, events) ==
  [s \in {events[i].sequence : i \in 1 .. Len(events)} |-> events[s + 1].digest]

\* Fault: the resync row stays in the outbox.
KeepResync(r) == UNCHANGED outbox

ClearResync(r) == Disarm(r)

Accepted(events) ==
  (\A i \in 1 .. Len(events) : validateEvent(events[i])) /\ validateContiguousChain(events)

Replaces(r, events) ==
  /\ Accepted(events)
  /\ rows' = [rows EXCEPT ![r] = replaceRows(r, events)]
  /\ verified' = [verified EXCEPT ![r] = events[Len(events)].sequence]
  /\ frozen' = [frozen EXCEPT ![r] = FALSE]
  /\ ClearResync(r)

\* replaceFromVerifiedResync: the projection is replaced, or the call throws.
ReplaceFromVerifiedResync(r, events) ==
  /\ \/ Replaces(r, events)
     \/ ~Accepted(events) /\ UNCHANGED <<outbox, projectionVars>>
  /\ UNCHANGED <<queue, phase, brokerVars, asked, answered>>

\* A reply arrives; one that is refused is not sent again.
ResyncArrives(r) ==
  \E events \in replies[r] : /\ ReplaceFromVerifiedResync(r, events)
                             /\ replies' = [replies EXCEPT ![r] = @ \ {events}]

\* The transport delivers any former reply once more.
ResyncRepeated(r) ==
  \E events \in answered[r] : ReplaceFromVerifiedResync(r, events) /\ UNCHANGED replies

------------------------------------------------------------------------------
\* The worker hands the resync request to the relay, which accepts it durably.
HandOver(w) == asked' = [asked EXCEPT ![Head(queue[w])] = TRUE]

Deliver(w) ==
  /\ DeliverReturns(w) /\ HandOver(w)
  /\ UNCHANGED <<projectionVars, brokerVars, replies, answered>>

\* A delivery that threw may have reached the relay all the same.
Throw(w) ==
  /\ WorkThrows(w)
  /\ (Working(w, "deliver") /\ HandOver(w)) \/ UNCHANGED asked
  /\ UNCHANGED <<projectionVars, brokerVars, replies, answered>>

WorkerStep(w) ==
  /\ Claim(w) \/ Complete(w) \/ Reschedule(w)
  /\ UNCHANGED <<projectionVars, brokerVars, transitVars>>

WorkerStops(w) == Stop(w) /\ UNCHANGED <<projectionVars, brokerVars, transitVars>>

TimePasses(r) ==
  /\ DelayPasses(r) \/ LeaseLapses(r)
  /\ UNCHANGED <<projectionVars, brokerVars, transitVars>>

Next ==
  \/ \E w \in Workers : Deliver(w) \/ Throw(w) \/ WorkerStep(w) \/ WorkerStops(w)
  \/ \E r \in Requests :
       \/ BrokerSigns(r) \/ BrokerAnswers(r) \/ ResyncArrives(r) \/ ResyncRepeated(r)
       \/ TimePasses(r)
       \/ \E n \in 1 .. MaxEvents : BrokerRestored(r, n)
       \/ \E e \in signed[r] : ApplyNext(r, e) \/ ApplyConflicting(r, e)

Spec == Init /\ [][Next]_vars

\* Workers are run again and again and a delivery that is retried for ever
\* succeeds; time passes; the relay is an at-least-once transport, so a request that
\* was handed over is answered and an answer arrives.
Fairness ==
  /\ \A w \in Workers : WF_vars(WorkerStep(w)) /\ SF_vars(Deliver(w))
  /\ \A r \in Requests : /\ WF_vars(TimePasses(r)) /\ WF_vars(BrokerAnswers(r))
                         /\ WF_vars(ResyncArrives(r))

FairSpec == Spec /\ Fairness

------------------------------------------------------------------------------
\* Properties.

\* The projection is the beginning of a history the broker signed: numbered from 0
\* without a hole, each event the signed successor of the one before, whatever was
\* delivered in which order and however the broker's history was rewound; and
\* last_verified_sequence names its last event (apply, replaceFromVerifiedResync).
ProjectionIsSignedHistory ==
  \A r \in Requests :
    /\ DOMAIN rows[r] = 0 .. verified[r]
    /\ \A s \in DOMAIN rows[r] : \E e \in signed[r] :
         /\ e.sequence = s /\ e.digest = rows[r][s]
         /\ e.previous = IF s = 0 THEN NoDigest ELSE rows[r][s - 1]

\* The service can read all that was signed for a request: its first event has number
\* 0 and no event is in a state that LIFECYCLE_STATES lacks.
Understood(r) == FirstSequence = 0 /\ \A e \in signed[r] : validateEvent(e)

\* A frozen projection of a chain the service can read has its resync under way: a row
\* in the outbox, a request on its way to the broker or a reply on its way back that it
\* has not had yet, although workers lose leases, die between delivery and delete, and
\* rows are armed again while a worker is about to delete them (freezeAndQueueResync,
\* complete).
ResyncUnderWay ==
  \A r \in Requests :
    frozen[r] /\ Understood(r) => outbox[r] # NoRow \/ asked[r] \/ replies[r] # {}

\* A frozen projection is released in the end, by the events it missed or by a
\* resync ("creates an outbox resync request, and blocks user action until a
\* verified contiguous chain arrives"), although workers die and leases lapse.
FrozenIsResolved == \A r \in Requests : frozen[r] ~> ~frozen[r]

\* The same for a chain the service can read.
UnderstoodIsResolved == \A r \in Requests : frozen[r] ~> (~frozen[r] \/ ~Understood(r))
=============================================================================
