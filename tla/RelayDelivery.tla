---------------------------- MODULE RelayDelivery ----------------------------
(***************************************************************************)
(* The way of one request's lifecycle events from the broker to the hosted *)
(* projection: each signed event is an envelope, the spool carries the     *)
(* envelopes in the order of their ids, and a ProjectionChain ingests what *)
(* arrives.  The process that runs the relay is not part of the            *)
(* repository; it acknowledges an envelope when ingest answered Applied or *)
(* Duplicate, and asks for a resync when it answered FrozenGap.  Resync    *)
(* replies come over the same at-least-once transport as everything else:  *)
(* late, out of order and again.                                           *)
(***************************************************************************)
EXTENDS RelaySpool, ProjectionChain

CONSTANTS
  SequenceOf,   \* the sequence number of the event an envelope carries
  MaxReplies    \* bound: different resync replies

VARIABLES
  length,     \* events the broker has signed, numbered from 1
  imported,   \* envelopes whose event the projection answered for
  replies,    \* the resync replies sent so far
  cutOff      \* for checking: the numbers of the events the projection does not
              \* show because it took a reply that ends before them

deliveryVars == <<length, imported, replies, cutOff>>
spoolVars == vars
allVars == <<spoolVars, chainVars, deliveryVars>>

ASSUME SequenceAssumption ==
  /\ SequenceOf \in [Envelopes -> Nat \ {0}]
  /\ \A e, f \in Envelopes : SequenceOf[e] = SequenceOf[f] => e = f
  /\ MaxReplies \in Nat

MaxEvents == Cardinality(Envelopes)
Event(n) == [sequence |-> n, digest |-> n]
Segment(m, n) == [i \in 1 .. n - m + 1 |-> Event(m + i - 1)]

DeliveryInit ==
  /\ Init /\ ChainInit
  /\ length = 0 /\ imported = {} /\ replies = {} /\ cutOff = {}

BrokerSigns ==
  /\ length < MaxEvents
  /\ length' = length + 1
  /\ UNCHANGED <<spoolVars, chainVars, imported, replies, cutOff>>

\* An event is enqueued after it was signed, in whatever order and again after an
\* error; an acknowledged envelope is not enqueued again.
ProducerEnqueues(e) ==
  /\ SequenceOf[e] <= length /\ e \notin gone
  /\ Enqueue(e)
  /\ UNCHANGED <<chainVars, deliveryVars>>

\* The service verifies a delivered envelope and ingests its event.
ServiceIngests(e) ==
  /\ e \in sent
  /\ ingest(Event(SequenceOf[e]))
  /\ imported' = IF IsFrozenGap(Event(SequenceOf[e])) THEN imported ELSE imported \cup {e}
  /\ cutOff' = cutOff \ DOMAIN applied'
  /\ UNCHANGED <<spoolVars, length, replies>>

\* The acknowledgement of an imported envelope arrives.
ServiceAcknowledges(e) ==
  /\ e \in imported
  /\ Acknowledge(e)
  /\ UNCHANGED <<chainVars, deliveryVars>>

\* The broker answers a frozen projection with events it has signed: all of them or,
\* when it takes the request for a request of the missing ones, a later part.
BrokerReplies(m) ==
  /\ frozen_gap /\ Cardinality(replies) < MaxReplies
  /\ m \in 1 .. length
  /\ replies' = replies \cup {Segment(m, length)}
  /\ UNCHANGED <<spoolVars, chainVars, length, imported, cutOff>>

\* The events shown that a reply ends before.
Beyond(events) == {n \in DOMAIN applied : n > events[Len(events)].sequence}

\* A reply arrives, for the first time or again, frozen or not: restore_contiguous,
\* and its error.
ServiceRestores ==
  /\ \E events \in replies :
       \/ /\ restore_contiguous(events)
          /\ cutOff' = (cutOff \cup Beyond(events)) \ DOMAIN applied'
       \/ ~Restores(events) /\ UNCHANGED <<chainVars, cutOff>>
  /\ UNCHANGED <<spoolVars, length, imported, replies>>

SpoolWorks ==
  /\ \/ Tick \/ Crash \/ PowerLoss \/ Open \/ NextDelivery \/ Rename \/ Finish \/ Fail
     \/ \E i \in Ids : RetryWithBackoff(i)
  /\ UNCHANGED <<chainVars, deliveryVars>>

DeliveryNext ==
  \/ BrokerSigns \/ SpoolWorks \/ ServiceRestores
  \/ \E m \in 1 .. MaxEvents : BrokerReplies(m)
  \/ \E e \in Envelopes : ProducerEnqueues(e) \/ ServiceIngests(e) \/ ServiceAcknowledges(e)

DeliverySpec == DeliveryInit /\ [][DeliveryNext]_allVars

------------------------------------------------------------------------------
\* Properties.

\* From the enqueue that succeeded on, an event is in the spool or in the projection,
\* whatever crashed, was delivered twice or in another order: an acknowledgement never
\* outruns the import.  The one way to lose an acknowledged event is a late or repeated
\* resync reply that ends before it, which restore_contiguous takes without comparing
\* it with what is shown; and then the projection lacks it until it is shown again
\* (acknowledge, ingest, restore_contiguous).
NoEventForgotten ==
  \A e \in owed \cup gone :
    \/ SequenceOf[e] \in DOMAIN applied \cup cutOff
    \/ \A s \in Recoverable : Holds(s, e)

Contract == INSTANCE ProjectionContract WITH
  shown <- DOMAIN applied, frozen <- frozen_gap

\* Behind the spool the projection keeps the contract: it shows a beginning of the
\* broker's chain, advances by one, and stands still while it is frozen
\* (ProjectionChain: "records verified contiguous event identities and freezes on
\* ambiguity").
ImplementsContract == Contract!Spec
=============================================================================
